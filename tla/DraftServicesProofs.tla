------------------------ MODULE DraftServicesProofs ------------------------
(***************************************************************************)
(* Proofs about a draft's requests and what surrounds them: ranking syncs  *)
(* that a start overlaps, simulations that outlive their row, previews     *)
(* that are committed twice, and requests that are recorded once.          *)
(***************************************************************************)
EXTENDS DraftServices, SequenceTheorems, TLAPS

-----------------------------------------------------------------------------
(* Ranking synchronization.                                                *)

(* A setup sync works for a started draft only if it was there already     *)
(* when the draft was started, and the ranking a live sync goes to bind is *)
(* stored.                                                                 *)
RankingInv ==
    /\ Ranking!TypeOK
    /\ status \in Ranking!Started /\ ~overlapped => sync.at # "setup"
    /\ sync.at = "locking" => sync.got \in 1..stored

(* What the steps make of a sync is one.                                   *)
LEMMA NoSyncTyped == Ranking!NoSync \in Ranking!Syncs /\ Ranking!NoSync.at = "idle"
BY RankingAssumption
   DEF Ranking!NoSync, Ranking!Syncs, Ranking!Unstarted, Ranking!RankingSyncAssumption

(* A sync reads the session: a setup sync for an unstarted draft, a live   *)
(* one for an active draft.                                                *)
LEMMA SyncBegun ==
    ASSUME Ranking!TypeOK, Ranking!SyncDraftRankings
    PROVE  /\ sync' \in Ranking!Syncs
           /\ sync'.at = IF status \in Ranking!Unstarted THEN "setup" ELSE "live"
<1>1. CASE /\ status \in Ranking!Unstarted
           /\ sync' = [Ranking!NoSync EXCEPT !.at = "setup", !.loaded = status]
    BY <1>1, NoSyncTyped DEF Ranking!Syncs
<1>2. CASE /\ status \in Ranking!Active
           /\ sync' = [Ranking!NoSync EXCEPT !.at = "live", !.expected = event]
    <2>1. event \in 0..MaxEvents /\ status \notin Ranking!Unstarted
        BY <1>2 DEF Ranking!TypeOK, Ranking!Active, Ranking!Unstarted
    <2>. QED
        BY <1>2, <2>1, NoSyncTyped DEF Ranking!Syncs
<1>. QED
    BY <1>1, <1>2 DEF Ranking!SyncDraftRankings

(* A live sync chooses a ranking that is stored then.                      *)
LEMMA LiveRankingStored ==
    ASSUME Ranking!TypeOK, Ranking!StoreLiveRanking
    PROVE  /\ stored' \in 0..MaxRankings /\ stored' >= stored
           /\ sync' \in Ranking!Syncs /\ sync'.at = "locking" /\ sync'.got \in 1..stored'
<1>1. PICK n \in 1..MaxRankings :
        /\ Ranking!Chosen(n)
        /\ stored' = IF n > stored THEN n ELSE stored
        /\ sync' = [sync EXCEPT !.at = "locking", !.got = n]
    BY DEF Ranking!StoreLiveRanking
<1>2. stored \in 0..MaxRankings /\ sync \in Ranking!Syncs /\ MaxRankings \in Nat
    BY RankingAssumption DEF Ranking!TypeOK, Ranking!RankingSyncAssumption
<1>3. n \in 0..MaxRankings
    BY <1>2
<1>4. sync' \in Ranking!Syncs
    BY <1>1, <1>2, <1>3 DEF Ranking!Syncs
<1>5. sync'.at = "locking" /\ sync'.got = n
    BY <1>1, <1>2 DEF Ranking!Syncs
<1>6. stored' \in 0..MaxRankings /\ stored' >= stored /\ n \in 1..stored'
    BY <1>1, <1>2 DEF Ranking!Chosen
<1>. QED
    BY <1>4, <1>5, <1>6

(* Before the first sync nothing is bound and no sync is at work.          *)
LEMMA RankingInit == Ranking!Init => RankingInv
<1>1. Ranking!Init => overlapped \in BOOLEAN
    BY DEF Ranking!Init
<1>. QED
    BY <1>1, NoSyncTyped, RankingAssumption
       DEF RankingInv, Ranking!Init, Ranking!TypeOK, Ranking!Unstarted, Ranking!Started,
           Ranking!Active, Ranking!RankingSyncAssumption

(* Every step of the ranking sync keeps its inductive invariant.           *)
LEMMA RankingKept ==
    ASSUME RankingInv, [Ranking!Next]_(Ranking!vars)
    PROVE  RankingInv'
<1>. USE RankingAssumption
     DEF RankingInv, Ranking!TypeOK, Ranking!Syncs, Ranking!NoSync, Ranking!Started,
         Ranking!Unstarted, Ranking!Active, Ranking!RankingSyncAssumption
<1>1. CASE Ranking!Start
    <2>1. overlapped' \in BOOLEAN /\ (~overlapped' => sync'.at # "setup")
        BY <1>1 DEF Ranking!Start
    <2>. QED
        BY <1>1, <2>1 DEF Ranking!Start, Ranking!Event
<1>2. CASE Ranking!DraftEvent
    BY <1>2 DEF Ranking!DraftEvent, Ranking!Transition, Ranking!Event
<1>3. CASE Ranking!UpdateSetup
    BY <1>3 DEF Ranking!UpdateSetup
<1>4. CASE Ranking!OwnerBinds
    BY <1>4 DEF Ranking!OwnerBinds, Ranking!BindInputs, Ranking!Event
<1>5. CASE Ranking!ImportRanking
    BY <1>5 DEF Ranking!ImportRanking
<1>6. CASE Ranking!SyncDraftRankings
    <2>. HIDE DEF Ranking!Syncs, Ranking!NoSync
    <2>. QED
        BY <1>6, SyncBegun DEF Ranking!SyncDraftRankings
<1>7. CASE Ranking!SyncScrapedLeagues
    BY <1>7 DEF Ranking!SyncScrapedLeagues
<1>8. CASE Ranking!SyncFails
    BY <1>8 DEF Ranking!SyncFails
<1>9. CASE Ranking!BindRankingToSession
    BY <1>9 DEF Ranking!BindRankingToSession, Ranking!Chosen
<1>10. CASE Ranking!StoreLiveRanking
    <2>1. UNCHANGED <<status, event, ranking, syncRestarts, overlapped>>
        BY <1>10 DEF Ranking!StoreLiveRanking
    <2>. HIDE DEF Ranking!Syncs, Ranking!NoSync
    <2>. QED
        BY <1>10, LiveRankingStored, <2>1
<1>11. CASE Ranking!BindLiveRanking
    BY <1>11 DEF Ranking!BindLiveRanking, Ranking!BindInputs, Ranking!Event
<1>12. CASE Ranking!Restart
    BY <1>12 DEF Ranking!Restart
<1>13. CASE UNCHANGED Ranking!vars
    BY <1>13 DEF Ranking!vars
<1>. QED
    BY <1>1, <1>2, <1>3, <1>4, <1>5, <1>6, <1>7, <1>8, <1>9, <1>10, <1>11, <1>12, <1>13
       DEF Ranking!Next

(* No step moves what a started draft uses unless a setup sync overlapped  *)
(* its start.                                                              *)
LEMMA RankingStands ==
    ASSUME RankingInv, [Ranking!Next]_(Ranking!vars)
    PROVE  [(status \in Ranking!Started /\ ~overlapped) => Ranking!DraftStands]_(Ranking!vars)
<1>. USE DEF RankingInv, Ranking!TypeOK, Ranking!Started, Ranking!Unstarted,
             Ranking!Active, Ranking!DraftStands
<1>. SUFFICES ASSUME Ranking!Next, status \in Ranking!Started, ~overlapped
              PROVE  Ranking!DraftStands
    OBVIOUS
<1>1. CASE Ranking!DraftEvent
    BY <1>1 DEF Ranking!DraftEvent, Ranking!Transition, Ranking!Event
<1>2. CASE Ranking!OwnerBinds \/ Ranking!BindLiveRanking
    BY <1>2 DEF Ranking!OwnerBinds, Ranking!BindLiveRanking, Ranking!BindInputs, Ranking!Event
<1>3. CASE Ranking!Start \/ Ranking!UpdateSetup \/ Ranking!BindRankingToSession
    BY <1>3 DEF Ranking!Start, Ranking!UpdateSetup, Ranking!BindRankingToSession
<1>4. CASE \/ Ranking!ImportRanking \/ Ranking!SyncDraftRankings \/ Ranking!SyncScrapedLeagues
           \/ Ranking!SyncFails \/ Ranking!StoreLiveRanking \/ Ranking!Restart
    BY <1>4 DEF Ranking!ImportRanking, Ranking!SyncDraftRankings, Ranking!SyncScrapedLeagues,
                Ranking!SyncFails, Ranking!StoreLiveRanking, Ranking!Restart
<1>. QED
    BY <1>1, <1>2, <1>3, <1>4 DEF Ranking!Next

(* A step of the composition is a step of the ranking sync or leaves it    *)
(* alone.                                                                  *)
LEMMA RankingOnly ==
    ASSUME [Next]_vars PROVE [Ranking!Next]_(Ranking!vars)
BY DEF Next, vars, CoordinatorStep, SimulationStep, RankingStep, InputStep, rankingVars,
       Ranking!vars

(* What a started draft uses and where it stands changes by its events     *)
(* only, unless it was started during a setup sync (ranking_sync.py):      *)
(* StartedDraftStands for any number of revisions and crashes.             *)
THEOREM DraftStandsOnceStarted == Spec => StartedDraftStands
<1>1. Init => RankingInv
    BY RankingInit DEF Init
<1>2. RankingInv /\ [Next]_vars => RankingInv'
    BY RankingOnly, RankingKept
<1>3. RankingInv /\ [Next]_vars
      => [(status \in Ranking!Started /\ ~overlapped) => Ranking!DraftStands]_(Ranking!vars)
    BY RankingOnly, RankingStands
<1>. QED
    BY <1>1, <1>2, <1>3, PTL DEF Spec, StartedDraftStands, Ranking!StartedDraftStands
-----------------------------------------------------------------------------
(* Simulations.                                                            *)

(* The playouts in the process are of rows that run or were given up, each *)
(* given once, and the thread waits for its own if they are there.         *)
PlayoutsSound ==
    /\ \A i, j \in 1..Len(playouts) : playouts[i] = playouts[j] => i = j
    /\ \A i \in 1..Len(playouts) :
         /\ run[playouts[i]].status \in {"running", "timed_out"}
         /\ playouts[i] = thread.row => thread.at = "waiting"

(* The thread executes a running row; its playouts ended at or after the   *)
(* sequence they are of, and before the draft was read.                    *)
ThreadSound ==
    /\ thread.at # "idle" => thread.row \in Sims!Runs /\ run[thread.row].status = "running"
    /\ thread.at \in {"reading", "committing"} =>
         run[thread.row].sequence <= run[thread.row].endedAt /\ run[thread.row].endedAt <= board
    /\ thread.at = "committing" => run[thread.row].endedAt <= thread.seen

SimsInv ==
    /\ Sims!TypeOK /\ Sims!ReadyIsCurrent
    /\ \A r \in Sims!Runs : run[r].sequence <= board
    /\ PlayoutsSound /\ ThreadSound

(* Before the first simulation there are no rows, no playouts and no       *)
(* threads at work.                                                        *)
LEMMA SimsInit == Sims!Init => SimsInv
<1>. SUFFICES ASSUME Sims!Init PROVE SimsInv
    OBVIOUS
<1>1. Sims!TypeOK
    <2>1. broken \in BOOLEAN
        BY DEF Sims!Init
    <2>2. run \in [Sims!Runs -> [status : Sims!Statuses, sequence : 0..MaxBoard,
                               endedAt : -1..MaxBoard]]
        BY SimulationsAssumption DEF Sims!Init, Sims!Statuses, Sims!DraftSimulationsAssumption
    <2>. QED
        BY <2>1, <2>2, SimulationsAssumption
           DEF Sims!Init, Sims!TypeOK, Sims!Idle, Sims!DraftSimulationsAssumption
<1>2. Sims!ReadyIsCurrent /\ \A r \in Sims!Runs : run[r].sequence <= board
    BY DEF Sims!Init, Sims!ReadyIsCurrent
<1>3. PlayoutsSound /\ ThreadSound
    BY DEF Sims!Init, PlayoutsSound, ThreadSound, Sims!Idle
<1>. QED
    BY <1>1, <1>2, <1>3 DEF SimsInv

(* A row's new status is all that changes when it becomes another one.     *)
LEMMA BecomeChanges ==
    ASSUME Sims!TypeOK, NEW r \in Sims!Runs, NEW s \in Sims!Statuses, Sims!Become(r, s)
    PROVE  /\ run' \in [Sims!Runs -> [status : Sims!Statuses, sequence : 0..MaxBoard,
                                     endedAt : -1..MaxBoard]]
           /\ run'[r].status = s
           /\ \A q \in Sims!Runs :
                /\ run'[q].sequence = run[q].sequence
                /\ run'[q].endedAt = run[q].endedAt
                /\ q # r => run'[q].status = run[q].status
BY DEF Sims!TypeOK, Sims!Become
(* The parts of the invariant that the steps use most.                     *)
LEMMA PlayoutsAreRows ==
    ASSUME Sims!TypeOK
    PROVE  /\ playouts \in Seq(Sims!Runs) /\ Len(playouts) \in Nat
           /\ \A i \in 1..Len(playouts) : playouts[i] \in Sims!Runs
<1>1. playouts \in Seq(Sims!Runs)
    BY DEF Sims!TypeOK
<1>. QED
    BY <1>1, ElementOfSeq

(* The fields of a simulation's row have their types.                      *)
LEMMA RowsTyped ==
    ASSUME Sims!TypeOK
    PROVE  /\ board \in 0..MaxBoard
           /\ run \in [Sims!Runs -> [status : Sims!Statuses, sequence : 0..MaxBoard,
                                   endedAt : -1..MaxBoard]]
           /\ thread \in [row : Sims!Runs \cup {0}, seen : 0..MaxBoard,
                          at : {"idle", "submitting", "waiting", "reading", "committing"}]
BY DEF Sims!TypeOK

(* The rows and threads that are not in use have their types.              *)
LEMMA IdleTyped ==
    /\ Sims!Idle \in [row : Sims!Runs \cup {0}, seen : 0..MaxBoard,
                      at : {"idle", "submitting", "waiting", "reading", "committing"}]
    /\ Sims!Idle.at = "idle" /\ Sims!Idle.row = 0
BY SimulationsAssumption DEF Sims!Idle, Sims!DraftSimulationsAssumption

(* An event on the draft moves its sequence forward, so a simulation       *)
(* queued before it no longer matches.                                     *)
LEMMA DraftEventKeeps ==
    ASSUME SimsInv, Sims!DraftEvent PROVE SimsInv'
<1>. USE SimulationsAssumption DEF SimsInv, Sims!DraftEvent, Sims!DraftSimulationsAssumption
<1>1. /\ UNCHANGED <<run, pending, playouts, thread, broken, simRestarts, deaths>>
      /\ board \in 0..MaxBoard /\ board' = board + 1 /\ board' \in 0..MaxBoard
    BY DEF Sims!TypeOK
<1>2. run \in [Sims!Runs -> [status : Sims!Statuses, sequence : 0..MaxBoard,
                           endedAt : -1..MaxBoard]]
    BY DEF Sims!TypeOK
<1>3. Sims!TypeOK' /\ Sims!ReadyIsCurrent'
    BY <1>1 DEF Sims!TypeOK, Sims!ReadyIsCurrent
<1>4. \A r \in Sims!Runs : run'[r].sequence <= board'
    BY <1>1, <1>2
<1>5. PlayoutsSound'
    BY <1>1 DEF PlayoutsSound
<1>6. ThreadSound'
    BY <1>1, <1>2 DEF ThreadSound
<1>. QED
    BY <1>3, <1>4, <1>5, <1>6

(* A simulation is queued for the sequence the draft is at.                *)
LEMMA EnqueueKeeps ==
    ASSUME SimsInv, NEW r \in Sims!Runs, Sims!EnqueueSimulation(r) PROVE SimsInv'
<1>. USE DEF SimsInv
<1>1. /\ run[r].status = "none"
      /\ run' = [run EXCEPT ![r].status = "queued", ![r].sequence = board]
      /\ pending' = Append(pending, r)
      /\ UNCHANGED <<board, thread, playouts, broken, simRestarts, deaths>>
    BY DEF Sims!EnqueueSimulation
<1>2. /\ board \in 0..MaxBoard
      /\ run \in [Sims!Runs -> [status : Sims!Statuses, sequence : 0..MaxBoard,
                              endedAt : -1..MaxBoard]]
    BY DEF Sims!TypeOK
<1>3. /\ run' \in [Sims!Runs -> [status : Sims!Statuses, sequence : 0..MaxBoard,
                               endedAt : -1..MaxBoard]]
      /\ run'[r].status = "queued" /\ run'[r].sequence = board
      /\ \A q \in Sims!Runs \ {r} : run'[q] = run[q]
    BY <1>1, <1>2 DEF Sims!Statuses, Sims!Busy
<1>4. Sims!TypeOK'
    <2>1. pending' \in Seq(Sims!Runs)
        BY <1>1, AppendProperties DEF Sims!TypeOK
    <2>. QED
        BY <1>1, <1>3, <2>1 DEF Sims!TypeOK
<1>5. Sims!ReadyIsCurrent' /\ \A q \in Sims!Runs : run'[q].sequence <= board'
    BY <1>1, <1>2, <1>3 DEF Sims!ReadyIsCurrent
<1>6. PlayoutsSound'
    <2>1. \A i \in 1..Len(playouts) : playouts[i] \in Sims!Runs \ {r}
        BY <1>1, PlayoutsAreRows DEF PlayoutsSound
    <2>. QED
        BY <1>1, <1>3, <2>1 DEF PlayoutsSound
<1>7. ThreadSound'
    <2>1. thread.at # "idle" => thread.row \in Sims!Runs \ {r}
        BY <1>1 DEF ThreadSound
    <2>2. thread.at \in {"reading", "committing"} => thread.at # "idle"
        OBVIOUS
    <2>. QED
        BY <1>1, <1>3, <2>1, <2>2 DEF ThreadSound
<1>. QED
    BY <1>4, <1>5, <1>6, <1>7

(* A thread takes the next row, if that is still queued.                   *)
LEMMA BeginKeeps ==
    ASSUME SimsInv, Sims!Begin PROVE SimsInv'
<1>. USE DEF SimsInv
<1>. DEFINE r == Head(pending)
<1>1. /\ thread.at = "idle" /\ pending \in Seq(Sims!Runs) /\ pending # <<>>
      /\ pending' = Tail(pending) /\ UNCHANGED <<board, playouts, broken, simRestarts, deaths>>
    BY DEF Sims!Begin, Sims!TypeOK
<1>2. r \in Sims!Runs /\ pending' \in Seq(Sims!Runs)
    BY <1>1, HeadTailProperties
<1>3. CASE run[r].status # "queued"
    <2>1. UNCHANGED <<run, thread>>
        BY <1>3 DEF Sims!Begin
    <2>. QED
        BY <1>1, <1>2, <2>1
           DEF Sims!TypeOK, Sims!ReadyIsCurrent, PlayoutsSound, ThreadSound
<1>4. CASE run[r].status = "queued"
    <2>1. Sims!Become(r, "running")
        BY <1>4 DEF Sims!Begin
    <2>2. thread' = [row |-> r, at |-> "submitting", seen |-> 0]
        BY <1>4 DEF Sims!Begin
    <2>3. /\ run' \in [Sims!Runs -> [status : Sims!Statuses, sequence : 0..MaxBoard,
                                   endedAt : -1..MaxBoard]]
          /\ run'[r].status = "running"
          /\ \A q \in Sims!Runs :
               /\ run'[q].sequence = run[q].sequence
               /\ run'[q].endedAt = run[q].endedAt
               /\ q # r => run'[q].status = run[q].status
        BY <1>2, <2>1, BecomeChanges DEF Sims!Statuses, Sims!Busy
    <2>4. /\ thread' \in [row : Sims!Runs \cup {0}, seen : 0..MaxBoard,
                          at : {"idle", "submitting", "waiting", "reading", "committing"}]
          /\ thread'.at = "submitting" /\ thread'.row = r
        BY <1>2, <2>2, SimulationsAssumption DEF Sims!DraftSimulationsAssumption
    <2>5. Sims!TypeOK'
        BY <1>1, <1>2, <2>3, <2>4 DEF Sims!TypeOK
    <2>6. Sims!ReadyIsCurrent'
        <3>1. ASSUME NEW q \in Sims!Runs, run'[q].status = "ready"
              PROVE  q # r /\ run[q].status = "ready"
            BY <2>3, <3>1
        <3>. QED
            BY <2>3, <3>1 DEF Sims!ReadyIsCurrent
    <2>7. \A q \in Sims!Runs : run'[q].sequence <= board'
        BY <1>1, <2>3
    <2>8. PlayoutsSound'
        <3>1. ASSUME NEW i \in 1..Len(playouts)
              PROVE  playouts[i] # r /\ run'[playouts[i]].status = run[playouts[i]].status
            BY <1>4, <2>3, PlayoutsAreRows DEF PlayoutsSound
        <3>. QED
            BY <1>1, <2>4, <3>1 DEF PlayoutsSound
    <2>9. ThreadSound'
        BY <1>2, <2>3, <2>4 DEF ThreadSound
    <2>. QED
        BY <2>5, <2>6, <2>7, <2>8, <2>9
<1>. QED
    BY <1>3, <1>4

(* The playout of the thread's row is submitted once, or a broken pool     *)
(* ends the task.                                                          *)
LEMMA SubmitKeeps ==
    ASSUME SimsInv, Sims!Submit PROVE SimsInv'
<1>. USE DEF SimsInv
<1>1. thread.at = "submitting" /\ UNCHANGED <<board, run, pending, broken, simRestarts, deaths>>
    BY DEF Sims!Submit
<1>2. thread.row \in Sims!Runs /\ run[thread.row].status = "running"
    BY <1>1 DEF ThreadSound
<1>3. CASE thread' = Sims!Idle /\ UNCHANGED playouts
    <2>1. Sims!TypeOK' /\ Sims!ReadyIsCurrent'
        BY <1>1, <1>3, IdleTyped DEF Sims!TypeOK, Sims!ReadyIsCurrent
    <2>2. PlayoutsSound'
        BY <1>1, <1>3, IdleTyped, PlayoutsAreRows DEF PlayoutsSound, Sims!Runs
    <2>3. ThreadSound'
        BY <1>3, IdleTyped DEF ThreadSound
    <2>. QED
        BY <1>1, <2>1, <2>2, <2>3
<1>4. CASE /\ thread' = [thread EXCEPT !.at = "waiting"]
           /\ playouts' = Append(playouts, thread.row)
    <2>1. /\ thread' \in [row : Sims!Runs \cup {0}, seen : 0..MaxBoard,
                          at : {"idle", "submitting", "waiting", "reading", "committing"}]
          /\ thread'.at = "waiting" /\ thread'.row = thread.row
        BY <1>4, RowsTyped
    <2>2. /\ playouts' \in Seq(Sims!Runs) /\ Len(playouts') = Len(playouts) + 1
          /\ playouts'[Len(playouts) + 1] = thread.row
          /\ \A i \in 1..Len(playouts) : playouts'[i] = playouts[i]
        BY <1>2, <1>4, AppendProperties, PlayoutsAreRows
    <2>3. Sims!TypeOK'
        BY <1>1, <2>1, <2>2 DEF Sims!TypeOK
    <2>4. PlayoutsSound'
        <3>1. \A i \in 1..Len(playouts) : playouts[i] # thread.row
            BY <1>1 DEF PlayoutsSound
        <3>2. ASSUME NEW i \in 1..Len(playouts')
              PROVE  run'[playouts'[i]].status \in {"running", "timed_out"}
            <4>1. CASE i \in 1..Len(playouts)
                BY <1>1, <2>2, <4>1 DEF PlayoutsSound
            <4>2. CASE i = Len(playouts) + 1
                BY <1>1, <1>2, <2>2, <4>2
            <4>. QED
                BY <2>2, <4>1, <4>2, PlayoutsAreRows
        <3>3. \A i, j \in 1..Len(playouts') : playouts'[i] = playouts'[j] => i = j
            BY <2>2, <3>1, PlayoutsAreRows DEF PlayoutsSound
        <3>. QED
            BY <2>1, <3>2, <3>3 DEF PlayoutsSound
    <2>6. Sims!ReadyIsCurrent'
        BY <1>1 DEF Sims!ReadyIsCurrent
    <2>5. ThreadSound'
        BY <1>1, <1>2, <2>1 DEF ThreadSound
    <2>. QED
        BY <1>1, <2>3, <2>4, <2>5, <2>6
<1>. QED
    BY <1>3, <1>4 DEF Sims!Submit

(* The process plays one board out: one result of the ones it was given.   *)
LEMMA SimulateKeeps ==
    ASSUME SimsInv, Sims!Simulate PROVE SimsInv'
<1>. USE DEF SimsInv
<1>. DEFINE r == Head(playouts)
<1>1. /\ playouts # <<>> /\ playouts' = Tail(playouts)
      /\ run' = [run EXCEPT ![r].endedAt = board]
      /\ UNCHANGED <<board, pending, broken, simRestarts, deaths>>
    BY DEF Sims!Simulate
<1>2. /\ r = playouts[1] /\ r \in Sims!Runs /\ run[r].status # "ready"
      /\ playouts' \in Seq(Sims!Runs) /\ Len(playouts') = Len(playouts) - 1
      /\ 1 \in 1..Len(playouts)
      /\ \A i \in 1..Len(playouts') : playouts'[i] = playouts[i + 1] /\ i + 1 \in 1..Len(playouts)
    <2>1. playouts \in Seq(Sims!Runs) /\ Len(playouts) \in Nat
        BY PlayoutsAreRows
    <2>2. 1 \in 1..Len(playouts) /\ r = playouts[1]
        BY <1>1, <2>1
    <2>3. r \in Sims!Runs /\ run[r].status # "ready"
        BY <2>2, PlayoutsAreRows DEF PlayoutsSound
    <2>. QED
        BY <1>1, <2>1, <2>2, <2>3, HeadTailProperties
<1>3. /\ run' \in [Sims!Runs -> [status : Sims!Statuses, sequence : 0..MaxBoard,
                               endedAt : -1..MaxBoard]]
      /\ run'[r].endedAt = board
      /\ \A q \in Sims!Runs :
           /\ run'[q].sequence = run[q].sequence
           /\ run'[q].status = run[q].status
           /\ q # r => run'[q].endedAt = run[q].endedAt
    <2>1. board \in -1..MaxBoard
        BY RowsTyped
    <2>. QED
        BY <1>1, <1>2, <2>1, RowsTyped
<1>4. /\ thread' \in [row : Sims!Runs \cup {0}, seen : 0..MaxBoard,
                      at : {"idle", "submitting", "waiting", "reading", "committing"}]
      /\ thread'.row = thread.row /\ thread'.seen = thread.seen
      /\ IF thread.at = "waiting" /\ thread.row = r THEN thread'.at = "reading"
                                                   ELSE thread'.at = thread.at
    BY RowsTyped DEF Sims!Simulate
<1>5. Sims!TypeOK'
    BY <1>1, <1>2, <1>3, <1>4 DEF Sims!TypeOK
<1>6. Sims!ReadyIsCurrent' /\ \A q \in Sims!Runs : run'[q].sequence <= board'
    BY <1>1, <1>2, <1>3 DEF Sims!ReadyIsCurrent
<1>7. PlayoutsSound'
    <2>1. \A i \in 1..Len(playouts') : playouts'[i] \in Sims!Runs /\ playouts'[i] # r
        <3>. TAKE i \in 1..Len(playouts')
        <3>1. i + 1 # 1 /\ playouts'[i] = playouts[i + 1] /\ i + 1 \in 1..Len(playouts)
            BY <1>2, PlayoutsAreRows
        <3>2. playouts[i + 1] # playouts[1]
            BY <1>2, <3>1 DEF PlayoutsSound
        <3>. QED
            BY <1>2, <3>1, <3>2, PlayoutsAreRows
    <2>2. ASSUME NEW i \in 1..Len(playouts')
          PROVE  run'[playouts'[i]].status \in {"running", "timed_out"}
        <3>1. playouts'[i] = playouts[i + 1] /\ i + 1 \in 1..Len(playouts)
            BY <1>2
        <3>2. run[playouts[i + 1]].status \in {"running", "timed_out"}
            BY <3>1 DEF PlayoutsSound
        <3>. QED
            BY <1>3, <2>1, <3>1, <3>2
    <2>3. \A i, j \in 1..Len(playouts') : playouts'[i] = playouts'[j] => i = j
        BY <1>2 DEF PlayoutsSound
    <2>4. \A i \in 1..Len(playouts') : playouts'[i] = thread'.row => thread'.at = "waiting"
        BY <1>2, <1>4, <2>1 DEF PlayoutsSound
    <2>. QED
        BY <2>2, <2>3, <2>4 DEF PlayoutsSound
<1>8. ThreadSound'
    <2>1. thread'.at # "idle" => thread'.row \in Sims!Runs /\ run'[thread'.row].status = "running"
        <3>1. thread'.at # "idle" => thread.at # "idle"
            BY <1>4
        <3>. QED
            BY <1>3, <1>4, <3>1 DEF ThreadSound
    <2>2. ASSUME thread'.at \in {"reading", "committing"}
          PROVE  /\ run'[thread'.row].sequence <= run'[thread'.row].endedAt
                 /\ run'[thread'.row].endedAt <= board'
                 /\ thread'.at = "committing" => run'[thread'.row].endedAt <= thread'.seen
        <3>1. CASE thread.at = "waiting" /\ thread.row = r
            <4>1. run[r].sequence <= board /\ board \in 0..MaxBoard
                BY <1>2, RowsTyped
            <4>. QED
                BY <1>1, <1>2, <1>3, <1>4, <3>1, <4>1
        <3>2. CASE thread.at \in {"reading", "committing"} /\ thread'.at = thread.at
            <4>1. thread.row # r /\ thread.row \in Sims!Runs
                BY <1>2, <3>2 DEF PlayoutsSound, ThreadSound
            <4>. QED
                BY <1>1, <1>3, <1>4, <3>2, <4>1 DEF ThreadSound
        <3>. QED
            BY <1>4, <2>2, <3>1, <3>2
    <2>. QED
        BY <2>1, <2>2 DEF ThreadSound
<1>. QED
    BY <1>5, <1>6, <1>7, <1>8

(* What the thread leaves behind when it is done with its row: the row     *)
(* with its final status, and some of the playouts.                        *)
LEMMA RowEnds ==
    ASSUME SimsInv, thread.at # "idle", NEW s \in {"timed_out", "failed", "ready", "stale"},
           Sims!Become(thread.row, s), thread' = Sims!Idle, board' = board,
           s = "ready" => run[thread.row].endedAt = run[thread.row].sequence,
           playouts' \in Seq(Sims!Runs),
           \A i \in 1..Len(playouts') : \E j \in 1..Len(playouts) : playouts'[i] = playouts[j],
           \A i, j \in 1..Len(playouts') : playouts'[i] = playouts'[j] => i = j,
           s # "timed_out" => \A i \in 1..Len(playouts') : playouts'[i] # thread.row,
           pending' \in Seq(Sims!Runs), broken' \in BOOLEAN,
           simRestarts' \in 0..MaxSimRestarts, deaths' \in 0..MaxDeaths
    PROVE  SimsInv'
<1>. DEFINE r == thread.row
<1>. USE DEF SimsInv
<1>1. r \in Sims!Runs /\ run[r].status = "running"
    BY DEF ThreadSound
<1>2. /\ run' \in [Sims!Runs -> [status : Sims!Statuses, sequence : 0..MaxBoard,
                               endedAt : -1..MaxBoard]]
      /\ run'[r].status = s
      /\ \A q \in Sims!Runs :
           /\ run'[q].sequence = run[q].sequence
           /\ run'[q].endedAt = run[q].endedAt
           /\ q # r => run'[q].status = run[q].status
    BY <1>1, BecomeChanges DEF Sims!Statuses
<1>3. Sims!TypeOK'
    BY <1>2, IdleTyped DEF Sims!TypeOK
<1>4. Sims!ReadyIsCurrent'
    <2>1. ASSUME NEW q \in Sims!Runs, run'[q].status = "ready"
          PROVE  run'[q].endedAt = run'[q].sequence
        BY <1>1, <1>2, <2>1 DEF Sims!ReadyIsCurrent
    <2>. QED
        BY <2>1 DEF Sims!ReadyIsCurrent
<1>5. \A q \in Sims!Runs : run'[q].sequence <= board'
    BY <1>2
<1>6. PlayoutsSound'
    <2>1. ASSUME NEW i \in 1..Len(playouts')
          PROVE  /\ run'[playouts'[i]].status \in {"running", "timed_out"}
                 /\ playouts'[i] # Sims!Idle.row
        <3>1. PICK j \in 1..Len(playouts) : playouts'[i] = playouts[j]
            OBVIOUS
        <3>2. playouts[j] \in Sims!Runs /\ run[playouts[j]].status \in {"running", "timed_out"}
            BY PlayoutsAreRows DEF PlayoutsSound
        <3>3. CASE playouts[j] = r
            <4>1. s = "timed_out"
                BY <3>1, <3>3
            <4>. QED
                BY <1>2, <3>1, <3>2, <3>3, <4>1, IdleTyped DEF Sims!Runs
        <3>4. CASE playouts[j] # r
            BY <1>2, <3>1, <3>2, <3>4, IdleTyped DEF Sims!Runs
        <3>. QED
            BY <3>3, <3>4
    <2>. QED
        BY <2>1 DEF PlayoutsSound
<1>7. ThreadSound'
    BY IdleTyped DEF ThreadSound
<1>. QED
    BY <1>3, <1>4, <1>5, <1>6, <1>7

(* A sequence without one of its elements.                                 *)
LEMMA Removed ==
    ASSUME NEW S, NEW s \in Seq(S), NEW k \in 1..Len(s), NEW t, t = Sims!RemoveAt(s, k)
    PROVE  /\ t \in Seq(S) /\ Len(t) = Len(s) - 1
           /\ \A i \in 1..Len(t) : t[i] = IF i < k THEN s[i] ELSE s[i + 1]
<1>. DEFINE front == SubSeq(s, 1, k - 1)
            back  == SubSeq(s, k + 1, Len(s))
<1>1. Len(s) \in Nat /\ \A i \in 1..Len(s) : s[i] \in S
    BY ElementOfSeq
<1>2. /\ front \in Seq(S) /\ Len(front) = k - 1
      /\ \A i \in 1..(k - 1) : front[i] = s[i]
    BY <1>1
<1>3. /\ back \in Seq(S) /\ Len(back) = Len(s) - k
      /\ \A i \in 1..(Len(s) - k) : back[i] = s[k + i]
    BY <1>1
<1>4. t = front \o back
    BY DEF Sims!RemoveAt
<1>. HIDE DEF front, back
<1>5. /\ t \in Seq(S) /\ Len(t) = Len(front) + Len(back)
      /\ \A i \in 1..(Len(front) + Len(back)) :
           t[i] = IF i <= Len(front) THEN front[i] ELSE back[i - Len(front)]
    <2>1. front \in Seq(S) /\ back \in Seq(S)
        BY <1>2, <1>3
    <2>2. /\ front \o back \in Seq(S) /\ Len(front \o back) = Len(front) + Len(back)
          /\ \A i \in 1..(Len(front) + Len(back)) :
               (front \o back)[i] = IF i <= Len(front) THEN front[i] ELSE back[i - Len(front)]
        BY <2>1, ConcatProperties
    <2>. QED
        BY <1>4, <2>2
<1>6. Len(t) = Len(s) - 1
    BY <1>1, <1>2, <1>3, <1>5
<1>7. ASSUME NEW i \in 1..Len(t)
      PROVE  t[i] = IF i < k THEN s[i] ELSE s[i + 1]
    <2>1. t[i] = IF i <= k - 1 THEN front[i] ELSE back[i - (k - 1)]
        BY <1>2, <1>5
    <2>2. CASE i < k
        BY <1>1, <1>2, <2>1, <2>2
    <2>3. CASE ~(i < k)
        <3>1. i - (k - 1) \in 1..(Len(s) - k) /\ k + (i - (k - 1)) = i + 1
            BY <1>1, <1>6, <2>3
        <3>2. t[i] = back[i - (k - 1)]
            BY <1>1, <1>6, <2>1, <2>3
        <3>. QED
            BY <1>3, <2>3, <3>1, <3>2
    <2>. QED
        BY <2>2, <2>3
<1>. QED
    BY <1>5, <1>6, <1>7

(* A thread gives its playout up: the row fails, and the process goes on   *)
(* with the playout until it is done.                                      *)
LEMMA TimeOutKeeps ==
    ASSUME SimsInv, Sims!TimeOut PROVE SimsInv'
<1>1. /\ thread.at # "idle" /\ Sims!Become(thread.row, "timed_out") /\ thread' = Sims!Idle
      /\ UNCHANGED <<board, pending, broken, simRestarts, deaths>>
    BY DEF Sims!TimeOut
<1>2. /\ playouts \in Seq(Sims!Runs) /\ Len(playouts) \in Nat
      /\ \A i, j \in 1..Len(playouts) : playouts[i] = playouts[j] => i = j
    BY PlayoutsAreRows DEF SimsInv, PlayoutsSound
<1>3. /\ playouts' \in Seq(Sims!Runs)
      /\ \A i \in 1..Len(playouts') : \E j \in 1..Len(playouts) : playouts'[i] = playouts[j]
      /\ \A i, j \in 1..Len(playouts') : playouts'[i] = playouts'[j] => i = j
    <2>1. CASE UNCHANGED playouts
        BY <1>2, <2>1
    <2>2. CASE \E k \in 2..Len(playouts) : playouts' = Sims!RemoveAt(playouts, k)
        <3>1. PICK k \in 2..Len(playouts) : playouts' = Sims!RemoveAt(playouts, k)
            BY <2>2
        <3>2. k \in 1..Len(playouts)
            BY <1>2
        <3>3. /\ playouts' \in Seq(Sims!Runs) /\ Len(playouts') = Len(playouts) - 1
              /\ \A i \in 1..Len(playouts') :
                   playouts'[i] = IF i < k THEN playouts[i] ELSE playouts[i + 1]
            BY <1>2, <3>1, <3>2, Removed
        <3>. DEFINE from(i) == IF i < k THEN i ELSE i + 1
        <3>4. ASSUME NEW i \in 1..Len(playouts')
              PROVE  from(i) \in 1..Len(playouts) /\ playouts'[i] = playouts[from(i)]
            BY <1>2, <3>3
        <3>5. ASSUME NEW i \in 1..Len(playouts'), NEW j \in 1..Len(playouts'),
                     playouts'[i] = playouts'[j]
              PROVE  i = j
            <4>1. from(i) = from(j)
                BY <1>2, <3>4, <3>5
            <4>. QED
                BY <1>2, <3>2, <3>3, <4>1
        <3>. QED
            BY <3>3, <3>4, <3>5
    <2>. QED
        BY <2>1, <2>2 DEF Sims!TimeOut
<1>4. /\ pending' \in Seq(Sims!Runs) /\ broken' \in BOOLEAN
      /\ simRestarts' \in 0..MaxSimRestarts /\ deaths' \in 0..MaxDeaths
    BY <1>1 DEF SimsInv, Sims!TypeOK
<1>. QED
    BY <1>1, <1>3, <1>4, RowEnds

(* The process of the pool dies: the playouts it held are gone and their   *)
(* threads find that out.                                                  *)
LEMMA ProcessDiesKeeps ==
    ASSUME SimsInv, Sims!ProcessDies PROVE SimsInv'
<1>1. /\ playouts' = <<>> /\ broken' = TRUE /\ UNCHANGED <<board, pending, simRestarts>>
      /\ deaths' \in 0..MaxDeaths
    BY SimulationsAssumption
       DEF Sims!ProcessDies, SimsInv, Sims!TypeOK, Sims!DraftSimulationsAssumption
<1>2. /\ pending' \in Seq(Sims!Runs) /\ broken' \in BOOLEAN /\ simRestarts' \in 0..MaxSimRestarts
      /\ playouts' \in Seq(Sims!Runs) /\ 1..Len(playouts') = {}
    BY <1>1 DEF SimsInv, Sims!TypeOK
<1>3. CASE thread.at = "waiting"
    BY <1>1, <1>2, <1>3, RowEnds DEF Sims!ProcessDies
<1>4. CASE thread.at # "waiting"
    <2>1. UNCHANGED <<run, thread>>
        BY <1>4 DEF Sims!ProcessDies
    <2>2. PlayoutsSound'
        BY <1>2 DEF PlayoutsSound
    <2>. QED
        BY <1>1, <1>2, <2>1, <2>2
           DEF SimsInv, Sims!TypeOK, Sims!ReadyIsCurrent, ThreadSound
<1>. QED
    BY <1>3, <1>4

(* The thread reads the draft's sequence before it publishes.              *)
LEMMA ReadDraftKeeps ==
    ASSUME SimsInv, Sims!ReadDraft PROVE SimsInv'
<1>. USE DEF SimsInv
<1>1. /\ thread.at = "reading" /\ thread' = [thread EXCEPT !.at = "committing", !.seen = board]
      /\ UNCHANGED <<board, run, pending, playouts, broken, simRestarts, deaths>>
    BY DEF Sims!ReadDraft
<1>2. /\ thread' \in [row : Sims!Runs \cup {0}, seen : 0..MaxBoard,
                      at : {"idle", "submitting", "waiting", "reading", "committing"}]
      /\ thread'.at = "committing" /\ thread'.row = thread.row /\ thread'.seen = board
    BY <1>1, RowsTyped
<1>3. Sims!TypeOK'
    BY <1>1, <1>2 DEF Sims!TypeOK
<1>4. Sims!ReadyIsCurrent' /\ \A r \in Sims!Runs : run'[r].sequence <= board'
    BY <1>1 DEF Sims!ReadyIsCurrent
<1>5. PlayoutsSound' /\ ThreadSound'
    BY <1>1, <1>2 DEF PlayoutsSound, ThreadSound
<1>. QED
    BY <1>3, <1>4, <1>5

(* A result is published if the draft is where the simulation was queued,  *)
(* and is stale otherwise.                                                 *)
LEMMA PublishKeeps ==
    ASSUME SimsInv, Sims!Publish PROVE SimsInv'
<1>. DEFINE r == thread.row
            s == IF thread.seen = run[r].sequence THEN "ready" ELSE "stale"
<1>1. /\ thread.at = "committing" /\ Sims!Become(r, s) /\ thread' = Sims!Idle
      /\ UNCHANGED <<board, pending, playouts, broken, simRestarts, deaths>>
    BY DEF Sims!Publish
<1>2. /\ r \in Sims!Runs /\ run[r].sequence <= run[r].endedAt /\ run[r].endedAt <= thread.seen
    BY <1>1 DEF SimsInv, ThreadSound
<1>3. s = "ready" => run[r].endedAt = run[r].sequence
    <2>1. run[r].sequence \in Int /\ run[r].endedAt \in Int /\ thread.seen \in Int
        BY <1>2, RowsTyped DEF SimsInv
    <2>. QED
        BY <1>2, <2>1
<1>4. \A i \in 1..Len(playouts) : playouts[i] # r
    BY <1>1 DEF SimsInv, PlayoutsSound
<1>5. /\ playouts' \in Seq(Sims!Runs)
      /\ pending' \in Seq(Sims!Runs) /\ broken' \in BOOLEAN
      /\ simRestarts' \in 0..MaxSimRestarts /\ deaths' \in 0..MaxDeaths
    BY <1>1 DEF SimsInv, Sims!TypeOK
<1>6. /\ \A i \in 1..Len(playouts') : \E j \in 1..Len(playouts) : playouts'[i] = playouts[j]
      /\ \A i, j \in 1..Len(playouts') : playouts'[i] = playouts'[j] => i = j
    BY <1>1 DEF SimsInv, PlayoutsSound
<1>7. s \in {"timed_out", "failed", "ready", "stale"}
    OBVIOUS
<1>. HIDE DEF s
<1>. QED
    BY <1>1, <1>3, <1>4, <1>5, <1>6, <1>7, RowEnds

(* A restart loses the threads and playouts and fails the rows that were   *)
(* under way.                                                              *)
LEMMA RestartKeeps ==
    ASSUME SimsInv, Sims!Restart PROVE SimsInv'
<1>. USE DEF SimsInv
<1>1. /\ pending' = <<>> /\ playouts' = <<>> /\ thread' = Sims!Idle /\ broken' = FALSE
      /\ UNCHANGED <<board, deaths>>
      /\ run' = [r \in Sims!Runs |-> IF run[r].status \in Sims!Busy
                                   THEN [run[r] EXCEPT !.status = "interrupted"] ELSE run[r]]
    BY DEF Sims!Restart
<1>2. simRestarts' \in 0..MaxSimRestarts
    BY SimulationsAssumption DEF Sims!Restart, Sims!TypeOK, Sims!DraftSimulationsAssumption
<1>3. /\ run' \in [Sims!Runs -> [status : Sims!Statuses, sequence : 0..MaxBoard,
                               endedAt : -1..MaxBoard]]
      /\ \A q \in Sims!Runs :
           /\ run'[q].sequence = run[q].sequence
           /\ run'[q].endedAt = run[q].endedAt
           /\ run'[q].status \in {run[q].status, "interrupted"}
    <2>1. ASSUME NEW q \in Sims!Runs
          PROVE  /\ run'[q] \in [status : Sims!Statuses, sequence : 0..MaxBoard,
                                endedAt : -1..MaxBoard]
                 /\ run'[q].sequence = run[q].sequence
                 /\ run'[q].endedAt = run[q].endedAt
                 /\ run'[q].status \in {run[q].status, "interrupted"}
        <3>1. run[q] \in [status : Sims!Statuses, sequence : 0..MaxBoard, endedAt : -1..MaxBoard]
            BY RowsTyped
        <3>2. run'[q] = run[q] \/ run'[q] = [run[q] EXCEPT !.status = "interrupted"]
            BY <1>1
        <3>. QED
            BY <3>1, <3>2 DEF Sims!Statuses
    <2>2. run' = [q \in Sims!Runs |-> run'[q]]
        BY <1>1
    <2>. QED
        BY <2>1, <2>2
<1>4. Sims!TypeOK'
    <2>1. broken' \in BOOLEAN
        BY <1>1
    <2>2. pending' \in Seq(Sims!Runs) /\ playouts' \in Seq(Sims!Runs) /\ board' \in 0..MaxBoard
          /\ deaths' \in 0..MaxDeaths
        BY <1>1 DEF Sims!TypeOK
    <2>. QED
        BY <1>1, <1>2, <1>3, <2>1, <2>2, IdleTyped DEF Sims!TypeOK
<1>5. Sims!ReadyIsCurrent' /\ \A q \in Sims!Runs : run'[q].sequence <= board'
    BY <1>1, <1>3 DEF Sims!ReadyIsCurrent
<1>6. PlayoutsSound' /\ ThreadSound'
    BY <1>1, IdleTyped DEF PlayoutsSound, ThreadSound
<1>. QED
    BY <1>4, <1>5, <1>6

(* Every step of the simulations keeps their inductive invariant.          *)
LEMMA SimsKept ==
    ASSUME SimsInv, [Sims!Next]_(Sims!vars)
    PROVE  SimsInv'
<1>1. CASE UNCHANGED Sims!vars
    <2>1. UNCHANGED <<board, run, pending, thread, playouts, broken, simRestarts, deaths>>
        BY <1>1 DEF Sims!vars
    <2>. QED
        BY <2>1 DEF SimsInv, Sims!TypeOK, Sims!ReadyIsCurrent, PlayoutsSound, ThreadSound
<1>. QED
    BY <1>1, DraftEventKeeps, EnqueueKeeps, BeginKeeps, SubmitKeeps, SimulateKeeps, TimeOutKeeps,
       ProcessDiesKeeps, ReadDraftKeeps, PublishKeeps, RestartKeeps
       DEF Sims!Next, Sims!CompleteSimulation

(* A step of the composition is a step of the simulations or leaves them   *)
(* alone.                                                                  *)
LEMMA SimsOnly ==
    ASSUME [Next]_vars PROVE [Sims!Next]_(Sims!vars)
BY DEF Next, vars, CoordinatorStep, SimulationStep, RankingStep, InputStep, simVars, Sims!vars

-----------------------------------------------------------------------------
(* Inputs.                                                                 *)

(* No two datasets of projections have the same content, and there is room *)
(* for all of them.                                                        *)
DatasetsSound ==
    /\ Len(dataset) <= MaxDatasets
    /\ \A m, n \in DOMAIN dataset :
         dataset[m].kind = "projection" /\ dataset[m] = dataset[n] => m = n

(* A handler serves a preview, and what it found is a dataset of it; one   *)
(* that has inserted writes, and its new projections are still new.        *)
HandlersSound ==
    \A t \in Handlers :
        /\ handler[t].at \in {"loaded", "writing", "looked", "inserted"} =>
             handler[t].preview \in Inputs!Previews
        /\ handler[t].at \in {"looked", "inserted"} /\ handler[t].own > 0 =>
             /\ handler[t].own \in DOMAIN dataset
             /\ Inputs!Matches(handler[t].own, handler[t].preview)
        /\ handler[t].at = "looked" => handler[t].own >= 0
        /\ handler[t].at = "inserted" =>
             /\ inputWriter = t /\ handler[t].own # 0
             /\ handler[t].own = -1 => ~Inputs!Conflicting(t) /\ Len(dataset) < MaxDatasets

(* What a preview's commits answered and its result are datasets of it.    *)
AnswersSound ==
    /\ \A p \in 1..MaxPreviews : \A n \in answers[p] :
         p \in Inputs!Previews /\ n \in DOMAIN dataset /\ Inputs!Matches(n, p)
    /\ \A p \in Inputs!Previews :
         /\ preview[p].status = "committed" => preview[p].result # 0
         /\ preview[p].result # 0 =>
              preview[p].result \in DOMAIN dataset /\ Inputs!Matches(preview[p].result, p)

InputsInv == Inputs!TypeOK /\ DatasetsSound /\ HandlersSound /\ AnswersSound

(* Before the first preview there are no rows and no handlers at work.     *)
LEMMA InputsInit == Inputs!Init => InputsInv
<1>. SUFFICES ASSUME Inputs!Init PROVE InputsInv
    OBVIOUS
<1>1. /\ MaxPreviews \in Nat /\ MaxDatasets \in Nat /\ MaxInputCrashes \in Nat
      /\ DOMAIN preview = {} /\ DOMAIN dataset = {} /\ Len(dataset) = 0 /\ Len(preview) = 0
    BY InputsAssumption DEF Inputs!DraftInputsAssumption, Inputs!Init
<1>2. Inputs!Idle \in Inputs!ThreadStates
    BY <1>1 DEF Inputs!Idle, Inputs!ThreadStates, Inputs!Places, Inputs!NoDataset
<1>3. Inputs!TypeOK
    BY <1>1, <1>2 DEF Inputs!Init, Inputs!TypeOK
<1>4. DatasetsSound /\ HandlersSound /\ AnswersSound
    BY <1>1 DEF Inputs!Init, Inputs!Idle, DatasetsSound, HandlersSound, AnswersSound, Inputs!Previews
<1>. QED
    BY <1>3, <1>4 DEF InputsInv

(* Every preview is answered by one dataset of its content at most.        *)
LEMMA CommittedOnce ==
    ASSUME InputsInv PROVE Inputs!ProjectionsCommitOnce
<1>. DEFINE Named(p) == answers[p] \cup ({preview[p].result} \ {Inputs!NoDataset})
<1>1. ASSUME NEW p \in Inputs!Previews, NEW n \in Named(p)
      PROVE  n \in DOMAIN dataset /\ Inputs!Matches(n, p)
    <2>1. p \in 1..MaxPreviews
        BY InputsAssumption
           DEF InputsInv, Inputs!TypeOK, Inputs!Previews, Inputs!DraftInputsAssumption
    <2>. QED
        BY <2>1 DEF InputsInv, AnswersSound, Inputs!NoDataset
<1>2. ASSUME NEW p \in Inputs!Previews, preview[p].kind = "projection",
             NEW m \in Named(p), NEW n \in Named(p)
      PROVE  m = n
    <2>1. dataset \in Seq(Inputs!DatasetRows)
        BY DEF InputsInv, Inputs!TypeOK
    <2>2. /\ m \in DOMAIN dataset /\ n \in DOMAIN dataset
          /\ dataset[m].kind = "projection" /\ dataset[n].kind = "projection"
          /\ dataset[m].content = dataset[n].content
        BY <1>1, <1>2 DEF Inputs!Matches
    <2>3. dataset[m] \in Inputs!DatasetRows /\ dataset[n] \in Inputs!DatasetRows
        BY <2>1, <2>2, ElementOfSeq
    <2>4. dataset[m] = dataset[n]
        BY <2>2, <2>3 DEF Inputs!DatasetRows
    <2>. QED
        BY <2>2, <2>4 DEF InputsInv, DatasetsSound
<1>. QED
    BY <1>1, <1>2 DEF Inputs!ProjectionsCommitOnce

(* What HandlersSound says of one handler, of a state h it may move to.    *)
HandlerFits(h, t, w) ==
    /\ h.at \in {"loaded", "writing", "looked", "inserted"} => h.preview \in Inputs!Previews
    /\ h.at \in {"looked", "inserted"} /\ h.own > 0 =>
         h.own \in DOMAIN dataset /\ Inputs!Matches(h.own, h.preview)
    /\ h.at = "looked" => h.own >= 0
    /\ h.at = "inserted" =>
         /\ w = t /\ h.own # 0
         /\ h.own = -1 =>
              /\ Len(dataset) < MaxDatasets
              /\ ~\E n \in DOMAIN dataset :
                   dataset[n].kind = "projection" /\ Inputs!Matches(n, h.preview)

(* A handler that is idle owes nothing.                                    *)
LEMMA IdleFits ==
    \A t \in Handlers : \A w : HandlerFits(Inputs!Idle, t, w)
BY DEF HandlerFits, Inputs!Idle

(* A step of one handler that reads, reserves the writer or gives up.      *)
LEMMA HandlerMoves ==
    ASSUME InputsInv, NEW t \in Handlers, NEW h \in Inputs!ThreadStates,
           UNCHANGED <<preview, dataset, inputCrashes>>, AnswersSound',
           answers' \in [1..MaxPreviews -> SUBSET (1..MaxDatasets)],
           handler' = [handler EXCEPT ![t] = h],
           inputWriter' \in Handlers \cup {"none"},
           inputWriter \notin {"none", t} => inputWriter' = inputWriter,
           HandlerFits(h, t, inputWriter')
    PROVE  InputsInv'
<1>. USE DEF InputsInv
<1>1. /\ handler \in [Handlers -> Inputs!ThreadStates]
      /\ handler' \in [Handlers -> Inputs!ThreadStates] /\ handler'[t] = h
      /\ \A u \in Handlers \ {t} : handler'[u] = handler[u]
    BY DEF Inputs!TypeOK
<1>2. Inputs!TypeOK'
    BY <1>1 DEF Inputs!TypeOK
<1>3. DatasetsSound'
    BY DEF DatasetsSound
<1>4. HandlersSound'
    <2>1. ASSUME NEW u \in Handlers
          PROVE  /\ handler'[u].at \in {"loaded", "writing", "looked", "inserted"} =>
                        handler'[u].preview \in Inputs!Previews'
                 /\ handler'[u].at \in {"looked", "inserted"} /\ handler'[u].own > 0 =>
                        /\ handler'[u].own \in DOMAIN dataset'
                        /\ Inputs!Matches(handler[u].own, handler[u].preview)'
                 /\ handler'[u].at = "looked" => handler'[u].own >= 0
                 /\ handler'[u].at = "inserted" =>
                        /\ inputWriter' = u /\ handler'[u].own # 0
                        /\ handler'[u].own = -1 =>
                             ~Inputs!Conflicting(u)' /\ Len(dataset') < MaxDatasets
        <3>1. CASE u = t
            BY <1>1, <3>1 DEF HandlerFits, Inputs!Matches, Inputs!Previews, Inputs!Conflicting
        <3>2. CASE u # t
            <4>1. u # "none"
                BY InputsAssumption DEF Inputs!DraftInputsAssumption
            <4>. QED
                BY <1>1, <3>2, <4>1
                   DEF HandlersSound, Inputs!Matches, Inputs!Previews, Inputs!Conflicting
        <3>. QED
            BY <3>1, <3>2
    <2>. QED
        BY <2>1 DEF HandlersSound
<1>. QED
    BY <1>2, <1>3, <1>4

(* A preview answered for keeps its answer while previews and datasets     *)
(* stay.                                                                   *)
LEMMA AnswersUntouched ==
    ASSUME InputsInv, UNCHANGED <<preview, dataset, answers>>
    PROVE  AnswersSound' /\ answers' \in [1..MaxPreviews -> SUBSET (1..MaxDatasets)]
BY DEF InputsInv, Inputs!TypeOK, AnswersSound, Inputs!Previews, Inputs!Matches

(* The handlers have their types.                                          *)
LEMMA HandlersTyped ==
    ASSUME InputsInv
    PROVE  /\ inputWriter \in Handlers \cup {"none"} /\ "none" \notin Handlers
           /\ \A t \in Handlers : handler[t] \in Inputs!ThreadStates
           /\ Inputs!Idle \in Inputs!ThreadStates /\ Inputs!Idle.at = "idle"
           /\ Len(preview) \in Nat /\ DOMAIN preview = 1..Len(preview)
           /\ Len(dataset) \in Nat /\ DOMAIN dataset = 1..Len(dataset)
           /\ MaxPreviews \in Nat /\ MaxDatasets \in Nat /\ Len(preview) <= MaxPreviews
<1>1. MaxPreviews \in Nat /\ MaxDatasets \in Nat
    BY InputsAssumption DEF Inputs!DraftInputsAssumption
<1>2. Inputs!Idle \in Inputs!ThreadStates /\ Inputs!Idle.at = "idle"
    BY <1>1 DEF Inputs!Idle, Inputs!ThreadStates, Inputs!Places, Inputs!NoDataset
<1>. QED
    BY <1>1, <1>2, InputsAssumption
       DEF InputsInv, Inputs!TypeOK, Inputs!DraftInputsAssumption

(* A handler selects the outdated previews it will mark.                   *)
LEMMA LoadStagedKeeps ==
    ASSUME InputsInv, NEW t \in Handlers, Inputs!LoadStaged(t) PROVE InputsInv'
<1>. DEFINE h == [handler[t] EXCEPT !.at = "expiring", !.seen = Inputs!Outdated]
<1>1. /\ handler' = [handler EXCEPT ![t] = h]
      /\ UNCHANGED <<preview, dataset, inputWriter, answers, inputCrashes>>
    BY DEF Inputs!LoadStaged
<1>2. Inputs!Outdated \subseteq 1..MaxPreviews
    <2>1. DOMAIN preview \subseteq 1..MaxPreviews
        BY HandlersTyped
    <2>2. Inputs!Outdated \subseteq DOMAIN preview
        BY DEF Inputs!Outdated, Inputs!Staged, Inputs!Previews
    <2>. QED
        BY <2>1, <2>2
<1>3. h \in Inputs!ThreadStates /\ h.at = "expiring"
    BY <1>2, HandlersTyped DEF Inputs!ThreadStates, Inputs!Places
<1>. HIDE DEF h
<1>4. HandlerFits(h, t, inputWriter)
    BY <1>3 DEF HandlerFits
<1>. QED
    BY <1>1, <1>3, <1>4, AnswersUntouched, HandlersTyped, HandlerMoves

(* Athletes may be made, which begins the transaction.                     *)
LEMMA EnsureAthletesKeeps ==
    ASSUME InputsInv, NEW t \in Handlers, Inputs!EnsureAthletes(t) PROVE InputsInv'
<1>. DEFINE h == [handler[t] EXCEPT !.at = "writing"]
<1>1. /\ handler[t].at = "loaded" /\ handler' = [handler EXCEPT ![t] = h]
      /\ UNCHANGED <<preview, dataset, answers, inputCrashes>>
      /\ inputWriter' = inputWriter \/ (inputWriter \in {"none", t} /\ inputWriter' = t)
    BY HandlersTyped
       DEF Inputs!EnsureAthletes, Inputs!At, Inputs!MoveTo, Inputs!MayWrite, InputsInv,
           Inputs!TypeOK
<1>2. h \in Inputs!ThreadStates /\ h.at = "writing" /\ h.preview \in Inputs!Previews
    BY <1>1, HandlersTyped DEF Inputs!ThreadStates, Inputs!Places, InputsInv, HandlersSound
<1>. HIDE DEF h
<1>3. HandlerFits(h, t, inputWriter')
    BY <1>2 DEF HandlerFits
<1>. QED
    BY <1>1, <1>2, <1>3, AnswersUntouched, HandlersTyped, HandlerMoves

(* The dataset of a preview's kind and content is looked up inside the     *)
(* commit.                                                                 *)
LEMMA LookUpKeeps ==
    ASSUME InputsInv, NEW t \in Handlers, Inputs!LookUpDataset(t) PROVE InputsInv'
<1>. DEFINE found == {n \in DOMAIN dataset : Inputs!Matches(n, handler[t].preview)}
            own   == IF found = {} THEN Inputs!NoDataset ELSE CHOOSE n \in found : TRUE
            h     == [handler[t] EXCEPT !.at = "looked", !.own = own]
<1>1. /\ handler[t].at = "writing" /\ handler' = [handler EXCEPT ![t] = h]
      /\ UNCHANGED <<preview, dataset, inputWriter, answers, inputCrashes>>
    BY HandlersTyped DEF Inputs!LookUpDataset, Inputs!At, InputsInv, Inputs!TypeOK
<1>2. own = 0 \/ (own \in DOMAIN dataset /\ Inputs!Matches(own, handler[t].preview))
    BY DEF Inputs!NoDataset
<1>. HIDE DEF own
<1>3. own \in -1..MaxDatasets /\ own >= 0
    BY <1>2, HandlersTyped DEF InputsInv, DatasetsSound
<1>4. /\ h \in Inputs!ThreadStates /\ h.at = "looked" /\ h.own = own
      /\ h.preview = handler[t].preview
    BY <1>3, HandlersTyped DEF Inputs!ThreadStates, Inputs!Places
<1>. HIDE DEF h
<1>5. HandlerFits(h, t, inputWriter)
    <2>1. h.preview \in Inputs!Previews
        BY <1>1, <1>4 DEF InputsInv, HandlersSound
    <2>2. h.own > 0 => h.own \in DOMAIN dataset /\ Inputs!Matches(h.own, h.preview)
        BY <1>2, <1>4
    <2>. QED
        BY <1>3, <1>4, <2>1, <2>2 DEF HandlerFits
<1>. QED
    BY <1>1, <1>4, <1>5, AnswersUntouched, HandlersTyped, HandlerMoves

(* The insert takes the write lock; for projections there is one dataset   *)
(* of a kind and content.                                                  *)
LEMMA InsertKeeps ==
    ASSUME InputsInv, NEW t \in Handlers, Inputs!InsertDataset(t) PROVE InputsInv'
<1>1. /\ handler[t].at = "looked" /\ inputWriter \in {"none", t}
      /\ UNCHANGED <<preview, dataset, answers, inputCrashes>>
    BY DEF Inputs!InsertDataset, Inputs!At, Inputs!MayWrite
<1>2. /\ handler[t].preview \in Inputs!Previews
      /\ handler[t].own > 0 =>
           /\ handler[t].own \in DOMAIN dataset
           /\ Inputs!Matches(handler[t].own, handler[t].preview)
      /\ handler[t].own >= 0 /\ handler[t].own \in Int
    BY <1>1, HandlersTyped DEF InputsInv, HandlersSound, Inputs!ThreadStates
<1>3. CASE /\ handler[t].own # Inputs!NoDataset
           /\ inputWriter' = t /\ Inputs!MoveTo(t, "inserted")
    <2>. DEFINE h == [handler[t] EXCEPT !.at = "inserted"]
    <2>1. handler' = [handler EXCEPT ![t] = h]
        BY <1>3, HandlersTyped DEF Inputs!MoveTo, InputsInv, Inputs!TypeOK
    <2>2. /\ h \in Inputs!ThreadStates /\ h.at = "inserted" /\ h.own = handler[t].own
          /\ h.preview = handler[t].preview
        BY HandlersTyped DEF Inputs!ThreadStates, Inputs!Places
    <2>. HIDE DEF h
    <2>3. HandlerFits(h, t, inputWriter')
        BY <1>2, <1>3, <2>2 DEF HandlerFits, Inputs!NoDataset
    <2>. QED
        BY <1>1, <1>3, <2>1, <2>2, <2>3, AnswersUntouched, HandlersTyped, HandlerMoves
<1>4. CASE /\ handler[t].own = Inputs!NoDataset /\ ~Inputs!Conflicting(t)
           /\ Len(dataset) < MaxDatasets /\ inputWriter' = t
           /\ handler' = [handler EXCEPT ![t].at = "inserted", ![t].own = -1]
    <2>. DEFINE h == [[handler[t] EXCEPT !.at = "inserted"] EXCEPT !.own = -1]
    <2>1. handler' = [handler EXCEPT ![t] = h]
        BY <1>4, HandlersTyped DEF InputsInv, Inputs!TypeOK
    <2>2. /\ h \in Inputs!ThreadStates /\ h.at = "inserted" /\ h.own = -1
          /\ h.preview = handler[t].preview
        <3>1. -1 \in -1..MaxDatasets /\ "inserted" \in Inputs!Places
            BY HandlersTyped DEF Inputs!Places
        <3>2. handler[t] \in Inputs!ThreadStates
            BY HandlersTyped
        <3>. QED
            BY <3>1, <3>2 DEF Inputs!ThreadStates
    <2>. HIDE DEF h
    <2>3. ~\E n \in DOMAIN dataset :
             dataset[n].kind = "projection" /\ Inputs!Matches(n, h.preview)
        BY <1>4, <2>2 DEF Inputs!Conflicting
    <2>4. HandlerFits(h, t, inputWriter')
        BY <1>2, <1>4, <2>2, <2>3 DEF HandlerFits
    <2>. QED
        BY <1>1, <1>4, <2>1, <2>2, <2>4, AnswersUntouched, HandlersTyped, HandlerMoves
<1>5. CASE inputWriter' = "none" /\ Inputs!End(t)
    BY <1>1, <1>5, AnswersUntouched, HandlersTyped, IdleFits, HandlerMoves DEF Inputs!End
<1>. QED
    BY <1>3, <1>4, <1>5 DEF Inputs!InsertDataset

(* A handler that waited too long for the writer gives up and writes       *)
(* nothing.                                                                *)
LEMMA TimeoutKeeps ==
    ASSUME InputsInv, NEW t \in Handlers, Inputs!BusyTimeout(t) PROVE InputsInv'
<1>1. /\ handler' = [handler EXCEPT ![t] = Inputs!Idle]
      /\ UNCHANGED <<preview, dataset, inputWriter, answers, inputCrashes>>
    BY DEF Inputs!BusyTimeout, Inputs!End
<1>. QED
    BY <1>1, AnswersUntouched, HandlersTyped, IdleFits, HandlerMoves

(* Previews are added and their marks change, but a preview keeps its kind, *)
(* its content and its result; handlers stay as they are or give up.        *)
LEMMA PreviewsMove ==
    ASSUME InputsInv, UNCHANGED <<dataset, answers>>,
           inputWriter' \in Handlers \cup {"none"}, inputCrashes' \in 0..MaxInputCrashes,
           handler' \in [Handlers -> Inputs!ThreadStates],
           \A t \in Handlers : handler'[t] = handler[t] \/ handler'[t] = Inputs!Idle,
           \A t \in Handlers : handler'[t].at = "inserted" => inputWriter' = inputWriter,
           preview' \in Seq(Inputs!PreviewRows), Len(preview') <= MaxPreviews,
           Len(preview) <= Len(preview'),
           \A p \in 1..Len(preview) :
              /\ preview'[p].kind = preview[p].kind
              /\ preview'[p].content = preview[p].content
              /\ preview'[p].result = preview[p].result
              /\ preview'[p].status = "committed" => preview[p].status = "committed",
           \A p \in 1..Len(preview') : p > Len(preview) =>
              preview'[p].result = 0 /\ preview'[p].status # "committed"
    PROVE  InputsInv'
<1>1. /\ Inputs!Previews = 1..Len(preview) /\ Inputs!Previews' = 1..Len(preview')
      /\ Inputs!Previews \subseteq Inputs!Previews'
    BY HandlersTyped DEF Inputs!Previews
<1>2. ASSUME NEW n \in DOMAIN dataset, NEW p \in Inputs!Previews
      PROVE  Inputs!Matches(n, p)' <=> Inputs!Matches(n, p)
    BY <1>1, <1>2 DEF Inputs!Matches
<1>3. Inputs!TypeOK'
    BY DEF InputsInv, Inputs!TypeOK
<1>4. DatasetsSound'
    BY DEF InputsInv, DatasetsSound
<1>5. HandlersSound'
    <2>1. ASSUME NEW t \in Handlers, handler'[t] = handler[t]
          PROVE  /\ handler'[t].at \in {"loaded", "writing", "looked", "inserted"} =>
                        handler'[t].preview \in Inputs!Previews'
                 /\ handler'[t].at \in {"looked", "inserted"} /\ handler'[t].own > 0 =>
                        /\ handler'[t].own \in DOMAIN dataset'
                        /\ Inputs!Matches(handler[t].own, handler[t].preview)'
                 /\ handler'[t].at = "looked" => handler'[t].own >= 0
                 /\ handler'[t].at = "inserted" =>
                        /\ inputWriter' = t /\ handler'[t].own # 0
                        /\ handler'[t].own = -1 =>
                             ~Inputs!Conflicting(t)' /\ Len(dataset') < MaxDatasets
        <3>1. handler[t].at \in {"loaded", "writing", "looked", "inserted"} =>
                 handler[t].preview \in Inputs!Previews
            BY DEF InputsInv, HandlersSound
        <3>2. handler[t].at = "inserted" =>
                 (Inputs!Conflicting(t)' <=> Inputs!Conflicting(t))
            BY <2>1, <3>1, <1>2 DEF Inputs!Conflicting
        <3>3. handler[t].at \in {"looked", "inserted"} /\ handler[t].own > 0 =>
                 /\ handler[t].own \in DOMAIN dataset
                 /\ Inputs!Matches(handler[t].own, handler[t].preview)'
            BY <2>1, <3>1, <1>2 DEF InputsInv, HandlersSound
        <3>4. handler'[t].at = "inserted" => inputWriter' = inputWriter
            OBVIOUS
        <3>. QED
            BY <1>1, <2>1, <3>1, <3>2, <3>3, <3>4 DEF InputsInv, HandlersSound
    <2>2. \A t \in Handlers : handler'[t] = Inputs!Idle => handler'[t].at = "idle"
        BY DEF Inputs!Idle
    <2>. QED
        BY <2>1, <2>2 DEF HandlersSound
<1>6. AnswersSound'
    <2>1. ASSUME NEW p \in 1..MaxPreviews, NEW n \in answers'[p]
          PROVE  /\ p \in Inputs!Previews' /\ n \in DOMAIN dataset'
                 /\ Inputs!Matches(n, p)'
        <3>1. p \in Inputs!Previews /\ n \in DOMAIN dataset /\ Inputs!Matches(n, p)
            BY DEF InputsInv, AnswersSound
        <3>. QED
            BY <1>1, <1>2, <3>1
    <2>2. ASSUME NEW p \in Inputs!Previews'
          PROVE  /\ preview'[p].status = "committed" => preview'[p].result # 0
                 /\ preview'[p].result # 0 =>
                      /\ preview'[p].result \in DOMAIN dataset'
                      /\ Inputs!Matches(preview[p].result, p)'
        <3>1. CASE p \in Inputs!Previews
            BY <1>1, <1>2, <3>1 DEF InputsInv, AnswersSound
        <3>2. CASE p \notin Inputs!Previews
            BY <1>1, <3>2, HandlersTyped
        <3>. QED
            BY <3>1, <3>2
    <2>. QED
        BY <2>1, <2>2 DEF AnswersSound
<1>. QED
    BY <1>3, <1>4, <1>5, <1>6 DEF InputsInv

(* Marking one preview keeps its row a row.                                *)
LEMMA Marked ==
    ASSUME InputsInv, NEW p \in Inputs!Previews
    PROVE  LET aged    == [preview EXCEPT ![p].old = TRUE]
               expired == [preview EXCEPT ![p].status = "expired"]
           IN  /\ aged \in Seq(Inputs!PreviewRows) /\ Len(aged) = Len(preview)
               /\ expired \in Seq(Inputs!PreviewRows) /\ Len(expired) = Len(preview)
               /\ \A q \in 1..Len(preview) :
                    /\ aged[q].kind = preview[q].kind /\ aged[q].content = preview[q].content
                    /\ aged[q].result = preview[q].result
                    /\ aged[q].status = preview[q].status
                    /\ expired[q].kind = preview[q].kind
                    /\ expired[q].content = preview[q].content
                    /\ expired[q].result = preview[q].result
                    /\ expired[q].status = "committed" => preview[q].status = "committed"
<1>. DEFINE a == [preview[p] EXCEPT !.old = TRUE]
            e == [preview[p] EXCEPT !.status = "expired"]
<1>1. preview \in Seq(Inputs!PreviewRows) /\ p \in 1..Len(preview)
    BY HandlersTyped DEF InputsInv, Inputs!TypeOK, Inputs!Previews
<1>2. preview[p] \in Inputs!PreviewRows
    BY <1>1, ElementOfSeq
<1>3. /\ a \in Inputs!PreviewRows /\ a.kind = preview[p].kind /\ a.status = preview[p].status
      /\ a.content = preview[p].content /\ a.result = preview[p].result
    BY <1>2 DEF Inputs!PreviewRows
<1>4. /\ e \in Inputs!PreviewRows /\ e.kind = preview[p].kind /\ e.status = "expired"
      /\ e.content = preview[p].content /\ e.result = preview[p].result
    BY <1>2 DEF Inputs!PreviewRows
<1>. HIDE DEF a, e
<1>5. /\ [preview EXCEPT ![p] = a] \in Seq(Inputs!PreviewRows)
      /\ Len([preview EXCEPT ![p] = a]) = Len(preview)
      /\ [preview EXCEPT ![p] = e] \in Seq(Inputs!PreviewRows)
      /\ Len([preview EXCEPT ![p] = e]) = Len(preview)
    BY <1>1, <1>3, <1>4, ExceptSeq
<1>6. \A q \in 1..Len(preview) :
         /\ [preview EXCEPT ![p] = a][q] = IF q = p THEN a ELSE preview[q]
         /\ [preview EXCEPT ![p] = e][q] = IF q = p THEN e ELSE preview[q]
    BY <1>1
<1>7. /\ [preview EXCEPT ![p] = a] = [preview EXCEPT ![p].old = TRUE]
      /\ [preview EXCEPT ![p] = e] = [preview EXCEPT ![p].status = "expired"]
    BY DEF a, e
<1>. QED
    BY <1>3, <1>4, <1>5, <1>6, <1>7

(* The hour of a preview is over.                                          *)
LEMMA AgeKeeps ==
    ASSUME InputsInv, NEW p \in Inputs!Previews, Inputs!Age(p) PROVE InputsInv'
<1>1. /\ preview' = [preview EXCEPT ![p].old = TRUE]
      /\ UNCHANGED <<dataset, inputWriter, handler, answers, inputCrashes>>
    BY DEF Inputs!Age
<1>2. /\ preview' \in Seq(Inputs!PreviewRows) /\ Len(preview') = Len(preview)
      /\ \A q \in 1..Len(preview) :
           /\ preview'[q].kind = preview[q].kind /\ preview'[q].content = preview[q].content
           /\ preview'[q].result = preview[q].result
           /\ preview'[q].status = preview[q].status
    BY <1>1, Marked
<1>3. handler \in [Handlers -> Inputs!ThreadStates] /\ inputCrashes \in 0..MaxInputCrashes
    BY DEF InputsInv, Inputs!TypeOK
<1>. QED
    BY <1>1, <1>2, <1>3, HandlersTyped, PreviewsMove

(* A commit of a preview is answered with the result it already has.       *)
LEMMA AnswerKeeps ==
    ASSUME InputsInv, NEW p \in Inputs!Previews, preview[p].status = "committed",
           answers' = [answers EXCEPT ![p] = @ \cup {preview[p].result}],
           UNCHANGED <<preview, dataset, inputWriter, handler, inputCrashes>>
    PROVE  InputsInv'
<1>1. /\ preview[p].result \in DOMAIN dataset /\ Inputs!Matches(preview[p].result, p)
      /\ DOMAIN dataset \subseteq 1..MaxDatasets /\ p \in 1..MaxPreviews
    <2>1. preview[p].result # 0
        BY DEF InputsInv, AnswersSound
    <2>. QED
        BY <2>1, HandlersTyped DEF InputsInv, AnswersSound, DatasetsSound, Inputs!Previews
<1>2. /\ answers \in [1..MaxPreviews -> SUBSET (1..MaxDatasets)]
      /\ answers' \in [1..MaxPreviews -> SUBSET (1..MaxDatasets)]
      /\ \A q \in 1..MaxPreviews :
           answers'[q] = IF q = p THEN answers[p] \cup {preview[p].result} ELSE answers[q]
    BY <1>1 DEF InputsInv, Inputs!TypeOK
<1>3. Inputs!TypeOK'
    BY <1>2 DEF InputsInv, Inputs!TypeOK
<1>4. DatasetsSound' /\ HandlersSound'
    BY DEF InputsInv, DatasetsSound, HandlersSound, Inputs!Previews, Inputs!Matches,
           Inputs!Conflicting
<1>5. AnswersSound'
    <2>1. ASSUME NEW q \in 1..MaxPreviews, NEW n \in answers'[q]
          PROVE  q \in Inputs!Previews /\ n \in DOMAIN dataset /\ Inputs!Matches(n, q)
        <3>1. CASE q = p /\ n = preview[p].result
            BY <1>1, <3>1
        <3>2. CASE n \in answers[q]
            BY <3>2 DEF InputsInv, AnswersSound
        <3>. QED
            BY <1>2, <3>1, <3>2
    <2>. QED
        BY <2>1 DEF InputsInv, AnswersSound, Inputs!Previews, Inputs!Matches
<1>. QED
    BY <1>3, <1>4, <1>5 DEF InputsInv

(* A commit loads its preview: it answers for a committed one, expires an  *)
(* old one, or goes on.                                                    *)
LEMMA LoadPreviewKeeps ==
    ASSUME InputsInv, NEW t \in Handlers, Inputs!LoadPreview(t) PROVE InputsInv'
<1>1. UNCHANGED <<dataset, inputWriter, inputCrashes>> /\ handler[t].at = "idle"
    BY DEF Inputs!LoadPreview, Inputs!At
<1>2. PICK p \in Inputs!Previews :
         \/ /\ preview[p].status = "committed"
            /\ answers' = [answers EXCEPT ![p] = @ \cup {preview[p].result}]
            /\ UNCHANGED <<preview, handler>>
         \/ /\ preview' = [preview EXCEPT ![p].status = "expired"]
            /\ UNCHANGED <<handler, answers>>
         \/ /\ handler' = [handler EXCEPT ![t].at = "loaded", ![t].preview = p]
            /\ UNCHANGED <<preview, answers>>
    BY DEF Inputs!LoadPreview
<1>3. CASE /\ preview[p].status = "committed"
           /\ answers' = [answers EXCEPT ![p] = @ \cup {preview[p].result}]
           /\ UNCHANGED <<preview, handler>>
    BY <1>1, <1>3, AnswerKeeps
<1>4. CASE /\ preview' = [preview EXCEPT ![p].status = "expired"]
           /\ UNCHANGED <<handler, answers>>
    <2>1. /\ preview' \in Seq(Inputs!PreviewRows) /\ Len(preview') = Len(preview)
          /\ \A q \in 1..Len(preview) :
               /\ preview'[q].kind = preview[q].kind /\ preview'[q].content = preview[q].content
               /\ preview'[q].result = preview[q].result
               /\ preview'[q].status = "committed" => preview[q].status = "committed"
        BY <1>4, Marked
    <2>2. handler \in [Handlers -> Inputs!ThreadStates] /\ inputCrashes \in 0..MaxInputCrashes
        BY DEF InputsInv, Inputs!TypeOK
    <2>. QED
        BY <1>1, <1>4, <2>1, <2>2, HandlersTyped, PreviewsMove
<1>5. CASE /\ handler' = [handler EXCEPT ![t].at = "loaded", ![t].preview = p]
           /\ UNCHANGED <<preview, answers>>
    <2>. DEFINE h == [[handler[t] EXCEPT !.at = "loaded"] EXCEPT !.preview = p]
    <2>1. handler' = [handler EXCEPT ![t] = h]
        BY <1>5, HandlersTyped DEF InputsInv, Inputs!TypeOK
    <2>2. /\ h \in Inputs!ThreadStates /\ h.at = "loaded" /\ h.preview = p
        <3>1. p \in 0..MaxPreviews /\ "loaded" \in Inputs!Places
            BY HandlersTyped DEF Inputs!Places, Inputs!Previews
        <3>2. handler[t] \in Inputs!ThreadStates
            BY HandlersTyped
        <3>. QED
            BY <3>1, <3>2 DEF Inputs!ThreadStates
    <2>. HIDE DEF h
    <2>3. HandlerFits(h, t, inputWriter)
        BY <2>2 DEF HandlerFits
    <2>. QED
        BY <1>1, <1>5, <2>1, <2>2, <2>3, AnswersUntouched, HandlersTyped, HandlerMoves
<1>. QED
    BY <1>2, <1>3, <1>4, <1>5

(* A new preview is staged with the marks on the outdated ones.            *)
LEMMA StagePreviewKeeps ==
    ASSUME InputsInv, NEW t \in Handlers, Inputs!StagePreview(t) PROVE InputsInv'
<1>. DEFINE Was(p) == IF p \in handler[t].seen
                      THEN [preview[p] EXCEPT !.status = "expired"] ELSE preview[p]
            was == [p \in Inputs!Previews |-> Was(p)]
<1>1. /\ UNCHANGED <<dataset, inputWriter, answers, inputCrashes>>
      /\ handler[t].at = "expiring" /\ Len(preview) < MaxPreviews
      /\ handler' = [handler EXCEPT ![t] = Inputs!Idle]
    BY DEF Inputs!StagePreview, Inputs!At, Inputs!End
<1>2. PICK k \in Inputs!Kinds, c \in Contents, b \in BOOLEAN :
         preview' = Append(was, [kind |-> k, content |-> c, old |-> FALSE, blocked |-> b,
                                 status |-> "staged", result |-> 0])
    BY DEF Inputs!StagePreview, Inputs!NoDataset
<1>. DEFINE row == [kind |-> k, content |-> c, old |-> FALSE, blocked |-> b,
                    status |-> "staged", result |-> 0]
<1>3. row \in Inputs!PreviewRows /\ row.status = "staged" /\ row.result = 0
    BY HandlersTyped DEF Inputs!PreviewRows
<1>4. /\ preview \in Seq(Inputs!PreviewRows) /\ Inputs!Previews = 1..Len(preview)
    BY HandlersTyped DEF InputsInv, Inputs!TypeOK, Inputs!Previews
<1>5. ASSUME NEW p \in Inputs!Previews
      PROVE  /\ Was(p) \in Inputs!PreviewRows
             /\ Was(p).kind = preview[p].kind /\ Was(p).content = preview[p].content
             /\ Was(p).result = preview[p].result
             /\ Was(p).status = "committed" => preview[p].status = "committed"
    <2>1. preview[p] \in Inputs!PreviewRows
        BY <1>4, ElementOfSeq
    <2>2. CASE p \in handler[t].seen
        <3>. DEFINE e == [preview[p] EXCEPT !.status = "expired"]
        <3>1. /\ e \in Inputs!PreviewRows /\ e.kind = preview[p].kind
              /\ e.content = preview[p].content /\ e.result = preview[p].result
              /\ e.status = "expired"
            BY <2>1 DEF Inputs!PreviewRows
        <3>. QED
            BY <2>2, <3>1
    <2>3. CASE p \notin handler[t].seen
        BY <2>1, <2>3
    <2>. QED
        BY <2>2, <2>3
<1>. HIDE DEF Was, row
<1>6. was \in Seq(Inputs!PreviewRows) /\ Len(was) = Len(preview)
    BY <1>4, <1>5, HandlersTyped
<1>7. /\ preview' \in Seq(Inputs!PreviewRows) /\ Len(preview') = Len(preview) + 1
      /\ preview'[Len(preview) + 1] = row
      /\ \A p \in 1..Len(preview) : preview'[p] = Was(p)
    <2>1. preview' = Append(was, row)
        BY <1>2 DEF row
    <2>2. \A p \in 1..Len(preview) : was[p] = Was(p)
        BY <1>4
    <2>. HIDE DEF was
    <2>. QED
        BY <2>1, <2>2, <1>3, <1>6, AppendProperties
<1>8. /\ handler' \in [Handlers -> Inputs!ThreadStates]
      /\ \A u \in Handlers : handler'[u] = handler[u] \/ handler'[u] = Inputs!Idle
      /\ inputCrashes \in 0..MaxInputCrashes
    BY <1>1, HandlersTyped DEF InputsInv, Inputs!TypeOK
<1>9. Len(preview) \in Nat /\ MaxPreviews \in Nat
    BY HandlersTyped
<1>10. \A p \in 1..Len(preview) :
         /\ preview'[p].kind = preview[p].kind /\ preview'[p].content = preview[p].content
         /\ preview'[p].result = preview[p].result
         /\ preview'[p].status = "committed" => preview[p].status = "committed"
    BY <1>4, <1>5, <1>7
<1>11. \A p \in 1..Len(preview') : p > Len(preview) =>
          preview'[p].result = 0 /\ preview'[p].status # "committed"
    BY <1>3, <1>7, <1>9
<1>. QED
    BY <1>1, <1>7, <1>8, <1>9, <1>10, <1>11, HandlersTyped, PreviewsMove

(* A crash ends the handlers and leaves what was committed.                *)
LEMMA InputsCrashKeeps ==
    ASSUME InputsInv, Inputs!Crash PROVE InputsInv'
<1>1. /\ UNCHANGED <<preview, dataset, answers>> /\ inputWriter' = "none"
      /\ handler' = [u \in Handlers |-> Inputs!Idle]
      /\ inputCrashes < MaxInputCrashes /\ inputCrashes' = inputCrashes + 1
    BY DEF Inputs!Crash
<1>2. /\ handler' \in [Handlers -> Inputs!ThreadStates]
      /\ \A u \in Handlers : handler'[u] = Inputs!Idle /\ handler'[u].at # "inserted"
    BY <1>1, HandlersTyped DEF Inputs!Idle
<1>3. inputCrashes' \in 0..MaxInputCrashes
    BY <1>1, InputsAssumption DEF InputsInv, Inputs!TypeOK, Inputs!DraftInputsAssumption
<1>4. preview \in Seq(Inputs!PreviewRows)
    BY DEF InputsInv, Inputs!TypeOK
<1>. QED
    BY <1>1, <1>2, <1>3, <1>4, HandlersTyped, PreviewsMove

(* What a commit stores: the dataset it inserted, which no dataset of      *)
(* projections equals, or nothing.                                         *)
LEMMA Stored ==
    ASSUME InputsInv, NEW t \in Handlers, Inputs!CommitInput(t)
    PROVE  LET p      == handler[t].preview
               result == IF handler[t].own = -1 THEN Len(dataset) + 1 ELSE handler[t].own
           IN  /\ inputWriter = t /\ p \in Inputs!Previews
               /\ dataset' \in Seq(Inputs!DatasetRows) /\ Len(dataset') <= MaxDatasets
               /\ Len(dataset) <= Len(dataset')
               /\ \A n \in DOMAIN dataset : dataset'[n] = dataset[n]
               /\ result \in 1..Len(dataset')
               /\ dataset'[result].kind = preview[p].kind
               /\ dataset'[result].content = preview[p].content
               /\ DatasetsSound'
<1>. DEFINE p == handler[t].preview
            d == [kind |-> preview[p].kind, content |-> preview[p].content]
<1>1. /\ handler[t].at = "inserted"
      /\ dataset' = IF handler[t].own = -1 THEN Append(dataset, d) ELSE dataset
    BY DEF Inputs!CommitInput, Inputs!At, Inputs!Of
<1>2. /\ p \in Inputs!Previews /\ inputWriter = t /\ handler[t].own # 0
      /\ handler[t].own > 0 => handler[t].own \in DOMAIN dataset /\ Inputs!Matches(handler[t].own, p)
      /\ handler[t].own = -1 => ~Inputs!Conflicting(t) /\ Len(dataset) < MaxDatasets
    BY <1>1 DEF InputsInv, HandlersSound
<1>3. handler[t].own \in -1..MaxDatasets
    BY HandlersTyped DEF Inputs!ThreadStates
<1>4. dataset \in Seq(Inputs!DatasetRows) /\ preview \in Seq(Inputs!PreviewRows)
    BY DEF InputsInv, Inputs!TypeOK
<1>5. d \in Inputs!DatasetRows
    <2>1. preview[p] \in Inputs!PreviewRows
        BY <1>2, <1>4, HandlersTyped, ElementOfSeq DEF Inputs!Previews
    <2>. QED
        BY <2>1 DEF Inputs!PreviewRows, Inputs!DatasetRows
<1>6. d.kind = preview[p].kind /\ d.content = preview[p].content
    OBVIOUS
<1>. HIDE DEF d
<1>7. CASE handler[t].own = -1
    <2>1. /\ dataset' \in Seq(Inputs!DatasetRows) /\ Len(dataset') = Len(dataset) + 1
          /\ \A n \in 1..Len(dataset) : dataset'[n] = dataset[n]
          /\ dataset'[Len(dataset) + 1] = d
        BY <1>1, <1>4, <1>5, <1>7, AppendProperties
    <2>2. DOMAIN dataset' = 1..Len(dataset')
        BY <2>1, LenProperties
    <2>3. ASSUME NEW n \in DOMAIN dataset, dataset[n] = d, d.kind = "projection"
          PROVE  FALSE
        BY <1>2, <1>6, <1>7, <2>3 DEF Inputs!Conflicting, Inputs!Matches
    <2>4. ASSUME NEW m \in DOMAIN dataset', NEW n \in DOMAIN dataset',
                 dataset'[m].kind = "projection", dataset'[m] = dataset'[n]
          PROVE  m = n
        <3>1. CASE m \in DOMAIN dataset /\ n \in DOMAIN dataset
            BY <2>1, <2>4, <3>1, HandlersTyped DEF InputsInv, DatasetsSound
        <3>2. CASE m \in DOMAIN dataset /\ n = Len(dataset) + 1
            BY <2>1, <2>3, <2>4, <3>2, HandlersTyped
        <3>3. CASE m = Len(dataset) + 1 /\ n \in DOMAIN dataset
            BY <2>1, <2>3, <2>4, <3>3, HandlersTyped
        <3>4. \A i \in DOMAIN dataset' : i \in DOMAIN dataset \/ i = Len(dataset) + 1
            BY <2>1, <2>2, HandlersTyped
        <3>. QED
            BY <3>1, <3>2, <3>3, <3>4
    <2>5. Len(dataset') <= MaxDatasets
        BY <1>2, <1>7, <2>1, HandlersTyped
    <2>6. DatasetsSound'
        BY <2>4, <2>5 DEF DatasetsSound
    <2>. QED
        BY <1>2, <1>6, <1>7, <2>1, <2>5, <2>6, HandlersTyped
<1>8. CASE handler[t].own # -1
    <2>1. dataset' = dataset
        BY <1>1, <1>8
    <2>2. handler[t].own \in DOMAIN dataset /\ Inputs!Matches(handler[t].own, p)
        BY <1>2, <1>3, <1>8, HandlersTyped
    <2>3. DatasetsSound'
        BY <2>1 DEF InputsInv, DatasetsSound
    <2>. QED
        BY <1>2, <1>4, <1>8, <2>1, <2>2, <2>3, HandlersTyped
           DEF InputsInv, DatasetsSound, Inputs!Matches
<1>. QED
    BY <1>7, <1>8

(* The commit binds its preview to one dataset of its kind and content,    *)
(* and every answer given for the preview names that dataset.              *)
LEMMA CommitInputKeeps ==
    ASSUME InputsInv, NEW t \in Handlers, Inputs!CommitInput(t) PROVE InputsInv'
<1>. SUFFICES ASSUME NEW p, p = handler[t].preview,
                     NEW result, result = IF handler[t].own = -1 THEN Len(dataset) + 1
                                                                 ELSE handler[t].own
              PROVE  InputsInv'
    OBVIOUS
<1>. DEFINE e == [[preview[p] EXCEPT !.status = "committed"] EXCEPT !.result = result]
<1>1. /\ preview' = [preview EXCEPT ![p].status = "committed", ![p].result = result]
      /\ answers' \in {answers, [answers EXCEPT ![p] = @ \cup {result}]}
      /\ inputWriter' = "none" /\ handler' = [handler EXCEPT ![t] = Inputs!Idle]
      /\ UNCHANGED inputCrashes
    BY DEF Inputs!CommitInput, Inputs!End
<1>2. /\ inputWriter = t /\ p \in Inputs!Previews
      /\ dataset' \in Seq(Inputs!DatasetRows) /\ Len(dataset') <= MaxDatasets
      /\ Len(dataset) <= Len(dataset')
      /\ \A n \in DOMAIN dataset : dataset'[n] = dataset[n]
      /\ result \in 1..Len(dataset')
      /\ dataset'[result].kind = preview[p].kind
      /\ dataset'[result].content = preview[p].content
      /\ DatasetsSound'
    BY Stored
<1>3. preview \in Seq(Inputs!PreviewRows) /\ Inputs!Previews = 1..Len(preview)
    BY HandlersTyped DEF InputsInv, Inputs!TypeOK, Inputs!Previews
<1>4. DOMAIN dataset' = 1..Len(dataset') /\ Len(dataset') \in Nat
    BY <1>2, LenProperties
<1>5. result \in 0..MaxDatasets /\ result \in 1..MaxDatasets /\ result # 0
    BY <1>2, <1>4, HandlersTyped
<1>6. /\ e \in Inputs!PreviewRows /\ e.kind = preview[p].kind /\ e.content = preview[p].content
      /\ e.result = result
    <2>1. preview[p] \in Inputs!PreviewRows
        BY <1>2, <1>3, ElementOfSeq
    <2>. QED
        BY <1>5, <2>1 DEF Inputs!PreviewRows
<1>7. preview' = [preview EXCEPT ![p] = e]
    BY <1>1, <1>2, <1>3
<1>. HIDE DEF e
<1>8. /\ preview' \in Seq(Inputs!PreviewRows) /\ Len(preview') = Len(preview)
      /\ \A q \in 1..Len(preview) : preview'[q] = IF q = p THEN e ELSE preview[q]
    BY <1>2, <1>3, <1>6, <1>7, ExceptSeq
<1>9. Inputs!Previews' = Inputs!Previews
    BY <1>3, <1>8, LenProperties DEF Inputs!Previews
<1>10. ASSUME NEW q \in Inputs!Previews, NEW n \in DOMAIN dataset
       PROVE  /\ n \in DOMAIN dataset'
              /\ Inputs!Matches(n, q)' <=> Inputs!Matches(n, q)
    <2>1. preview'[q].kind = preview[q].kind /\ preview'[q].content = preview[q].content
        BY <1>3, <1>6, <1>8
    <2>2. n \in DOMAIN dataset' /\ dataset'[n] = dataset[n]
        BY <1>2, <1>4, HandlersTyped
    <2>. QED
        BY <2>1, <2>2 DEF Inputs!Matches
<1>11. result \in DOMAIN dataset' /\ Inputs!Matches(result, p)'
    <2>1. preview'[p].kind = preview[p].kind /\ preview'[p].content = preview[p].content
        BY <1>2, <1>3, <1>6, <1>8
    <2>. QED
        BY <1>2, <1>4, <2>1 DEF Inputs!Matches
<1>12. /\ handler' \in [Handlers -> Inputs!ThreadStates]
       /\ handler'[t].at = "idle"
       /\ \A u \in Handlers \ {t} : handler'[u] = handler[u]
    BY <1>1, HandlersTyped DEF InputsInv, Inputs!TypeOK
<1>13. p \in 1..MaxPreviews
    BY <1>2, <1>3, HandlersTyped
<1>14. /\ answers' \in [1..MaxPreviews -> SUBSET (1..MaxDatasets)]
       /\ \A q \in 1..MaxPreviews : \A n \in answers'[q] :
            n \in answers[q] \/ (n = result /\ q = p)
    <2>1. answers \in [1..MaxPreviews -> SUBSET (1..MaxDatasets)]
        BY DEF InputsInv, Inputs!TypeOK
    <2>2. CASE answers' = answers
        BY <2>1, <2>2
    <2>3. CASE answers' = [answers EXCEPT ![p] = @ \cup {result}]
        BY <1>5, <1>13, <2>1, <2>3
    <2>. QED
        BY <1>1, <2>2, <2>3
<1>15. Inputs!TypeOK'
    <2>1. inputCrashes' \in 0..MaxInputCrashes
        BY <1>1 DEF InputsInv, Inputs!TypeOK
    <2>. QED
        BY <1>1, <1>2, <1>8, <1>12, <1>14, <2>1, HandlersTyped DEF Inputs!TypeOK
<1>16. HandlersSound'
    <2>1. ASSUME NEW u \in Handlers \ {t}
          PROVE  /\ handler'[u].at \in {"loaded", "writing", "looked"} =>
                        handler'[u].preview \in Inputs!Previews'
                 /\ handler'[u].at = "looked" /\ handler'[u].own > 0 =>
                        /\ handler'[u].own \in DOMAIN dataset'
                        /\ Inputs!Matches(handler[u].own, handler[u].preview)'
                 /\ handler'[u].at = "looked" => handler'[u].own >= 0
                 /\ handler'[u].at # "inserted"
        <3>1. handler'[u] = handler[u] /\ u # t
            BY <1>12
        <3>2. /\ handler[u].at \in {"loaded", "writing", "looked"} =>
                    handler[u].preview \in Inputs!Previews
              /\ handler[u].at = "looked" /\ handler[u].own > 0 =>
                    /\ handler[u].own \in DOMAIN dataset
                    /\ Inputs!Matches(handler[u].own, handler[u].preview)
              /\ handler[u].at = "looked" => handler[u].own >= 0
              /\ handler[u].at # "inserted"
            BY <1>2, <3>1 DEF InputsInv, HandlersSound
        <3>3. handler[u].at = "looked" /\ handler[u].own > 0 =>
                    /\ handler[u].own \in DOMAIN dataset'
                    /\ Inputs!Matches(handler[u].own, handler[u].preview)'
            BY <1>10, <3>1, <3>2
        <3>. QED
            BY <1>9, <3>1, <3>2, <3>3
    <2>. QED
        BY <1>12, <2>1 DEF HandlersSound
<1>17. AnswersSound'
    <2>1. ASSUME NEW q \in 1..MaxPreviews, NEW n \in answers'[q]
          PROVE  /\ q \in Inputs!Previews' /\ n \in DOMAIN dataset'
                 /\ Inputs!Matches(n, q)'
        <3>1. CASE n = result /\ q = p
            BY <1>2, <1>9, <1>11, <3>1
        <3>2. CASE n \in answers[q]
            <4>1. q \in Inputs!Previews /\ n \in DOMAIN dataset /\ Inputs!Matches(n, q)
                BY <3>2 DEF InputsInv, AnswersSound
            <4>. QED
                BY <1>9, <1>10, <4>1
        <3>. QED
            BY <1>14, <3>1, <3>2
    <2>2. ASSUME NEW q \in Inputs!Previews
          PROVE  /\ preview'[q].status = "committed" => preview'[q].result # 0
                 /\ preview'[q].result # 0 =>
                      /\ preview'[q].result \in DOMAIN dataset'
                      /\ Inputs!Matches(preview[q].result, q)'
        <3>1. CASE q = p
            BY <1>2, <1>3, <1>5, <1>6, <1>8, <1>11, <3>1
        <3>2. CASE q # p
            <4>1. preview'[q] = preview[q]
                BY <1>3, <1>8, <3>2
            <4>2. /\ preview[q].status = "committed" => preview[q].result # 0
                  /\ preview[q].result # 0 =>
                       /\ preview[q].result \in DOMAIN dataset
                       /\ Inputs!Matches(preview[q].result, q)
                BY DEF InputsInv, AnswersSound
            <4>. QED
                BY <1>10, <4>1, <4>2
        <3>. QED
            BY <3>1, <3>2
    <2>. QED
        BY <1>9, <2>1, <2>2 DEF AnswersSound
<1>. QED
    BY <1>2, <1>15, <1>16, <1>17 DEF InputsInv

(* Every step of previews and commits keeps their inductive invariant.     *)
LEMMA InputsKept ==
    ASSUME InputsInv, [Inputs!Next]_(Inputs!vars)
    PROVE  InputsInv'
<1>1. CASE UNCHANGED Inputs!vars
    <2>1. UNCHANGED <<preview, dataset, inputWriter, handler, answers, inputCrashes>>
        BY <1>1 DEF Inputs!vars
    <2>. QED
        BY <2>1 DEF InputsInv, Inputs!TypeOK, DatasetsSound, HandlersSound, AnswersSound,
                    Inputs!Previews, Inputs!Matches, Inputs!Conflicting
<1>. QED
    BY <1>1, AgeKeeps, LoadStagedKeeps, StagePreviewKeeps, LoadPreviewKeeps, EnsureAthletesKeeps,
       LookUpKeeps, InsertKeeps, CommitInputKeeps, TimeoutKeeps, InputsCrashKeeps DEF Inputs!Next

(* A step of the composition is a step of previews and commits or leaves   *)
(* them alone.                                                             *)
LEMMA InputsOnly ==
    ASSUME [Next]_vars PROVE [Inputs!Next]_(Inputs!vars)
BY DEF Next, vars, CoordinatorStep, SimulationStep, RankingStep, InputStep, inputVars, Inputs!vars

-----------------------------------------------------------------------------
(* A simulation is published for the board it was played out on only, and  *)
(* every preview of projections names one dataset, of its kind and content, *)
(* whoever commits it and however often (DraftSimulations, DraftInputs).   *)
THEOREM ResultsFound == Spec => []ResultsAreOfTheirInputs
<1>. DEFINE Inv == SimsInv /\ RankingInv /\ InputsInv
<1>1. Init => Inv
    BY SimsInit, RankingInit, InputsInit DEF Init
<1>2. Inv /\ [Next]_vars => Inv'
    BY SimsKept, SimsOnly, RankingKept, RankingOnly, InputsKept, InputsOnly
<1>3. Inv => ResultsAreOfTheirInputs
    BY CommittedOnce DEF ResultsAreOfTheirInputs, SimsInv, RankingInv, InputsInv
<1>. QED
    BY <1>1, <1>2, <1>3, PTL DEF Spec

-----------------------------------------------------------------------------
(* The requests: a recorded one finds its event, and the coordinator       *)
(* implements the ledger in which every request is entered once.  The lock *)
(* of the session, the reserved writer and the sequence a transaction has  *)
(* read are what the invariant is made of.                                 *)

(* What a thread has read and decided is still so: its transaction has the *)
(* current sequence, an appended event is new and expected, and a request  *)
(* whose event is committed is recorded.                                   *)
ThreadsUpToDate ==
    \A t \in Threads :
        /\ seen[t] <= sequence
        /\ pc[t] \in {"begun", "appended"} => seen[t] = sequence
        /\ pc[t] = "appended" => /\ ~Coordinator!Recorded(serving[t])
                                 /\ seen[t] = expected[serving[t]]
        /\ pc[t] \in {"committed", "publishing"} => Coordinator!Recorded(serving[t])
        /\ pc[t] # "idle" => tries[serving[t]] > 0

(* A request expects a sequence that was there, for ever once it was sent; *)
(* and an answer is the truth of the log: a success was recorded, and a    *)
(* conflict was not and expects a sequence that is over.                   *)
AnswersTrue ==
    \A r \in Requests :
        /\ expected[r] <= sequence
        /\ Coordinator!Recorded(r) => tries[r] > 0
        /\ answer[r] = "ok" => Coordinator!Recorded(r)
        /\ answer[r] = "conflict" =>
               ~Coordinator!Recorded(r) /\ expected[r] < sequence /\ tries[r] > 0

RequestsInv ==
    Coordinator!TypeOK /\ Coordinator!ExtendsWhatWasSeen /\ ThreadsUpToDate /\ AnswersTrue

(* Before the first request no thread holds the lock, has read the         *)
(* session or owes an answer.                                              *)
LEMMA RequestsInit == Coordinator!Init => RequestsInv
BY CoordinatorAssumption
   DEF RequestsInv, Coordinator!Init, Coordinator!TypeOK, Coordinator!LocksHeld, Coordinator!ExtendsWhatWasSeen,
       ThreadsUpToDate, AnswersTrue, Coordinator!Recorded, Coordinator!Places,
       Coordinator!Answers, Coordinator!ThreadsAssumption, Coordinator!BoundsAssumption

(* Every row of the log records a request.                                 *)
LEMMA RowsRecordRequests ==
    ASSUME Coordinator!TypeOK
    PROVE  /\ Len(rows) \in Nat
           /\ \A i \in 1..Len(rows) :
                rows[i].key \in Requests /\ Coordinator!Recorded(rows[i].key)
<1>1. rows \in Seq([key : Requests, sequence : Nat])
    BY DEF Coordinator!TypeOK
<1>2. ASSUME NEW i \in 1..Len(rows) PROVE rows[i] \in [key : Requests, sequence : Nat]
    BY <1>1, ElementOfSeq
<1>. QED
    BY <1>1, <1>2 DEF Coordinator!Recorded

(* A request enters its attempt (submit_request): only its own thread's    *)
(* bookkeeping starts anew.                                                *)
LEMMA SubmitRequestKeeps ==
    ASSUME RequestsInv, NEW t \in Threads, Coordinator!Submit(t)
    PROVE  RequestsInv'
<1>. USE DEF RequestsInv, Coordinator!database
<1>1. PICK r \in Requests, n \in 0..sequence :
        /\ pc[t] = "idle" /\ tries[r] < MaxTries
        /\ tries[r] > 0 => n = expected[r]
        /\ pc' = [pc EXCEPT ![t] = "received"]
        /\ serving' = [serving EXCEPT ![t] = r]
        /\ expected' = [expected EXCEPT ![r] = n]
        /\ tries' = [tries EXCEPT ![r] = @ + 1]
        /\ UNCHANGED <<rows, sequence, published, lock, writer, seen, answer, crashes>>
    BY DEF Coordinator!Submit, Coordinator!MoveTo
<1>2. \A q \in Requests : tries[q] > 0 => tries'[q] > 0 /\ expected'[q] = expected[q]
    BY <1>1 DEF Coordinator!TypeOK
<1>3. Coordinator!TypeOK'
    BY <1>1, CoordinatorAssumption
       DEF Coordinator!TypeOK, Coordinator!LocksHeld, Coordinator!Places,
           Coordinator!BoundsAssumption, Coordinator!ThreadsAssumption
<1>4. \A q : Coordinator!Recorded(q)' <=> Coordinator!Recorded(q)
    BY <1>1 DEF Coordinator!Recorded
<1>5. \A i \in 1..Len(rows) : rows[i].key \in Requests /\ Coordinator!Recorded(rows[i].key)
    BY RowsRecordRequests
<1>6. Coordinator!ExtendsWhatWasSeen'
    BY <1>1, <1>2, <1>5 DEF Coordinator!ExtendsWhatWasSeen, AnswersTrue
<1>7. ThreadsUpToDate'
    BY <1>1, <1>2, <1>4 DEF ThreadsUpToDate, Coordinator!TypeOK, Coordinator!LocksHeld
<1>8. AnswersTrue'
    BY <1>1, <1>2, <1>4 DEF AnswersTrue, Coordinator!TypeOK
<1>. QED
    BY <1>3, <1>6, <1>7, <1>8

(* A step of one thread that leaves the log and the requests alone keeps   *)
(* what is known of them; what remains to be shown is the thread's own.    *)
LEMMA QuietStep ==
    ASSUME RequestsInv, NEW t \in Threads,
           UNCHANGED <<rows, sequence, expected, tries, answer>>,
           \A u \in Threads \ {t} : /\ pc'[u] = pc[u] /\ seen'[u] = seen[u]
                                   /\ serving'[u] = serving[u],
           seen'[t] \in {seen[t], sequence},
           pc'[t] = "idle" \/ (pc[t] # "idle" /\ serving'[t] = serving[t]),
           pc'[t] \in {"begun", "appended"} => seen'[t] = sequence,
           pc'[t] = "appended" => /\ ~Coordinator!Recorded(serving[t])
                                  /\ seen'[t] = expected[serving[t]],
           pc'[t] \in {"committed", "publishing"} => Coordinator!Recorded(serving[t])
    PROVE  Coordinator!ExtendsWhatWasSeen' /\ ThreadsUpToDate' /\ AnswersTrue'
<1>. USE DEF RequestsInv
<1>1. \A q : Coordinator!Recorded(q)' <=> Coordinator!Recorded(q)
    BY DEF Coordinator!Recorded
<1>2. Coordinator!ExtendsWhatWasSeen'
    BY DEF Coordinator!ExtendsWhatWasSeen
<1>3. ThreadsUpToDate'
    <2>1. ASSUME NEW u \in Threads
          PROVE  /\ seen'[u] <= sequence'
                 /\ pc'[u] \in {"begun", "appended"} => seen'[u] = sequence'
                 /\ pc'[u] = "appended" => /\ ~Coordinator!Recorded(serving[u])
                                           /\ seen'[u] = expected'[serving[u]]
                 /\ pc'[u] \in {"committed", "publishing"} => Coordinator!Recorded(serving[u])
                 /\ pc'[u] # "idle" => serving'[u] = serving[u] /\ tries'[serving[u]] > 0
        BY DEF ThreadsUpToDate, Coordinator!TypeOK
    <2>. QED
        BY <1>1, <2>1 DEF ThreadsUpToDate
<1>4. AnswersTrue'
    BY <1>1 DEF AnswersTrue
<1>. QED
    BY <1>2, <1>3, <1>4

(* Loading the session reads a sequence that is not ahead of the log.      *)
LEMMA LoadSessionKeeps ==
    ASSUME RequestsInv, NEW t \in Threads, Coordinator!LoadSession(t)
    PROVE  RequestsInv'
<1>. USE DEF RequestsInv, Coordinator!TypeOK, Coordinator!database, Coordinator!clients
<1>1. Coordinator!TypeOK'
    BY DEF Coordinator!LoadSession, Coordinator!MoveTo, Coordinator!LocksHeld, Coordinator!Places
<1>. QED
    BY <1>1, QuietStep DEF Coordinator!LoadSession, Coordinator!MoveTo

(* The session's in-process lock goes to one thread when nobody holds it.  *)
LEMMA AcquireLockKeeps ==
    ASSUME RequestsInv, NEW t \in Threads, Coordinator!AcquireLock(t)
    PROVE  RequestsInv'
<1>. USE DEF RequestsInv, Coordinator!TypeOK, Coordinator!database, Coordinator!clients
<1>1. Coordinator!TypeOK'
    BY CoordinatorAssumption
       DEF Coordinator!AcquireLock, Coordinator!MoveTo, Coordinator!LocksHeld, Coordinator!Places,
           Coordinator!ThreadsAssumption
<1>. QED
    BY <1>1, QuietStep DEF Coordinator!AcquireLock, Coordinator!MoveTo

(* BEGIN IMMEDIATE: the transaction starts from the committed sequence,    *)
(* as no other one is open.                                                *)
LEMMA BeginImmediateKeeps ==
    ASSUME RequestsInv, NEW t \in Threads, Coordinator!BeginImmediate(t)
    PROVE  RequestsInv'
<1>. USE DEF RequestsInv, Coordinator!TypeOK, Coordinator!database, Coordinator!clients
<1>1. Coordinator!TypeOK'
    BY CoordinatorAssumption
       DEF Coordinator!BeginImmediate, Coordinator!MoveTo, Coordinator!LocksHeld,
           Coordinator!Places, Coordinator!ThreadsAssumption
<1>. QED
    BY <1>1, QuietStep DEF Coordinator!BeginImmediate, Coordinator!MoveTo
(* An attempt that ends with an answer that is the truth.                  *)
LEMMA FinishKeeps ==
    ASSUME RequestsInv, NEW t \in Threads, NEW a \in {"ok", "conflict", "error"},
           Coordinator!Finish(t, a),
           UNCHANGED <<rows, sequence>>, published' \subseteq Nat,
           lock = t,
           a = "ok" => Coordinator!Recorded(serving[t]),
           a = "conflict" => /\ ~Coordinator!Recorded(serving[t])
                             /\ expected[serving[t]] < sequence
    PROVE  RequestsInv'
<1>. USE DEF RequestsInv, Coordinator!clients
<1>1. serving[t] \in Requests /\ tries[serving[t]] > 0
    BY CoordinatorAssumption
       DEF Coordinator!TypeOK, Coordinator!LocksHeld, ThreadsUpToDate, Coordinator!ThreadsAssumption
<1>2. /\ pc' = [pc EXCEPT ![t] = "idle"] /\ serving' = [serving EXCEPT ![t] = NoOne]
      /\ lock' = NoOne /\ writer' = IF writer = t THEN NoOne ELSE writer
      /\ answer' = answer \/ answer' = Coordinator!Told(serving[t], a)
      /\ UNCHANGED <<rows, sequence, seen, expected, tries, crashes>>
    BY DEF Coordinator!Finish, Coordinator!MoveTo
<1>3. Coordinator!TypeOK'
    <2>1. answer' \in [Requests -> Coordinator!Answers]
        BY <1>2 DEF Coordinator!TypeOK, Coordinator!Told, Coordinator!Answers
    <2>2. Coordinator!LocksHeld'
        BY <1>2, CoordinatorAssumption
           DEF Coordinator!TypeOK, Coordinator!LocksHeld, Coordinator!ThreadsAssumption,
               Coordinator!Places
    <2>. QED
        BY <1>2, <2>1, <2>2 DEF Coordinator!TypeOK, Coordinator!Places
<1>4. \A q : Coordinator!Recorded(q)' <=> Coordinator!Recorded(q)
    BY <1>2 DEF Coordinator!Recorded
<1>5. Coordinator!ExtendsWhatWasSeen'
    BY <1>2 DEF Coordinator!ExtendsWhatWasSeen
<1>6. ThreadsUpToDate'
    BY <1>2, <1>4 DEF ThreadsUpToDate, Coordinator!TypeOK
<1>7. AnswersTrue'
    <2>1. ASSUME NEW r \in Requests
          PROVE  answer'[r] = answer[r] \/ (r = serving[t] /\ answer'[r] = a)
        BY <1>1, <1>2 DEF Coordinator!Told, Coordinator!TypeOK
    <2>. QED
        BY <1>1, <1>2, <1>4, <2>1 DEF AnswersTrue
<1>. QED
    BY <1>3, <1>5, <1>6, <1>7

(* A thread that waited too long for the database gives its request up.    *)
LEMMA BusyTimeoutKeeps ==
    ASSUME RequestsInv, NEW t \in Threads, Coordinator!BusyTimeout(t)
    PROVE  RequestsInv'
BY FinishKeeps
   DEF Coordinator!BusyTimeout, RequestsInv, Coordinator!TypeOK, Coordinator!LocksHeld,
       Coordinator!Places, Coordinator!database

(* Whoever is in a transaction has the lock and the writer, serves a       *)
(* request and has read the current sequence.                              *)
LEMMA InTransaction ==
    ASSUME RequestsInv, NEW t \in Threads, pc[t] \in {"begun", "appended"}
    PROVE  /\ lock = t /\ writer = t /\ seen[t] = sequence
           /\ serving[t] \in Requests /\ tries[serving[t]] > 0
<1>1. /\ pc[t] \in Coordinator!Places \ {"idle", "received", "loaded"}
      /\ pc[t] # "idle"
    BY DEF Coordinator!Places
<1>2. lock = t /\ writer = t /\ serving[t] # NoOne
    BY <1>1 DEF RequestsInv, Coordinator!TypeOK, Coordinator!LocksHeld
<1>3. serving[t] \in Requests
    BY <1>2 DEF RequestsInv, Coordinator!TypeOK
<1>4. seen[t] = sequence /\ tries[serving[t]] > 0
    BY <1>1 DEF RequestsInv, ThreadsUpToDate
<1>. QED
    BY <1>2, <1>3, <1>4

(* The idempotency lookup and the expected sequence are checked inside     *)
(* the transaction: what is appended is new and expected.                  *)
LEMMA CheckKeeps ==
    ASSUME RequestsInv, NEW t \in Threads, Coordinator!Check(t)
    PROVE  RequestsInv'
<1>. USE DEF RequestsInv
<1>1. /\ pc[t] = "begun" /\ lock = t /\ writer = t /\ seen[t] = sequence
      /\ serving[t] \in Requests
      /\ UNCHANGED <<rows, sequence, published>> /\ published' \subseteq Nat
    BY InTransaction DEF Coordinator!Check, Coordinator!database, Coordinator!TypeOK
<1>2. CASE Coordinator!Recorded(serving[t]) /\ Coordinator!Finish(t, "ok")
    BY <1>1, <1>2, FinishKeeps
<1>3. CASE /\ ~Coordinator!Recorded(serving[t]) /\ seen[t] # expected[serving[t]]
           /\ Coordinator!Finish(t, "conflict")
    <2>1. expected[serving[t]] < sequence
        BY <1>1, <1>3 DEF AnswersTrue, Coordinator!TypeOK
    <2>. QED
        BY <1>1, <1>3, <2>1, FinishKeeps
<1>4. CASE /\ ~Coordinator!Recorded(serving[t]) /\ seen[t] = expected[serving[t]]
           /\ Coordinator!MoveTo(t, "appended")
           /\ UNCHANGED <<lock, writer, serving, seen, Coordinator!clients, answer, crashes>>
    <2>1. Coordinator!TypeOK'
        BY <1>1, <1>4
           DEF Coordinator!TypeOK, Coordinator!MoveTo, Coordinator!LocksHeld, Coordinator!Places,
               Coordinator!database, Coordinator!clients
    <2>. QED
        BY <1>1, <1>4, <2>1, QuietStep
           DEF Coordinator!MoveTo, Coordinator!TypeOK, Coordinator!database, Coordinator!clients
<1>. QED
    BY <1>2, <1>3, <1>4 DEF Coordinator!Check
(* What a thread decided on is still so when it commits.                   *)
LEMMA NeverRefused ==
    ASSUME RequestsInv PROVE Coordinator!LocksSuffice
<1>. SUFFICES ASSUME NEW t \in Threads, pc[t] = "appended"
              PROVE  ~Coordinator!Violates(t)
    BY DEF Coordinator!LocksSuffice
<1>1. ~Coordinator!Recorded(serving[t]) /\ seen[t] = sequence
    BY DEF RequestsInv, ThreadsUpToDate
<1>2. sequence \in Nat /\ sequence = Len(rows) /\ \A i \in 1..Len(rows) : rows[i].sequence = i
    BY DEF RequestsInv, Coordinator!ExtendsWhatWasSeen, Coordinator!TypeOK
<1>. QED
    BY <1>1, <1>2 DEF Coordinator!Violates

(* The commit makes the sequence, the event and the request's record       *)
(* visible at once, so the request finds its log afterwards.               *)
LEMMA CommitKeeps ==
    ASSUME RequestsInv, NEW t \in Threads, Coordinator!Commit(t)
    PROVE  RequestsInv'
<1>. DEFINE r   == serving[t]
            row == [key |-> r, sequence |-> sequence + 1]
<1>. USE DEF RequestsInv
<1>1. /\ pc[t] = "appended" /\ lock = t /\ writer = t
      /\ r \in Requests /\ tries[r] > 0
      /\ seen[t] = sequence /\ expected[r] = sequence /\ ~Coordinator!Recorded(r)
    BY InTransaction DEF Coordinator!Commit, ThreadsUpToDate
<1>2. /\ rows' = Append(rows, row) /\ sequence' = sequence + 1
      /\ writer' = NoOne /\ pc' = [pc EXCEPT ![t] = "committed"]
      /\ UNCHANGED <<published, lock, serving, seen, expected, tries, answer, crashes>>
    BY <1>1, NeverRefused
       DEF Coordinator!Commit, Coordinator!LocksSuffice, Coordinator!MoveTo, Coordinator!clients
<1>. HIDE DEF row
<1>3. /\ rows \in Seq([key : Requests, sequence : Nat]) /\ sequence \in Nat
      /\ row \in [key : Requests, sequence : Nat] /\ row.key = r /\ row.sequence = sequence + 1
      /\ sequence = Len(rows)
    BY <1>1 DEF Coordinator!TypeOK, Coordinator!ExtendsWhatWasSeen, row
<1>4. /\ rows' \in Seq([key : Requests, sequence : Nat])
      /\ Len(rows') = sequence + 1 /\ rows'[sequence + 1] = row
      /\ \A i \in 1..sequence : rows'[i] = rows[i]
    BY <1>2, <1>3, AppendProperties
<1>5. \A q : Coordinator!Recorded(q)' <=> Coordinator!Recorded(q) \/ q = r
    BY <1>3, <1>4 DEF Coordinator!Recorded
<1>6. Coordinator!TypeOK'
    <2>1. Coordinator!LocksHeld'
        BY <1>1, <1>2, CoordinatorAssumption
           DEF Coordinator!TypeOK, Coordinator!LocksHeld, Coordinator!ThreadsAssumption,
               Coordinator!Places
    <2>. QED
        BY <1>2, <1>3, <1>4, <2>1 DEF Coordinator!TypeOK, Coordinator!Places
<1>7. Coordinator!ExtendsWhatWasSeen'
    BY <1>1, <1>2, <1>3, <1>4 DEF Coordinator!ExtendsWhatWasSeen
<1>8. ThreadsUpToDate'
    <2>1. \A u \in Threads \ {t} : pc[u] \notin {"begun", "appended"}
        BY <1>1 DEF Coordinator!TypeOK, Coordinator!LocksHeld
    <2>. QED
        BY <1>1, <1>2, <1>3, <1>5, <2>1 DEF ThreadsUpToDate, Coordinator!TypeOK
<1>9. AnswersTrue'
    BY <1>1, <1>2, <1>3, <1>5 DEF AnswersTrue, Coordinator!TypeOK
<1>. QED
    BY <1>6, <1>7, <1>8, <1>9

(* The advice a committed or replayed request is answered with changes no  *)
(* log.                                                                    *)
LEMMA LookUpAdviceKeeps ==
    ASSUME RequestsInv, NEW t \in Threads, Coordinator!LookUpAdvice(t)
    PROVE  RequestsInv'
<1>. USE DEF RequestsInv
<1>1. /\ pc[t] = "committed" /\ lock = t /\ Coordinator!Recorded(serving[t])
      /\ UNCHANGED <<rows, sequence, published>> /\ published' \subseteq Nat
    BY DEF Coordinator!LookUpAdvice, Coordinator!database, Coordinator!TypeOK, Coordinator!LocksHeld, ThreadsUpToDate,
           Coordinator!Places
<1>2. CASE Coordinator!Finish(t, "ok")
    BY <1>1, <1>2, FinishKeeps
<1>3. CASE /\ Coordinator!MoveTo(t, "publishing")
           /\ UNCHANGED <<lock, writer, serving, seen, Coordinator!clients, answer, crashes>>
    <2>1. Coordinator!TypeOK'
        BY <1>1, <1>3
           DEF Coordinator!TypeOK, Coordinator!MoveTo, Coordinator!LocksHeld, Coordinator!Places,
               Coordinator!database, Coordinator!clients
    <2>. QED
        BY <1>1, <1>3, <2>1, QuietStep
           DEF Coordinator!MoveTo, Coordinator!TypeOK, Coordinator!database, Coordinator!clients
<1>. QED
    BY <1>2, <1>3 DEF Coordinator!LookUpAdvice

(* The publication of a snapshot ends the attempt and changes no log.      *)
LEMMA PublishAdviceKeeps ==
    ASSUME RequestsInv, NEW t \in Threads, Coordinator!Publish(t)
    PROVE  RequestsInv'
<1>. USE DEF RequestsInv
<1>1. /\ pc[t] = "publishing" /\ lock = t /\ Coordinator!Recorded(serving[t])
      /\ UNCHANGED <<rows, sequence>> /\ published' \subseteq Nat
    BY DEF Coordinator!Publish, Coordinator!TypeOK, Coordinator!LocksHeld, ThreadsUpToDate,
           Coordinator!Places
<1>. QED
    BY <1>1, FinishKeeps DEF Coordinator!Publish

(* What another reader, an outside writer or a crash does: a crash ends    *)
(* the attempts and leaves what was committed.                             *)
LEMMA OthersKeep ==
    ASSUME RequestsInv,
           Coordinator!ReaderPublishes \/ Coordinator!OutsiderWrites \/ Coordinator!Crash
    PROVE  RequestsInv'
<1>. USE DEF RequestsInv, Coordinator!database, Coordinator!clients
<1>0. UNCHANGED <<rows, sequence, expected, tries, answer, seen>>
    BY DEF Coordinator!ReaderPublishes, Coordinator!OutsiderWrites, Coordinator!Crash
<1>1. \A q : Coordinator!Recorded(q)' <=> Coordinator!Recorded(q)
    BY <1>0 DEF Coordinator!Recorded
<1>2. \A t \in Threads : pc'[t] = "idle" \/ (pc'[t] = pc[t] /\ serving'[t] = serving[t])
    BY DEF Coordinator!ReaderPublishes, Coordinator!OutsiderWrites, Coordinator!Crash
<1>3. Coordinator!TypeOK'
    <2>1. CASE Coordinator!ReaderPublishes
        BY <2>1 DEF Coordinator!TypeOK, Coordinator!LocksHeld, Coordinator!ReaderPublishes
    <2>2. CASE Coordinator!OutsiderWrites
        BY <2>2, CoordinatorAssumption
           DEF Coordinator!TypeOK, Coordinator!LocksHeld, Coordinator!OutsiderWrites,
               Coordinator!ThreadsAssumption
    <2>3. CASE Coordinator!Crash
        BY <2>3, CoordinatorAssumption
           DEF Coordinator!TypeOK, Coordinator!LocksHeld, Coordinator!Crash, Coordinator!Places,
               Coordinator!ThreadsAssumption, Coordinator!BoundsAssumption
    <2>. QED
        BY <2>1, <2>2, <2>3
<1>4. Coordinator!ExtendsWhatWasSeen'
    BY <1>0 DEF Coordinator!ExtendsWhatWasSeen
<1>5. ThreadsUpToDate'
    BY <1>0, <1>1, <1>2 DEF ThreadsUpToDate
<1>6. AnswersTrue'
    BY <1>0, <1>1 DEF AnswersTrue
<1>. QED
    BY <1>3, <1>4, <1>5, <1>6

(* Every step keeps the inductive invariant of the requests.               *)
LEMMA RequestsStep ==
    ASSUME RequestsInv, [Next]_vars
    PROVE  RequestsInv'
<1>1. CASE Coordinator!Next
    BY <1>1, SubmitRequestKeeps, LoadSessionKeeps, AcquireLockKeeps, BeginImmediateKeeps,
       BusyTimeoutKeeps, CheckKeeps, CommitKeeps, LookUpAdviceKeeps, PublishAdviceKeeps, OthersKeep
       DEF Coordinator!Next, Coordinator!Attempt
<1>2. CASE UNCHANGED requestVars
    BY <1>2
       DEF requestVars, RequestsInv, Coordinator!TypeOK, Coordinator!LocksHeld,
           Coordinator!ExtendsWhatWasSeen, ThreadsUpToDate, AnswersTrue, Coordinator!Recorded
<1>. QED
    BY <1>1, <1>2 DEF Next, vars, CoordinatorStep, SimulationStep, RankingStep, InputStep

(* A recorded request names the event it appended and every acknowledged   *)
(* one is in the log, through retries, timeouts and crashes                *)
(* (coordinator.py): RequestsFindTheirLog for any number of threads and    *)
(* requests.                                                               *)
THEOREM RequestsFound == Spec => []RequestsFindTheirLog
<1>1. Init => RequestsInv
    BY RequestsInit DEF Init
<1>2. RequestsInv => RequestsFindTheirLog
    BY NeverRefused DEF RequestsInv, RequestsFindTheirLog
<1>. QED
    BY <1>1, <1>2, RequestsStep, PTL DEF Spec
-----------------------------------------------------------------------------
(* The coordinator implements the ledger.                                  *)

(* The coordinator starts where the abstract ledger starts.                *)
LEMMA LedgerInit == Coordinator!Init => Coordinator!Ledger!LedgerInit
BY DEF Coordinator!Init, Coordinator!Ledger!LedgerInit

(* The ledger's entries are the keys of the log.                           *)
LEMMA EnteredIsRecorded ==
    ASSUME Coordinator!TypeOK, NEW r
    PROVE  Coordinator!Ledger!Entered(r) <=> Coordinator!Recorded(r)
<1>. DEFINE keys == [i \in 1..Len(rows) |-> rows[i].key]
<1>1. Len(rows) \in Nat /\ \A i \in 1..Len(rows) : rows[i].key \in Requests
    BY RowsRecordRequests
<1>2. keys \in Seq(Requests) /\ Len(keys) = Len(rows)
    BY <1>1
<1>. QED
    BY <1>2 DEF Coordinator!Ledger!Entered, Coordinator!Recorded

(* An attempt that ends with the truth tells it, or nothing new.           *)
LEMMA FinishTells ==
    ASSUME RequestsInv, NEW t \in Threads, NEW a \in {"ok", "conflict", "error"},
           Coordinator!Finish(t, a), UNCHANGED rows, serving[t] \in Requests,
           a = "ok" => Coordinator!Recorded(serving[t]),
           a = "conflict" => ~Coordinator!Recorded(serving[t])
    PROVE  [Coordinator!Ledger!LedgerNext]_(Coordinator!Ledger!ledgerVars)
<1>. DEFINE r == serving[t]
            b == IF a = "error" /\ answer[r] \in {"ok", "conflict"} THEN answer[r] ELSE a
<1>1. CASE answer' = answer
    BY <1>1 DEF Coordinator!Ledger!ledgerVars
<1>2. CASE answer' = Coordinator!Told(r, a)
    <2>1. answer' = [answer EXCEPT ![r] = b] /\ b \in {"ok", "conflict", "error"}
        BY <1>2 DEF Coordinator!Told, RequestsInv, Coordinator!TypeOK
    <2>2. /\ b = "ok" => Coordinator!Recorded(r)
          /\ b = "conflict" => ~Coordinator!Recorded(r)
          /\ answer[r] \in {"ok", "conflict"} => b = answer[r]
        BY DEF RequestsInv, AnswersTrue
    <2>3. Coordinator!Ledger!Tell(r, b)
        BY <2>1, <2>2, EnteredIsRecorded DEF Coordinator!Ledger!Tell, RequestsInv
    <2>. QED
        BY <2>1, <2>3 DEF Coordinator!Ledger!LedgerNext, Coordinator!Ledger!Answers
<1>. QED
    BY <1>1, <1>2 DEF Coordinator!Finish

(* A commit enters the request it serves.                                  *)
LEMMA CommitEnters ==
    ASSUME RequestsInv, NEW t \in Threads, Coordinator!Commit(t)
    PROVE  \E r \in Requests : Coordinator!Ledger!Enter(r)
<1>. DEFINE r       == serving[t]
            row     == [key |-> r, sequence |-> seen[t] + 1]
            keys(s) == [i \in 1..Len(s) |-> s[i].key]
<1>1. /\ pc[t] = "appended" /\ r \in Requests
      /\ rows' = Append(rows, row) /\ UNCHANGED answer
    BY NeverRefused, CoordinatorAssumption
       DEF Coordinator!Commit, Coordinator!LocksSuffice, RequestsInv, Coordinator!TypeOK,
           Coordinator!LocksHeld, Coordinator!ThreadsAssumption
<1>2. ~Coordinator!Recorded(r) /\ answer[r] # "conflict"
    BY <1>1 DEF RequestsInv, ThreadsUpToDate, AnswersTrue, Coordinator!TypeOK
<1>3. keys(rows') = Append(keys(rows), r)
    <2>1. rows \in Seq([key : Requests, sequence : Nat])
        BY DEF RequestsInv, Coordinator!TypeOK
    <2>2. \A i \in 1..Len(rows) : rows[i].key \in Requests
        BY RowsRecordRequests DEF RequestsInv
    <2>3. keys(rows) \in Seq(Requests) /\ Len(keys(rows)) = Len(rows)
        BY <2>1, <2>2
    <2>4. /\ Len(rows') = Len(rows) + 1 /\ rows'[Len(rows) + 1].key = r
          /\ \A i \in 1..Len(rows) : rows'[i] = rows[i]
        BY <1>1, <2>1
    <2>. QED
        BY <1>1, <2>1, <2>3, <2>4
<1>. QED
    BY <1>1, <1>2, <1>3, EnteredIsRecorded DEF Coordinator!Ledger!Enter, RequestsInv

(* Every step of the coordinator enters one request into the ledger,       *)
(* tells one answer, or changes nothing of it.                             *)
LEMMA LedgerStep ==
    ASSUME RequestsInv, [Next]_vars
    PROVE  [Coordinator!Ledger!LedgerNext]_(Coordinator!Ledger!ledgerVars)
<1>1. ASSUME NEW t \in Threads, Coordinator!Submit(t) \/ Coordinator!Attempt(t)
      PROVE  [Coordinator!Ledger!LedgerNext]_(Coordinator!Ledger!ledgerVars)
    <2>1. pc[t] \notin {"idle"} => serving[t] \in Requests
        BY DEF RequestsInv, Coordinator!TypeOK, Coordinator!LocksHeld
    <2>2. CASE \/ Coordinator!Submit(t) \/ Coordinator!LoadSession(t)
               \/ Coordinator!AcquireLock(t) \/ Coordinator!BeginImmediate(t)
        BY <2>2 DEF Coordinator!Submit, Coordinator!LoadSession, Coordinator!AcquireLock,
                    Coordinator!BeginImmediate, Coordinator!database, Coordinator!Ledger!ledgerVars
    <2>3. CASE Coordinator!BusyTimeout(t)
        BY <2>1, <2>3, FinishTells DEF Coordinator!BusyTimeout, Coordinator!database
    <2>4. CASE Coordinator!Check(t)
        BY <2>1, <2>4, FinishTells
           DEF Coordinator!Check, Coordinator!database, Coordinator!Ledger!ledgerVars
    <2>5. CASE Coordinator!Commit(t)
        BY <2>5, CommitEnters DEF Coordinator!Ledger!LedgerNext
    <2>6. CASE Coordinator!LookUpAdvice(t)
        <3>1. Coordinator!Recorded(serving[t])
            BY <2>6 DEF Coordinator!LookUpAdvice, RequestsInv, ThreadsUpToDate
        <3>. QED
            BY <2>1, <2>6, <3>1, FinishTells
               DEF Coordinator!LookUpAdvice, Coordinator!database, Coordinator!Ledger!ledgerVars
    <2>7. CASE Coordinator!Publish(t)
        <3>1. Coordinator!Recorded(serving[t])
            BY <2>7 DEF Coordinator!Publish, RequestsInv, ThreadsUpToDate
        <3>. QED
            BY <2>1, <2>7, <3>1, FinishTells DEF Coordinator!Publish
    <2>. QED
        BY <1>1, <2>2, <2>3, <2>4, <2>5, <2>6, <2>7 DEF Coordinator!Attempt
<1>2. CASE \/ Coordinator!ReaderPublishes \/ Coordinator!OutsiderWrites \/ Coordinator!Crash
           \/ UNCHANGED requestVars
    BY <1>2 DEF Coordinator!ReaderPublishes, Coordinator!OutsiderWrites, Coordinator!Crash,
                Coordinator!database, requestVars, Coordinator!Ledger!ledgerVars
<1>. QED
    BY <1>1, <1>2
       DEF Next, vars, CoordinatorStep, SimulationStep, RankingStep, InputStep, Coordinator!Next

(* The attempts, locks and transactions of the coordinator implement the   *)
(* abstract ledger, in which a request is entered once and answered by     *)
(* its entry: ImplementsLedger, without the ledger's fairness.             *)
THEOREM LedgerImplemented == Spec => ImplementsLedger
<1>1. Init => RequestsInv /\ Coordinator!Ledger!LedgerInit
    BY RequestsInit, LedgerInit DEF Init
<1>. QED
    BY <1>1, RequestsStep, LedgerStep, PTL DEF Spec, ImplementsLedger, Coordinator!ImplementsLedger, Coordinator!Ledger!LedgerSpec
=============================================================================
