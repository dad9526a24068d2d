--------------------------- MODULE DraftServices ---------------------------
(***************************************************************************)
(* What goes on around a draft: the coordination of its requests, its      *)
(* simulations, the synchronization of its ranking and the files its       *)
(* inputs come from.  A behaviour exercises one of them, chosen at its     *)
(* start, and the others stay as they are: what they share is the          *)
(* session's row, which each of them models as far as it looks at it.      *)
(***************************************************************************)
EXTENDS Integers, Sequences, FiniteSets

CONSTANTS
    Threads, Requests, NoOne, Outsider, MaxTries, MaxCrashes,               \* DraftCoordinator
    MaxBoard, MaxRuns, MaxSimRestarts, MaxDeaths,                           \* DraftSimulations
    MaxEvents, MaxRankings, MaxSyncRestarts,                                \* RankingSync
    Handlers, Contents, MaxStaged, MaxPreviews, MaxDatasets,                \* DraftInputs
    MaxInputCrashes

VARIABLES
    part,
    rows, sequence, published, lock, writer, pc, serving, seen,             \* DraftCoordinator
    expected, tries, answer, crashes,
    board, run, pending, thread, playouts, broken, simRestarts, deaths,     \* DraftSimulations
    status, event, ranking, stored, sync, syncRestarts, overlapped,         \* RankingSync
    preview, dataset, inputWriter, handler, answers, inputCrashes           \* DraftInputs

Coordinator == INSTANCE DraftCoordinator

Sims == INSTANCE DraftSimulations WITH
            MaxSequence <- MaxBoard, MaxRestarts <- MaxSimRestarts,
            sequence <- board, restarts <- simRestarts

Ranking == INSTANCE RankingSync WITH
               MaxSequence <- MaxEvents, MaxRestarts <- MaxSyncRestarts,
               sequence <- event, restarts <- syncRestarts

Inputs == INSTANCE DraftInputs WITH
              Threads <- Handlers, MaxCrashes <- MaxInputCrashes,
              writer <- inputWriter, thread <- handler, crashes <- inputCrashes

ASSUME CoordinatorAssumption == Coordinator!ThreadsAssumption /\ Coordinator!BoundsAssumption

ASSUME SimulationsAssumption == Sims!DraftSimulationsAssumption

ASSUME RankingAssumption == Ranking!RankingSyncAssumption

ASSUME InputsAssumption == Inputs!DraftInputsAssumption

requestVars == <<rows, sequence, published, lock, writer, pc, serving, seen, expected, tries,
                 answer, crashes>>
simVars == <<board, run, pending, thread, playouts, broken, simRestarts, deaths>>
rankingVars == <<status, event, ranking, stored, sync, syncRestarts, overlapped>>
inputVars == <<preview, dataset, inputWriter, handler, answers, inputCrashes>>

vars == <<part, requestVars, simVars, rankingVars, inputVars>>

Init ==
    /\ part \in {"coordinator", "simulations", "ranking", "inputs"}
    /\ Coordinator!Init /\ Sims!Init /\ Ranking!Init /\ Inputs!Init

CoordinatorStep ==
    /\ part = "coordinator" /\ Coordinator!Next
    /\ UNCHANGED <<part, simVars, rankingVars, inputVars>>

SimulationStep ==
    /\ part = "simulations" /\ Sims!Next
    /\ UNCHANGED <<part, requestVars, rankingVars, inputVars>>

RankingStep ==
    /\ part = "ranking" /\ Ranking!Next
    /\ UNCHANGED <<part, requestVars, simVars, inputVars>>

InputStep ==
    /\ part = "inputs" /\ Inputs!Next
    /\ UNCHANGED <<part, requestVars, simVars, rankingVars>>

Next == CoordinatorStep \/ SimulationStep \/ RankingStep \/ InputStep

Spec == Init /\ [][Next]_vars

(* The fairness of the parts, for the one that is exercised.               *)
FairSpec ==
    /\ Spec
    /\ \A t \in Threads : WF_requestVars(part = "coordinator" /\ Coordinator!Attempt(t))
    /\ WF_simVars(part = "simulations" /\ Sims!CompleteSimulation)

-----------------------------------------------------------------------------
(* Each event extends exactly the log its client had seen, the lock and    *)
(* the reservation alone keep the unique constraints from ever refusing,   *)
(* and both are given back whichever way an attempt ends                   *)
(* (DraftCoordinator).                                                     *)
RequestsFindTheirLog ==
    Coordinator!TypeOK /\ Coordinator!LocksSuffice /\ Coordinator!ExtendsWhatWasSeen

(* The coordinator implements the ledger: a key is entered at most once, a *)
(* reported success is durable, and a reported conflict is final.          *)
ImplementsLedger == Coordinator!ImplementsLedger

(* A simulation is published for the board it was played out on only       *)
(* (DraftSimulations), and every preview of projections names the one      *)
(* dataset of its content, whoever commits it (DraftInputs).               *)
ResultsAreOfTheirInputs ==
    /\ Sims!TypeOK /\ Inputs!TypeOK /\ Ranking!TypeOK
    /\ Sims!ReadyIsCurrent /\ Inputs!ProjectionsCommitOnce

(* What a started draft uses and where it stands changes by its events     *)
(* only, unless it was started during a setup sync (RankingSync).          *)
StartedDraftStands == Ranking!StartedDraftStands

(* Every attempt and every simulation ends (DraftCoordinator,              *)
(* DraftSimulations).                                                      *)
WorkEnds == Coordinator!AttemptsEnd /\ Sims!SimulationsEnd
=============================================================================
