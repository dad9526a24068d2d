-------------------------- MODULE DraftSimulations --------------------------
(***************************************************************************)
(* Scenario simulations of a draft (draft/simulation.py): durable rows, a  *)
(* thread that executes them one by one, the one process it gives the      *)
(* playouts to, and the draft that goes on meanwhile.                      *)
(***************************************************************************)
EXTENDS Integers, Sequences, SequencesExt

CONSTANTS MaxSequence,  \* bounds on the events of the draft,
          MaxRuns,      \* the rows,
          MaxRestarts,  \* the restarts of the application
          MaxDeaths     \* and the deaths of the playout process

DraftSimulationsAssumption ==
    /\ MaxSequence \in Nat /\ MaxRuns \in Nat /\ MaxRestarts \in Nat /\ MaxDeaths \in Nat

VARIABLES
    sequence,       \* current_sequence of the draft
    run,            \* DraftComputationRun: status, the sequence it simulates,
                    \* and (history) the draft's sequence when its playouts ended
    pending,        \* rows submitted to _orchestrator
    thread,         \* the row its thread executes, and where
    playouts,       \* rows given to _process_executor, the running one first
    broken,         \* the process died: every later submission raises
    restarts, deaths

vars == <<sequence, run, pending, thread, playouts, broken, restarts, deaths>>

Runs == 1..MaxRuns

Idle == [row |-> 0, at |-> "idle", seen |-> 0]

Busy == {"queued", "running"}

Statuses == Busy \cup {"none", "ready", "stale", "timed_out", "failed", "interrupted"}

TypeOK ==
    /\ sequence \in 0..MaxSequence
    /\ run \in [Runs -> [status : Statuses, sequence : 0..MaxSequence, endedAt : -1..MaxSequence]]
    /\ pending \in Seq(Runs) /\ playouts \in Seq(Runs)
    /\ thread \in [row : Runs \cup {0}, seen : 0..MaxSequence,
                   at : {"idle", "submitting", "waiting", "reading", "committing"}]
    /\ broken \in BOOLEAN
    /\ restarts \in 0..MaxRestarts /\ deaths \in 0..MaxDeaths

Init ==
    /\ sequence = 0
    /\ run = [r \in Runs |-> [status |-> "none", sequence |-> 0, endedAt |-> -1]]
    /\ pending = <<>> /\ playouts = <<>>
    /\ thread = Idle
    /\ broken = FALSE
    /\ restarts = 0 /\ deaths = 0

Become(r, status) == run' = [run EXCEPT ![r].status = status]

(* An operation on the draft commits an event.                             *)
DraftEvent ==
    /\ sequence < MaxSequence
    /\ sequence' = sequence + 1
    /\ UNCHANGED <<run, pending, thread, playouts, broken, restarts, deaths>>

(* The caller names the current sequence, has advice, and compares the     *)
(* same candidates: a run of it that is busy or ready is returned.         *)
EnqueueSimulation(r) ==
    /\ run[r].status = "none" /\ \A q \in 1..(r - 1) : run[q].status # "none"
    /\ \A q \in Runs : ~(run[q].sequence = sequence /\ run[q].status \in Busy \cup {"ready"})
    /\ run' = [run EXCEPT ![r].status = "queued", ![r].sequence = sequence]
    /\ pending' = Append(pending, r)
    /\ UNCHANGED <<sequence, thread, playouts, broken, restarts, deaths>>

-----------------------------------------------------------------------------
(* _complete_simulation.                                                   *)
Begin ==
    /\ thread.at = "idle" /\ pending # <<>>
    /\ pending' = Tail(pending)
    /\ IF run[Head(pending)].status = "queued"
       THEN /\ Become(Head(pending), "running")
            /\ thread' = [row |-> Head(pending), at |-> "submitting", seen |-> 0]
       ELSE UNCHANGED <<run, thread>>
    /\ UNCHANGED <<sequence, playouts, broken, restarts, deaths>>

(* submit is outside the try: on a broken pool it ends the task.           *)
Submit ==
    /\ thread.at = "submitting"
    /\ IF broken
       THEN thread' = Idle /\ UNCHANGED playouts
       ELSE /\ thread' = [thread EXCEPT !.at = "waiting"]
            /\ playouts' = Append(playouts, thread.row)
    /\ UNCHANGED <<sequence, run, pending, broken, restarts, deaths>>

(* The process ends its playouts, which somebody may still wait for.       *)
Simulate ==
    /\ playouts # <<>> /\ ~broken
    /\ playouts' = Tail(playouts)
    /\ run' = [run EXCEPT ![Head(playouts)].endedAt = sequence]
    /\ thread' = IF thread.at = "waiting" /\ thread.row = Head(playouts)
                 THEN [thread EXCEPT !.at = "reading"] ELSE thread
    /\ UNCHANGED <<sequence, pending, broken, restarts, deaths>>

(* After two seconds the row is given up; playouts the process has taken   *)
(* go on.                                                                  *)
TimeOut ==
    /\ thread.at = "waiting"
    /\ Become(thread.row, "timed_out")
    /\ \/ UNCHANGED playouts
       \/ \E i \in 2..Len(playouts) :
            playouts[i] = thread.row /\ playouts' = RemoveAt(playouts, i)
    /\ thread' = Idle
    /\ UNCHANGED <<sequence, pending, broken, restarts, deaths>>

(* The process is killed: who waits for it gets the exception.             *)
ProcessDies ==
    /\ deaths < MaxDeaths /\ ~broken
    /\ deaths' = deaths + 1
    /\ broken' = TRUE
    /\ playouts' = <<>>
    /\ IF thread.at = "waiting"
       THEN Become(thread.row, "failed") /\ thread' = Idle
       ELSE UNCHANGED <<run, thread>>
    /\ UNCHANGED <<sequence, pending, restarts>>

(* The draft is read when the result is there, and the row committed.      *)
ReadDraft ==
    /\ thread.at = "reading"
    /\ thread' = [thread EXCEPT !.at = "committing", !.seen = sequence]
    /\ UNCHANGED <<sequence, run, pending, playouts, broken, restarts, deaths>>

(* Mutant: without a look at the draft.                                    *)
PublishUnread ==
    /\ thread.at = "committing"
    /\ Become(thread.row, "ready")
    /\ thread' = Idle
    /\ UNCHANGED <<sequence, pending, playouts, broken, restarts, deaths>>

Publish ==
    /\ thread.at = "committing"
    /\ Become(thread.row, IF thread.seen = run[thread.row].sequence THEN "ready" ELSE "stale")
    /\ thread' = Idle
    /\ UNCHANGED <<sequence, pending, playouts, broken, restarts, deaths>>

(* The application restarts: recover_interrupted_computations.             *)
Restart ==
    /\ restarts < MaxRestarts
    /\ restarts' = restarts + 1
    /\ run' = [r \in Runs |-> IF run[r].status \in Busy
                              THEN [run[r] EXCEPT !.status = "interrupted"] ELSE run[r]]
    /\ pending' = <<>> /\ playouts' = <<>> /\ thread' = Idle /\ broken' = FALSE
    /\ UNCHANGED <<sequence, deaths>>

CompleteSimulation == Begin \/ Submit \/ TimeOut \/ ReadDraft \/ Publish

Next ==
    \/ DraftEvent
    \/ \E r \in Runs : EnqueueSimulation(r)
    \/ CompleteSimulation
    \/ Simulate \/ ProcessDies \/ Restart

Spec == Init /\ [][Next]_vars

FairSpec == Spec /\ WF_vars(CompleteSimulation)

-----------------------------------------------------------------------------
(* A result that is published belongs to the draft as it was when the      *)
(* playouts ended, never to one that had moved on (_complete_simulation).  *)
ReadyIsCurrent == \A r \in Runs : run[r].status = "ready" => run[r].endedAt = run[r].sequence

(* A simulation somebody polls does not stay busy for ever, as long as the *)
(* playout process lives.                                                  *)
SimulationsEnd ==
    \A r \in Runs : run[r].status \in Busy ~> (run[r].status \notin Busy \/ broken)
=============================================================================
