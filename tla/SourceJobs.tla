----------------------------- MODULE SourceJobs -----------------------------
(***************************************************************************)
(* One background source job (scheduler.py): its JobRun rows, the lease    *)
(* that keeps two workers from executing it together, the delays between   *)
(* its runs, and what a stop leaves for the next startup.                  *)
(***************************************************************************)
EXTENDS Integers, Sequences, FiniteSets

CONSTANTS Workers,      \* processes that share the data volume
          Interval,     \* interval_minutes of the job
          Cooldown,     \* source_failure_cooldown_minutes
          LongRetry,    \* what a source may ask for (Retry-After)
          MaxTime,      \* bounds on the clock,
          MaxRows,      \* the rows
          MaxStops      \* and the stops of workers

SourceJobsAssumption ==
    /\ IsFiniteSet(Workers) /\ Workers # {}
    /\ \A n \in {Interval, Cooldown, LongRetry, MaxTime, MaxRows, MaxStops} : n \in Nat

VARIABLES
    deployed,   \* the workers of this installation
    now,        \* the clock
    rows,       \* JobRun of this job, by id
    task,       \* the row each worker executes, 0 for none, or that it is down
    stops

vars == <<deployed, now, rows, task, stops>>

Never == -1

Down == -1

JobRuns == [status : {"running", "completed", "skipped", "partial", "failed", "interrupted"},
            started : 0..MaxTime, done : 0..MaxTime \cup {Never}, retry : Nat]

TypeOK ==
    /\ deployed \in SUBSET Workers
    /\ now \in 0..MaxTime
    /\ rows \in Seq(JobRuns)
    /\ task \in [Workers -> 0..Len(rows) \cup {Down}]
    /\ stops \in 0..MaxStops

Init ==
    /\ deployed \in SUBSET Workers \ {{}}
    /\ now = 0
    /\ rows = <<>>
    /\ task = [w \in Workers |-> IF w \in deployed THEN 0 ELSE Down]
    /\ stops = 0

Tick ==
    /\ now < MaxTime
    /\ now' = now + 1
    /\ UNCHANGED <<deployed, rows, task, stops>>

(* job_lock(job_type) is free; a stop of its holder frees it.              *)
LeaseFree == \A w \in Workers : task[w] < 1

(* The latest row decides: its retry time, then the interval.              *)
IsDue ==
    rows # <<>> =>
        LET previous == rows[Len(rows)]
        IN  /\ now >= previous.retry
            /\ previous.done # Never => now >= previous.done + Interval

(* _run_source_job up to its operation; otherwise it answers running,      *)
(* cooldown or not_due and changes nothing.                                *)
StartJob(w) ==
    /\ task[w] = 0 /\ LeaseFree /\ IsDue
    /\ Len(rows) < MaxRows
    /\ rows' = Append(rows, [status |-> "running", started |-> now, done |-> Never, retry |-> 0])
    /\ task' = [task EXCEPT ![w] = Len(rows')]
    /\ UNCHANGED <<deployed, now, stops>>

Save(w, status, retry) ==
    rows' = [rows EXCEPT ![task[w]].status = status, ![task[w]].done = now,
                         ![task[w]].retry = retry]

Later(seconds) == IF seconds > Cooldown THEN now + seconds ELSE now + Cooldown

(* The operation returns, or raises, perhaps with a retry time of its own. *)
FinishJob(w) ==
    /\ task[w] > 0
    /\ \/ \E status \in {"completed", "skipped"} : Save(w, status, 0)
       \/ \E status \in {"partial", "failed"} : Save(w, status, now + Cooldown)
       \/ \E seconds \in {0, LongRetry} : Save(w, "failed", Later(seconds))
    /\ task' = [task EXCEPT ![w] = 0]
    /\ UNCHANGED <<deployed, now, stops>>

(* A shutdown cancels the operation, which is recorded as interrupted ...  *)
Shutdown(w) ==
    /\ task[w] # Down /\ stops < MaxStops
    /\ stops' = stops + 1
    /\ IF task[w] > 0 THEN Save(w, "interrupted", 0) ELSE UNCHANGED rows
    /\ task' = [task EXCEPT ![w] = Down]
    /\ UNCHANGED <<deployed, now>>

(* ... a crash records nothing.                                            *)
Crash(w) ==
    /\ task[w] # Down /\ stops < MaxStops
    /\ stops' = stops + 1
    /\ task' = [task EXCEPT ![w] = Down]
    /\ UNCHANGED <<deployed, now, rows>>

(* recover_source_jobs at the next startup, unless the lease is held.      *)
RecoverSourceJobs(w) ==
    /\ w \in deployed /\ task[w] = Down
    /\ rows' = [n \in DOMAIN rows |->
                  IF LeaseFree /\ rows[n].status = "running"
                  THEN [rows[n] EXCEPT !.status = "interrupted", !.done = now] ELSE rows[n]]
    /\ task' = [task EXCEPT ![w] = 0]
    /\ UNCHANGED <<deployed, now, stops>>

Running(n) == n \in DOMAIN rows /\ rows[n].status = "running"

Next ==
    \/ Tick
    \/ \E w \in Workers :
        StartJob(w) \/ FinishJob(w) \/ Shutdown(w) \/ Crash(w) \/ RecoverSourceJobs(w)

Spec == Init /\ [][Next]_vars

(* The clock goes on, an operation has timeouts, the container restarts    *)
(* and the scheduler calls again.                                          *)
FairSpec ==
    /\ Spec
    /\ WF_vars(Tick)
    /\ \A w \in Workers :
        WF_vars(StartJob(w)) /\ WF_vars(FinishJob(w)) /\ WF_vars(RecoverSourceJobs(w))

-----------------------------------------------------------------------------
(* No run of the job begins before the retry time of any failure before    *)
(* it, through shutdowns, crashes and recoveries (_run_source_job).        *)
CooldownsHonoured ==
    \A n \in DOMAIN rows : \A m \in 1..(n - 1) : rows[n].started >= rows[m].retry

(* Two workers do not execute the job together, and no recovery ends a run *)
(* that is executed (recover_source_jobs).                                 *)
OneLiveRun ==
    /\ Cardinality({w \in Workers : task[w] > 0}) <= 1
    /\ \A w \in Workers : task[w] > 0 => rows[task[w]].status = "running"

(* Where one process is deployed, no run stays under way for ever: it is   *)
(* finished, interrupted, or recovered by the next startup.                *)
JobsEnd ==
    \A n \in 1..MaxRows : (Cardinality(deployed) = 1 /\ Running(n)) ~> ~Running(n)
=============================================================================
