-------------------------- MODULE DraftCoordinator --------------------------
(***************************************************************************)
(* How concurrent requests mutate one draft session: the session's lock,   *)
(* SQLite's write reservation, the request's idempotency key and expected  *)
(* sequence, the unique constraints of draft_events, and the snapshot      *)
(* published by a second commit.                                           *)
(* Source: backend/app/draft/events.py, the common frame of the mutations  *)
(* in backend/app/draft/session.py, publish_recommendation_snapshot of     *)
(* recommendations.py and backend/app/db.py.                               *)
(*                                                                         *)
(* What a mutation decides beyond its key and sequence is left to          *)
(* DraftLog, whose steps are this module's commits; the one to three rows  *)
(* a request adds in its transaction are one row here.  Each attempt of a  *)
(* request runs in a thread of its own; competing tabs and repeated sends  *)
(* make several attempts under one key, all expecting the same sequence    *)
(* (the key of an automatic pick is made of it).  A reply may be lost, a   *)
(* statement may time out waiting for SQLite's writer, and the process may *)
(* stop anywhere.                                                          *)
(***************************************************************************)
EXTENDS Integers, Sequences, FiniteSets

CONSTANTS
  Threads,        \* server threads
  Requests,       \* idempotency keys
  NoOne,          \* nobody holds a lock, a thread serves nothing
  Outsider,       \* a writer of other tables
  MaxTries,       \* bound on the attempts of each request
  MaxCrashes      \* bound on process stops

ThreadsAssumption == NoOne \notin Threads \cup Requests /\ Outsider \notin Threads \cup {NoOne}
BoundsAssumption == MaxTries \in Nat /\ MaxCrashes \in Nat

VARIABLES
  rows,           \* committed draft_events rows, in commit order
  sequence,       \* committed DraftSession.current_sequence
  published,      \* sequences with a committed recommendation snapshot
  lock,           \* holder of the session's RLock
  writer,         \* holder of SQLite's write reservation
  pc,             \* where each thread is
  serving,        \* the request each thread serves
  seen,           \* current_sequence in each thread's identity map
  expected,       \* expected_sequence of each request
  tries,          \* attempts made of each request
  answer,         \* what the client of each request knows of it
  crashes         \* process stops so far

database == << rows, sequence, published >>
clients == << expected, tries >>
vars == << database, lock, writer, pc, serving, seen, clients, answer, crashes >>

Places == { "idle", "received", "loaded", "locked", "begun", "appended", "committed",
            "publishing" }
Answers == { "none", "ok", "conflict", "error" }

Recorded(r) == \E i \in 1..Len(rows) : rows[i].key = r

MoveTo(t, place) == pc' = [ pc EXCEPT ![t] = place ]

(* The client learns a from the reply; an error tells it nothing it did    *)
(* not know, so it does not replace a success or a conflict.               *)
Told(r, a) ==
  [ answer EXCEPT ![r] = IF a = "error" /\ @ \in {"ok", "conflict"} THEN @ ELSE a ]

(* The attempt ends: the lock is released, an open transaction rolled      *)
(* back, and the answer reaches the client or is lost.                     *)
Finish(t, a) ==
  /\ MoveTo(t, "idle")
  /\ serving' = [ serving EXCEPT ![t] = NoOne ]
  /\ lock' = NoOne
  /\ writer' = IF writer = t THEN NoOne ELSE writer
  /\ answer' \in { answer, Told(serving[t], a) }
  /\ UNCHANGED << seen, clients, crashes >>

----------------------------------------------------------------------------
(* The client sends a request, based on any sequence it has seen.          *)
Submit(t) ==
  \E r \in Requests, n \in 0..sequence :
    /\ pc[t] = "idle"
    /\ tries[r] < MaxTries
    /\ tries[r] > 0 => n = expected[r]
    /\ MoveTo(t, "received")
    /\ serving' = [ serving EXCEPT ![t] = r ]
    /\ expected' = [ expected EXCEPT ![r] = n ]
    /\ tries' = [ tries EXCEPT ![r] = @ + 1 ]
    /\ UNCHANGED << database, lock, writer, seen, answer, crashes >>

(* The handler's dependencies read the session before the mutation.        *)
LoadSession(t) ==
  /\ pc[t] = "received"
  /\ MoveTo(t, "loaded")
  /\ seen' = [ seen EXCEPT ![t] = sequence ]
  /\ UNCHANGED << database, lock, writer, serving, clients, answer, crashes >>

AcquireLock(t) ==
  /\ pc[t] = "loaded"
  /\ lock = NoOne
  /\ lock' = t
  /\ MoveTo(t, "locked")
  /\ UNCHANGED << database, writer, serving, seen, clients, answer, crashes >>

(* Mutant: the transaction of the earlier read is kept, with its rows.     *)
BeginOnOldRead(t) ==
  /\ pc[t] = "locked"
  /\ writer = NoOne
  /\ writer' = t
  /\ MoveTo(t, "begun")
  /\ UNCHANGED << database, lock, serving, seen, clients, answer, crashes >>

(* The earlier read transaction is rolled back, which expires what it      *)
(* loaded; BEGIN IMMEDIATE then reserves the writer and the session is     *)
(* read again.                                                             *)
BeginImmediate(t) ==
  /\ pc[t] = "locked"
  /\ writer = NoOne
  /\ writer' = t
  /\ MoveTo(t, "begun")
  /\ seen' = [ seen EXCEPT ![t] = sequence ]
  /\ UNCHANGED << database, lock, serving, clients, answer, crashes >>

(* Mutant: the lock is not released when the writer is busy. *)
TimeoutKeepingLock(t) ==
  /\ pc[t] = "locked"
  /\ writer # NoOne
  /\ MoveTo(t, "idle")
  /\ serving' = [ serving EXCEPT ![t] = NoOne ]
  /\ UNCHANGED << database, lock, writer, seen, clients, answer, crashes >>

(* busy_timeout: the writer stayed reserved for five seconds. *)
BusyTimeout(t) ==
  /\ pc[t] \in {"locked", "publishing"}
  /\ writer # NoOne
  /\ Finish(t, "error")
  /\ UNCHANGED database

(* Mutant: the sequence is checked before the key. *)
CheckSequenceFirst(t) ==
  /\ pc[t] = "begun"
  /\ UNCHANGED database
  /\ \/ /\ seen[t] # expected[serving[t]]
        /\ Finish(t, "conflict")
     \/ /\ seen[t] = expected[serving[t]] /\ Recorded(serving[t])
        /\ Finish(t, "ok")
     \/ /\ seen[t] = expected[serving[t]] /\ ~ Recorded(serving[t])
        /\ MoveTo(t, "appended")
        /\ UNCHANGED << lock, writer, serving, seen, clients, answer, crashes >>

(* A known key returns the event it was used for; otherwise the request    *)
(* must expect the current sequence.                                       *)
Check(t) ==
  /\ pc[t] = "begun"
  /\ UNCHANGED database
  /\ \/ /\ Recorded(serving[t])
        /\ Finish(t, "ok")
     \/ /\ ~ Recorded(serving[t]) /\ seen[t] # expected[serving[t]]
        /\ Finish(t, "conflict")
     \/ /\ ~ Recorded(serving[t]) /\ seen[t] = expected[serving[t]]
        /\ MoveTo(t, "appended")
        /\ UNCHANGED << lock, writer, serving, seen, clients, answer, crashes >>

Violates(t) ==
  Recorded(serving[t]) \/ \E i \in 1..Len(rows) : rows[i].sequence = seen[t] + 1

(* The event and the new sequence are committed together, unless a unique  *)
(* constraint on (session, sequence) or (session, key) refuses them.       *)
Commit(t) ==
  /\ pc[t] = "appended"
  /\ IF Violates(t)
     THEN Finish(t, "conflict") /\ UNCHANGED database
     ELSE /\ rows' = Append(rows, [ key |-> serving[t], sequence |-> seen[t] + 1 ])
          /\ sequence' = seen[t] + 1
          /\ writer' = NoOne
          /\ MoveTo(t, "committed")
          /\ UNCHANGED << published, lock, serving, seen, clients, answer, crashes >>

(* Still under the lock, the advice of the new sequence is looked up ...   *)
LookUpAdvice(t) ==
  /\ pc[t] = "committed"
  /\ IF sequence \in published
     THEN Finish(t, "ok")
     ELSE /\ MoveTo(t, "publishing")
          /\ UNCHANGED << lock, writer, serving, seen, clients, answer, crashes >>
  /\ UNCHANGED database

(* ... and inserted.  A reader that published it in between makes the      *)
(* insert violate uq_draft_recommendation_input: the client is told of an  *)
(* error although its event is committed.                                  *)
Publish(t) ==
  /\ pc[t] = "publishing"
  /\ writer = NoOne
  /\ published' = published \cup {sequence}
  /\ Finish(t, IF sequence \in published THEN "error" ELSE "ok")
  /\ UNCHANGED << rows, sequence >>

----------------------------------------------------------------------------
(* latest_recommendation_payload of a reader, without the session's lock.  *)
ReaderPublishes ==
  /\ writer = NoOne
  /\ published' = published \cup {sequence}
  /\ UNCHANGED << rows, sequence, lock, writer, pc, serving, seen, clients, answer, crashes >>

OutsiderWrites ==
  /\ writer \in {NoOne, Outsider}
  /\ writer' = IF writer = NoOne THEN Outsider ELSE NoOne
  /\ UNCHANGED << database, lock, pc, serving, seen, clients, answer, crashes >>

(* The process stops: what was not committed is gone, no reply is sent,    *)
(* and the locks of the next process are free.                             *)
Crash ==
  /\ crashes < MaxCrashes
  /\ crashes' = crashes + 1
  /\ pc' = [ t \in Threads |-> "idle" ]
  /\ serving' = [ t \in Threads |-> NoOne ]
  /\ lock' = NoOne
  /\ writer' = NoOne
  /\ UNCHANGED << database, seen, clients, answer >>

----------------------------------------------------------------------------
Init ==
  /\ rows = <<>> /\ sequence = 0 /\ published = {}
  /\ lock = NoOne /\ writer = NoOne
  /\ pc = [ t \in Threads |-> "idle" ]
  /\ serving = [ t \in Threads |-> NoOne ]
  /\ seen = [ t \in Threads |-> 0 ]
  /\ expected = [ r \in Requests |-> 0 ]
  /\ tries = [ r \in Requests |-> 0 ]
  /\ answer = [ r \in Requests |-> "none" ]
  /\ crashes = 0

Attempt(t) ==
  \/ LoadSession(t) \/ AcquireLock(t) \/ BeginImmediate(t) \/ BusyTimeout(t)
  \/ Check(t) \/ Commit(t) \/ LookUpAdvice(t) \/ Publish(t)

Next ==
  \/ \E t \in Threads : Submit(t) \/ Attempt(t)
  \/ ReaderPublishes \/ OutsiderWrites \/ Crash

(* A thread that can go on does, and a statement waits for the writer at   *)
(* most five seconds.                                                      *)
Spec == Init /\ [][Next]_vars /\ \A t \in Threads : WF_vars(Attempt(t))

----------------------------------------------------------------------------
(* Properties.                                                             *)

(* The session's lock is held exactly by the thread inside                 *)
(* session_mutation, SQLite's writer by the one inside its transaction.    *)
LocksHeld ==
  \A t \in Threads :
    /\ pc[t] \in Places \ {"idle", "received", "loaded"} <=> lock = t
    /\ pc[t] \in {"begun", "appended"} <=> writer = t
    /\ pc[t] = "idle" <=> serving[t] = NoOne

(* Every variable has its type, and the locks are given back whichever way *)
(* an attempt ends.                                                        *)
TypeOK ==
  /\ rows \in Seq([ key : Requests, sequence : Nat ])
  /\ sequence \in Nat /\ published \subseteq Nat
  /\ lock \in Threads \cup {NoOne} /\ writer \in Threads \cup {NoOne, Outsider}
  /\ pc \in [ Threads -> Places ]
  /\ serving \in [ Threads -> Requests \cup {NoOne} ]
  /\ seen \in [ Threads -> Nat ]
  /\ expected \in [ Requests -> Nat ] /\ tries \in [ Requests -> 0..MaxTries ]
  /\ answer \in [ Requests -> Answers ]
  /\ crashes \in 0..MaxCrashes
  /\ LocksHeld

(* What a thread decided on is still so when it commits: the lock and the  *)
(* reservation alone keep the unique constraints from ever refusing.       *)
LocksSuffice == \A t \in Threads : pc[t] = "appended" => ~ Violates(t)

(* Each event extends exactly the log its client had seen, and the events  *)
(* are numbered without gaps, whatever was retried, lost or interrupted.   *)
ExtendsWhatWasSeen ==
  /\ sequence = Len(rows)
  /\ \A i \in 1..Len(rows) :
       rows[i].sequence = i /\ expected[rows[i].key] = i - 1

(* The coordinator implements the ledger: a key is entered at most once, a *)
(* reported success is durable, and a reported conflict is final.          *)
Ledger == INSTANCE DraftLedger WITH entries <- [ i \in 1..Len(rows) |-> rows[i].key ]

ImplementsLedger == Ledger!LedgerSpec

(* Every attempt ends, whoever holds the lock or the writer meanwhile.     *)
AttemptsEnd == \A t \in Threads : pc[t] # "idle" ~> pc[t] = "idle"
=============================================================================
