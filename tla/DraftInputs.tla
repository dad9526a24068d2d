---------------------------- MODULE DraftInputs ----------------------------
(***************************************************************************)
(* Draft inputs the owner uploads (draft/inputs.py): previews that are     *)
(* staged, expire and are committed to datasets, by threads that read with *)
(* one statement and write in a transaction begun later.                   *)
(***************************************************************************)
EXTENDS Integers, Sequences, FiniteSets

CONSTANTS Threads,      \* handlers of commits and previews
          Contents,     \* contents of the files (content_hash, dataset_hash)
          MaxStaged,    \* MAX_PREVIEWS
          MaxPreviews,  \* bounds on the previews of one league,
          MaxDatasets,  \* the datasets
          MaxCrashes    \* and the crashes

DraftInputsAssumption ==
    /\ IsFiniteSet(Threads) /\ "none" \notin Threads
    /\ IsFiniteSet(Contents) /\ Contents # {}
    /\ MaxStaged \in Nat \ {0}
    /\ \A n \in {MaxPreviews, MaxDatasets, MaxCrashes} : n \in Nat

VARIABLES
    preview,    \* DraftInputPreview, in the order of creation
    dataset,    \* ProjectionSnapshot and DraftRankingSnapshot, by id
    writer,     \* the thread whose transaction writes, "none", or an outsider's
    thread,     \* each thread: what it serves, where it is, what it has read
    answers,    \* history: the datasets each preview's commits have answered
    crashes

vars == <<preview, dataset, writer, thread, answers, crashes>>

Kinds == {"projection", "ranking"}

NoDataset == 0

Idle == [at |-> "idle", preview |-> 0, seen |-> {}, own |-> NoDataset]

Places == {"idle", "loaded", "writing", "looked", "inserted", "expiring"}

PreviewRows == [kind : Kinds, content : Contents, old : BOOLEAN, blocked : BOOLEAN,
                status : {"staged", "committed", "expired"}, result : 0..MaxDatasets]

DatasetRows == [kind : Kinds, content : Contents]

ThreadStates == [at : Places, preview : 0..MaxPreviews, seen : SUBSET (1..MaxPreviews),
                 own : -1..MaxDatasets]

TypeOK ==
    /\ preview \in Seq(PreviewRows) /\ Len(preview) <= MaxPreviews
    /\ dataset \in Seq(DatasetRows)
    /\ writer \in Threads \cup {"none"}
    /\ thread \in [Threads -> ThreadStates]
    /\ answers \in [1..MaxPreviews -> SUBSET (1..MaxDatasets)]
    /\ crashes \in 0..MaxCrashes

Init ==
    /\ preview = <<>> /\ dataset = <<>>
    /\ writer = "none"
    /\ thread = [t \in Threads |-> Idle]
    /\ answers = [p \in 1..MaxPreviews |-> {}]
    /\ crashes = 0

Previews == DOMAIN preview

Staged == {p \in Previews : preview[p].status = "staged"}

(* The previews the next one leaves behind: those whose hour is over and   *)
(* the oldest beyond MAX_PREVIEWS - 1.                                     *)
Outdated ==
    LET kept == {p \in Staged : ~preview[p].old}
    IN  (Staged \ kept) \cup
        {p \in kept : Cardinality({q \in kept : q >= p}) >= MaxStaged}

At(t, place) == thread[t].at = place

MoveTo(t, place) == thread' = [thread EXCEPT ![t].at = place]

End(t) == thread' = [thread EXCEPT ![t] = Idle]

MayWrite(t) == writer \in {"none", t}

Of(t) == preview[thread[t].preview]

Matches(n, p) == dataset[n].kind = preview[p].kind /\ dataset[n].content = preview[p].content

-----------------------------------------------------------------------------
(* The hour of a preview is over.                                          *)
Age(p) ==
    /\ ~preview[p].old
    /\ preview' = [preview EXCEPT ![p].old = TRUE]
    /\ UNCHANGED <<dataset, writer, thread, answers, crashes>>

(* preview_input selects the previews it will mark ...                     *)
LoadStaged(t) ==
    /\ At(t, "idle") /\ Len(preview) < MaxPreviews
    /\ thread' = [thread EXCEPT ![t].at = "expiring", ![t].seen = Outdated]
    /\ UNCHANGED <<preview, dataset, writer, answers, crashes>>

(* ... and commits the marks with the new preview.                         *)
StagePreview(t) ==
    /\ At(t, "expiring") /\ writer = "none" /\ Len(preview) < MaxPreviews
    /\ \E k \in Kinds, c \in Contents, b \in BOOLEAN :
        preview' = Append([p \in Previews |-> IF p \in thread[t].seen
                                              THEN [preview[p] EXCEPT !.status = "expired"]
                                              ELSE preview[p]],
                          [kind |-> k, content |-> c, old |-> FALSE, blocked |-> b,
                           status |-> "staged", result |-> NoDataset])
    /\ End(t)
    /\ UNCHANGED <<dataset, writer, answers, crashes>>

-----------------------------------------------------------------------------
(* commit_input reads the preview once.                                    *)
LoadPreview(t) ==
    /\ At(t, "idle")
    /\ \E p \in Previews :
        CASE preview[p].status = "committed" ->
                /\ answers' = [answers EXCEPT ![p] = @ \cup {preview[p].result}]
                /\ UNCHANGED <<preview, thread>>
          [] preview[p].status = "expired" \/ (preview[p].status = "staged" /\ preview[p].old) ->
                /\ writer = "none"
                /\ preview' = [preview EXCEPT ![p].status = "expired"]
                /\ UNCHANGED <<thread, answers>>
          [] OTHER ->
                /\ ~preview[p].blocked
                /\ thread' = [thread EXCEPT ![t].at = "loaded", ![t].preview = p]
                /\ UNCHANGED <<preview, answers>>
    /\ UNCHANGED <<dataset, writer, crashes>>

(* ensure_player_athlete: players without an identity get one, which       *)
(* begins the transaction; otherwise nothing is written yet.               *)
EnsureAthletes(t) ==
    /\ At(t, "loaded")
    /\ \/ MayWrite(t) /\ writer' = t
       \/ UNCHANGED writer
    /\ MoveTo(t, "writing")
    /\ UNCHANGED <<preview, dataset, answers, crashes>>

(* The dataset of the same hash and kind, if there is one.                 *)
LookUpDataset(t) ==
    /\ At(t, "writing")
    /\ thread' = [thread EXCEPT ![t].at = "looked",
                                ![t].own = LET found == {n \in DOMAIN dataset :
                                                            Matches(n, thread[t].preview)}
                                           IN  IF found = {} THEN NoDataset
                                               ELSE CHOOSE n \in found : TRUE]
    /\ UNCHANGED <<preview, dataset, writer, answers, crashes>>

(* Only projections are unique by their hash (uq_projection_dataset).      *)
Conflicting(t) ==
    \E n \in DOMAIN dataset : dataset[n].kind = "projection" /\ Matches(n, thread[t].preview)

(* The INSERT, which waits for the writer.  Rows of a transaction that is  *)
(* not committed are seen by nobody: own = -1 stands for the new row.      *)
InsertDataset(t) ==
    /\ At(t, "looked") /\ MayWrite(t)
    /\ \/ /\ thread[t].own # NoDataset
          /\ writer' = t
          /\ MoveTo(t, "inserted")
       \/ /\ thread[t].own = NoDataset /\ ~Conflicting(t)
          /\ Len(dataset) < MaxDatasets
          /\ writer' = t
          /\ thread' = [thread EXCEPT ![t].at = "inserted", ![t].own = -1]
       \/ /\ thread[t].own = NoDataset /\ Conflicting(t)
          /\ writer' = "none"
          /\ End(t)
    /\ UNCHANGED <<preview, dataset, answers, crashes>>

(* The commit of the dataset and of the preview's result, and the answer,  *)
(* which may be lost.                                                      *)
CommitInput(t) ==
    /\ At(t, "inserted")
    /\ LET p      == thread[t].preview
           result == IF thread[t].own = -1 THEN Len(dataset) + 1 ELSE thread[t].own
       IN  /\ dataset' = IF thread[t].own = -1
                         THEN Append(dataset, [kind |-> Of(t).kind, content |-> Of(t).content])
                         ELSE dataset
           /\ preview' = [preview EXCEPT ![p].status = "committed", ![p].result = result]
           /\ answers' \in {answers, [answers EXCEPT ![p] = @ \cup {result}]}
    /\ writer' = "none"
    /\ End(t)
    /\ UNCHANGED crashes

(* The writer was not free for five seconds.                               *)
BusyTimeout(t) ==
    /\ thread[t].at \in {"loaded", "looked", "expiring"} /\ ~MayWrite(t)
    /\ End(t)
    /\ UNCHANGED <<preview, dataset, writer, answers, crashes>>

Crash ==
    /\ crashes < MaxCrashes
    /\ crashes' = crashes + 1
    /\ thread' = [t \in Threads |-> Idle]
    /\ writer' = "none"
    /\ UNCHANGED <<preview, dataset, answers>>

Next ==
    \/ \E p \in Previews : Age(p)
    \/ \E t \in Threads :
        \/ LoadStaged(t) \/ StagePreview(t) \/ LoadPreview(t) \/ EnsureAthletes(t)
        \/ LookUpDataset(t) \/ InsertDataset(t) \/ CommitInput(t) \/ BusyTimeout(t)
    \/ Crash

Spec == Init /\ [][Next]_vars

-----------------------------------------------------------------------------
(* Whoever commits a preview of projections, at once or again, is answered *)
(* with the same dataset, and every answer names a stored dataset of the   *)
(* kind and content that was previewed (commit_input).  Rankings have no   *)
(* unique content: two commits of one preview can each make a ranking.     *)
ProjectionsCommitOnce ==
    \A p \in Previews :
        LET named == answers[p] \cup ({preview[p].result} \ {NoDataset})
        IN  /\ \A n \in named : n \in DOMAIN dataset /\ Matches(n, p)
            /\ preview[p].kind = "projection" => \A m, n \in named : m = n
=============================================================================
