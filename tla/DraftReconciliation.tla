------------------------ MODULE DraftReconciliation ------------------------
(***************************************************************************)
(* A draft session that also follows Yahoo: the source mode, the picks     *)
(* Yahoo reports, the batch that reconciles them with the board, and the   *)
(* conflicts left to the owner.                                            *)
(* Source: backend/app/draft/reconciliation.py, sync_draft_yahoo of        *)
(* backend/app/draft/router.py, and the draft_picks rows written by        *)
(* backend/app/services/yahoo_scraper.py.                                  *)
(*                                                                         *)
(* A report names an overall pick and a player; its team is always the     *)
(* snake team of the pick (_legacy_yahoo_observations), and its provider   *)
(* key and revision are as distinct as the pick and player are.  A player  *)
(* may be a placeholder the scraper made for a pick whose player it did    *)
(* not know.  A conflict is identified by its report, as the unique        *)
(* constraint on provider key and revision identifies it.                  *)
(***************************************************************************)
EXTENDS DraftLog

CONSTANTS
  Reports,        \* [overall, player] reports Yahoo may come to show
  Placeholders    \* <<q, n, p>>: q is the placeholder of player p at pick n

ASSUME ReportsAssumption == Reports \subseteq [ overall : PickNumbers, player : Players ]
ASSUME PlaceholdersAssumption == Placeholders \subseteq Players \X PickNumbers \X Players

VARIABLES
  keys,           \* the idempotency key of each event of log
  feed,           \* league draft_picks rows: the player Yahoo shows per pick
  conflicts       \* the conflict row of each report, or NoConflict

reconciliationVars == << log, board, status, setup, sourceMode, inputs, advice, roster,
                         keys, feed, conflicts >>

----------------------------------------------------------------------------
(* Keys and conflict rows.                                                 *)

KeyKinds == { "client", "mode", "yahoo", "complete", "resolve", "resolve_reverse" }
Keys == [ kind : KeyKinds, mode : SourceModes, overall : 0..MaxPicks,
          player : Players \cup {NoPlayer}, at : Nat ]

Key(kind, at) ==
  [ kind |-> kind, mode |-> ManualMode, overall |-> 0, player |-> NoPlayer, at |-> at ]
ReportKey(kind, report, mode, at) ==
  [ kind |-> kind, mode |-> mode, overall |-> report.overall, player |-> report.player, at |-> at ]

YahooKey(report) == ReportKey("yahoo", report, sourceMode, 0)

(* Mutant: the key of a resolution forgets when the conflict was detected. *)
ResolutionKeyOnce(kind, report, detected) == ReportKey(kind, report, ManualMode, 0)

ResolutionKey(kind, report, detected) == ReportKey(kind, report, ManualMode, detected)

(* A settled conflict went Yahoo's way (accept_incoming,                   *)
(* map_player_and_accept or auto_applied) or the owner dismissed it        *)
(* (keep_canonical or ignore_incoming).  The sequence it was detected at   *)
(* is kept while it is unresolved, the only time it is read.               *)
ConflictStatuses == { "none", "unresolved", "accepted", "dismissed" }
Conflict == [ status : ConflictStatuses, detected : Nat ]
Settled(way) == [ status |-> way, detected |-> 0 ]
NoConflict == Settled("none")
Unresolved(sequence) == [ status |-> "unresolved", detected |-> sequence ]

(* Mutant: any settled conflict is raised again. *)
ProposedAgain(conflict, sequence) ==
  IF conflict.status = "unresolved" THEN conflict ELSE Unresolved(sequence)

(* _proposal: a new conflict, or one settled in Yahoo's favour raised      *)
(* again; one the owner dismissed stays dismissed.                         *)
Proposed(conflict, sequence) ==
  IF conflict.status \in {"none", "accepted"} THEN Unresolved(sequence) ELSE conflict

AutoApplied(conflict) ==
  IF conflict.status = "unresolved" THEN Settled("accepted") ELSE conflict

----------------------------------------------------------------------------
(* reconcile_observations.  A batch is the events and keys appended so     *)
(* far, the board and conflicts as they now are, the last event applied    *)
(* and whether any report was applied or confirmed.                        *)

EmptyBatch ==
  [ events |-> <<>>, keys |-> <<>>, board |-> board, conflicts |-> conflicts,
    applied |-> 0, touched |-> FALSE ]

Authoritative == sourceMode.level = "authoritative"

LogWith(batch) == log \o batch.events
LastEvent(batch) == Len(log) + Len(batch.events)
KeyUsed(batch, key) ==
  LET all == keys \o batch.keys IN \E i \in 1..Len(all) : all[i] = key

Propose(batch, report) ==
  [ batch EXCEPT !.conflicts[report] = Proposed(@, LastEvent(batch)) ]

(* Mutant: every sync confirms again. *)
ConfirmAgain(batch, report) ==
  [ batch EXCEPT
      !.events = Append(@, PickEvent("provider_confirmed", report.overall,
                                     batch.board[report.overall].team, report.player, 0, 0)),
      !.keys = Append(@, YahooKey(report)),
      !.touched = TRUE ]

Confirm(batch, report) ==
  IF KeyUsed(batch, YahooKey(report))
  THEN [ batch EXCEPT !.touched = TRUE ]
  ELSE [ batch EXCEPT
           !.events = Append(@, PickEvent("provider_confirmed", report.overall,
                                          batch.board[report.overall].team, report.player, 0, 0)),
           !.keys = Append(@, YahooKey(report)),
           !.touched = TRUE ]

Apply(batch, report, event) ==
  [ events |-> Append(batch.events, event),
    keys |-> Append(batch.keys, YahooKey(report)),
    board |-> [ batch.board EXCEPT ![report.overall] =
                  Pick(LastEvent(batch) + 1, event.player, event.team) ],
    conflicts |-> [ batch.conflicts EXCEPT ![report] = AutoApplied(@) ],
    applied |-> LastEvent(batch) + 1,
    touched |-> TRUE ]

(* _latest_snapshot: ready advice of exactly the current sequence, if any. *)
AdviceOf(batch) == IF advice = LastEvent(batch) THEN advice ELSE 0

OwnerAdvice(batch, team) == IF team = setup.owner THEN AdviceOf(batch) ELSE 0

(* The next missing pick of the board, never applied before. *)
SafeNewPick(batch, report) ==
  /\ Authoritative /\ ~ KeyUsed(batch, YahooKey(report))
  /\ batch.board[report.overall] = Open
  /\ report.overall = PickCount(batch.board) + 1

(* Mutant: authority replaces any player Yahoo contradicts. *)
SafeOverwrite(batch, report) ==
  /\ Authoritative /\ ~ KeyUsed(batch, YahooKey(report))
  /\ batch.board[report.overall] # Open

(* The real player behind the placeholder this pick holds. *)
SafeIdentityUpgrade(batch, report) ==
  LET current == batch.board[report.overall]
  IN  /\ Authoritative /\ ~ KeyUsed(batch, YahooKey(report))
      /\ current # Open
      /\ current.team = TeamOf(report.overall)
      /\ << current.player, report.overall, report.player >> \in Placeholders

(* Mutant: a report that contradicts the board is passed over. *)
ReconcileOpenPicks(batch, report) ==
  LET n == report.overall
      current == batch.board[n]
  IN CASE n <= Total /\ current.player = report.player -> Confirm(batch, report)
       [] n <= Total /\ SafeNewPick(batch, report) ->
            Apply(batch, report,
                  PickEvent("pick_recorded", n, TeamOf(n), report.player, 0,
                            OwnerAdvice(batch, TeamOf(n))))
       [] n <= Total /\ current # Open -> batch
       [] OTHER -> Propose(batch, report)

(* One report: confirmed when the board agrees, applied when Yahoo has     *)
(* authority and the pick is safe, otherwise proposed to the owner.  No    *)
(* status is looked at, nor whether the player is on the board already.    *)
Reconcile(batch, report) ==
  LET n == report.overall
      team == TeamOf(n)
      current == batch.board[n]
  IN CASE n <= Total /\ current.player = report.player -> Confirm(batch, report)
       [] n <= Total /\ SafeIdentityUpgrade(batch, report) ->
            Apply(batch, report,
                  PickEvent("pick_replaced", n, team, report.player, current.event,
                            LogWith(batch)[current.event].advice))
       [] n <= Total /\ SafeNewPick(batch, report) ->
            Apply(batch, report,
                  PickEvent("pick_recorded", n, team, report.player, 0, OwnerAdvice(batch, team)))
       [] OTHER -> Propose(batch, report)

(* The reports in the order of their picks. *)
BatchFrom(start) ==
  LET after[n \in 0..MaxPicks] ==
        IF n = 0 THEN start
        ELSE IF feed[n] = NoPlayer THEN after[n - 1]
        ELSE Reconcile(after[n - 1], [ overall |-> n, player |-> feed[n] ])
  IN  after[MaxPicks]

Batch == BatchFrom(EmptyBatch)

(* A live board the batch filled completes the session in the same         *)
(* transaction; unlike AppendPicks it leaves the roster alone.  Advice is  *)
(* published when a report was applied or confirmed.                       *)
ReconcileObservations ==
  LET batch == Batch
      done == batch.applied # 0 /\ PickCount(batch.board) = Total /\ status = "LIVE"
  IN  /\ sourceMode # ManualMode
      /\ UNCHANGED << setup, sourceMode, inputs, roster, feed >>
      /\ log' = LogWith(batch) \o (IF done THEN <<SessionEvent("session_completed")>> ELSE <<>>)
      /\ WithinBounds(log')
      /\ keys' = keys \o batch.keys \o (IF done THEN <<Key("complete", batch.applied)>> ELSE <<>>)
      /\ board' = batch.board
      /\ conflicts' = batch.conflicts
      /\ status' = IF done THEN "COMPLETE" ELSE status
      /\ IF batch.touched THEN PublishOrCrash ELSE UNCHANGED advice

(* The scraper's upsert of one draft result, committed before the          *)
(* reconciliation of the same sync: Yahoo shows a player at one pick, and  *)
(* may correct it later.                                                   *)
ScrapeDraftResult ==
  \E report \in Reports :
    /\ \A n \in PickNumbers \ {report.overall} : feed[n] # report.player
    /\ feed' = [ feed EXCEPT ![report.overall] = report.player ]
    /\ UNCHANGED << log, board, status, setup, sourceMode, inputs, advice, roster,
                    keys, conflicts >>

----------------------------------------------------------------------------
(* resolve_conflict and change_source_mode.                                *)

DismissConflict ==
  \E report \in Reports :
    /\ conflicts[report].status = "unresolved"
    /\ conflicts' = [ conflicts EXCEPT ![report] = Settled("dismissed") ]
    /\ UNCHANGED << log, board, status, setup, sourceMode, inputs, advice, roster, keys, feed >>

(* The owner accepts Yahoo's pick, or maps it to another player: whatever  *)
(* the pick now holds is replaced, an open pick must be the next one.      *)
(* Neither the status, nor the rest of the board, nor its size is checked. *)
AcceptConflict ==
  \E report \in Reports, p \in Identified :
    LET n == report.overall
        detected == conflicts[report].detected
        team == IF board[n] = Open THEN TeamOf(n) ELSE board[n].team
        events ==
          IF board[n] = Open
          THEN <<PickEvent("pick_recorded", n, team, p, 0, OwnerAdvice(EmptyBatch, team))>>
          ELSE <<ReversalEvent(n), PickEvent("pick_replaced", n, team, p, board[n].event, 0)>>
        newKeys ==
          IF board[n] = Open THEN <<ResolutionKey("resolve", report, detected)>>
          ELSE <<ResolutionKey("resolve_reverse", report, detected),
                 ResolutionKey("resolve", report, detected)>>
    IN  /\ conflicts[report].status = "unresolved"
        /\ board[n] = Open => n = PickCount(board) + 1
        /\ log' = log \o events
        /\ WithinBounds(log')
        /\ keys' = keys \o newKeys
        /\ board' = [ board EXCEPT ![n] = Pick(Len(log'), p, team) ]
        /\ conflicts' = [ conflicts EXCEPT ![report] = Settled("accepted") ]
        /\ UNCHANGED << status, setup, sourceMode, inputs, roster, feed >>
        /\ PublishOrCrash

(* Authority only from shadow mode on the same transport, given the        *)
(* owner's confirmation or a passing rehearsal; any other mode is open.    *)
ChangeSourceMode ==
  \E mode \in SourceModes :
    /\ mode.level = "authoritative" => sourceMode = [ mode EXCEPT !.level = "shadow" ]
    /\ AppendSessionEvent("source_mode_changed")
    /\ keys' = Append(keys, [ Key("mode", Len(log) + 1) EXCEPT !.mode = mode ])
    /\ sourceMode' = mode
    /\ UNCHANGED << status, setup, inputs, roster, feed, conflicts >>
    /\ PublishOrCrash

(* An operation of the session itself: its events carry the client's key,  *)
(* which is fresh, since a known key returns the event it was used for.    *)
SessionOperation ==
  /\ Next
  /\ keys' = keys \o [ i \in 1..(Len(log') - Len(log)) |-> Key("client", Len(log) + i) ]
  /\ UNCHANGED << feed, conflicts >>

ReconciliationInit ==
  /\ Init
  /\ keys = <<>>
  /\ feed = [ n \in PickNumbers |-> NoPlayer ]
  /\ conflicts = [ report \in Reports |-> NoConflict ]

ReconciliationNext ==
  \/ SessionOperation
  \/ ScrapeDraftResult
  \/ ReconcileObservations
  \/ DismissConflict
  \/ AcceptConflict
  \/ ChangeSourceMode

ReconciliationSpec == ReconciliationInit /\ [][ReconciliationNext]_reconciliationVars

----------------------------------------------------------------------------
(* Properties.                                                             *)

(* Every variable has its type, and every event has one key. *)
ReconciliationTypeOK ==
  /\ TypeOK
  /\ keys \in Seq(Keys) /\ Len(keys) = Len(log)
  /\ feed \in [ PickNumbers -> Players \cup {NoPlayer} ]
  /\ conflicts \in [ Reports -> Conflict ]

(* Manual entry, Yahoo batches and conflict resolutions together never     *)
(* leave a hole in the board.                                              *)
GapFree == Filled(board) = 1..PickCount(board)

(* No two events carry the same idempotency key: the unique constraint     *)
(* never turns a sync or a resolution, or a repeated one, into an error.   *)
KeysDistinct == \A i, j \in 1..Len(keys) : keys[i] = keys[j] => i = j

(* The log that Yahoo's batches and the owner's resolutions append to is   *)
(* as sound as that of manual operations alone: the board is what the      *)
(* reducer makes of it, without a hole, and no key is used twice.          *)
ReconciledLogIsSound == ReconciliationTypeOK /\ BoardIsReduction /\ GapFree /\ KeysDistinct

(* Whenever it runs, a sync never changes who holds a pick already on the  *)
(* board, except from a placeholder to the player behind it; without       *)
(* authority it changes no pick at all; and what it adds are the next      *)
(* picks, in snake order.                                                  *)
SyncAppliesSafePicksOnly ==
  LET after == Batch.board
  IN  sourceMode # ManualMode =>
        /\ ~ Authoritative => after = board
        /\ \A n \in Filled(board) :
             \/ after[n] = board[n]
             \/ /\ << board[n].player, n, feed[n] >> \in Placeholders
                /\ after[n].player = feed[n] /\ after[n].team = board[n].team
        /\ \A n \in Filled(after) \ Filled(board) :
             /\ after[n].player = feed[n] /\ after[n].team = TeamOf(n)
             /\ n \in (PickCount(board) + 1)..Total

(* No sync loses a report: after it each one is on the board, or the owner *)
(* has, or has settled, a conflict about it.                               *)
SyncAccountsForReports ==
  LET batch == Batch
  IN  sourceMode # ManualMode =>
        \A n \in PickNumbers :
          feed[n] # NoPlayer =>
            \/ batch.board[n].player = feed[n]
            \/ batch.conflicts[[ overall |-> n, player |-> feed[n] ]].status # "none"

(* Polling again without news appends nothing and raises no conflict: a    *)
(* second pass over the same reports changes nothing.                      *)
SyncIsIdempotent ==
  LET first == Batch
      second == BatchFrom(first)
  IN  sourceMode # ManualMode =>
        /\ second.events = first.events
        /\ second.board = first.board
        /\ second.conflicts = first.conflicts

(* What the owner settled against Yahoo is never raised again, whatever is *)
(* undone, replaced or synchronized later.                                 *)
DismissalKept ==
  \A report \in Reports :
    conflicts[report].status = "dismissed" =>
      conflicts'[report] = conflicts[report]

DismissalStands == [][DismissalKept]_reconciliationVars

(* Claim of project_live_roster in session.py: a full live draft is        *)
(* authoritative for the roster.                                           *)
FullDraftSetsRoster ==
  status = "COMPLETE" /\ setup.kind = "live" /\ PickCount(board) = Total =>
    \A n \in Filled(board) : roster[board[n].player] = board[n].team

=============================================================================
