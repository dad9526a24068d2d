------------------------------ MODULE DraftLog ------------------------------
(***************************************************************************)
(* One draft session as its accepted operations: lifecycle transitions,    *)
(* manual picks and corrections, automatic mock picks, setup and input     *)
(* changes, and the advice published after each.  The Yahoo source mode a   *)
(* session was created in stays as it is; DraftReconciliation changes it.  *)
(* Source: backend/app/draft/session.py, mock.py and                       *)
(* publish_recommendation_snapshot of recommendations.py.                  *)
(*                                                                         *)
(* Every operation holds the session's lock and one BEGIN IMMEDIATE        *)
(* transaction, so an accepted request is one step here; a refused request *)
(* (wrong expected sequence, a failed guard) and a retry whose key is      *)
(* already in the log change nothing and are stuttering steps.             *)
(* DraftCoordinator models the threads, transactions, keys and sequence    *)
(* numbers behind that atomicity.  session.current_sequence is Len(log).   *)
(*                                                                         *)
(* Advice is published by a second commit after the operation's own: a     *)
(* crash between the two leaves the operation without advice, and a later  *)
(* read of the recommendations publishes it.                               *)
(***************************************************************************)
EXTENDS DraftBoard

CONSTANTS
  Identified,     \* the players whose athlete identity is resolved
  Formats,        \* the [kind, opponents] pairs a session may be created with
  TeamCounts,     \* team counts the request validators admit (8..16)
  RoundCounts,    \* round counts the request validators admit (1..30)
  OwnerSlots,     \* draft slots the owner may sit at
  Snapshots,      \* the player sets of the ready projections and rankings
  PositionOf,     \* the position the projections give each player
  DepthTarget,    \* how many of a position the roster slots call for
  Capped,         \* positions never suggested beyond that: QB, TE, K, DEF
  Needs,          \* the << p, held >> where p improves the lineup of held
  Transports,     \* Yahoo transports a session may follow
  MaxEvents,      \* bound on the length of the log
  Repeats         \* bound on how often each type of event occurs in it

ASSUME IdentifiedAssumption == Identified \subseteq Players
ASSUME FormatsAssumption ==
  Formats \subseteq [ kind : {"live", "mock"}, opponents : {"manual", "automatic"} ]
ASSUME CountsAssumption ==
  /\ TeamCounts \subseteq Nat \ {0}
  /\ RoundCounts \subseteq Nat \ {0}
  /\ OwnerSlots \subseteq Nat \ {0}
  /\ \A t \in TeamCounts, r \in RoundCounts : t * r \in 1..MaxPicks
ASSUME SnapshotsAssumption == Snapshots \subseteq SUBSET Players
ASSUME RosterAssumption ==
  /\ PositionOf \in [ Players -> DOMAIN DepthTarget ]
  /\ DepthTarget \in [ DOMAIN DepthTarget -> Nat ]
  /\ Capped \subseteq DOMAIN DepthTarget
  /\ Needs \subseteq Players \X SUBSET Players
ASSUME BoundsAssumption == MaxEvents \in Nat /\ Repeats \in [ EventTypes -> Nat ]

VARIABLES
  log,            \* the session's events, in sequence order
  board,          \* what reduce_picks derives from log
  status,         \* DraftSession.status
  setup,          \* kind, opponent mode, geometry and the owner's slot
  sourceMode,     \* manual, or a Yahoo transport in shadow or authority
  inputs,         \* players of the bound projection and ranking
  advice,         \* the latest sequence with a ready recommendation snapshot
  roster          \* Player.rostered_by, written when a live draft completes

vars == << log, board, status, setup, sourceMode, inputs, advice, roster >>

----------------------------------------------------------------------------
(* Types and derived values.                                               *)

Statuses == { "SETUP", "READY", "LIVE", "PAUSED", "COMPLETE", "ABANDONED" }
Unstarted == { "SETUP", "READY" }
Active == { "LIVE", "PAUSED" }

Setups ==
  { s \in [ kind : {"live", "mock"}, opponents : {"manual", "automatic"},
            teams : TeamCounts, rounds : RoundCounts, owner : OwnerSlots ] :
      s.owner <= s.teams }

ManualMode == [ transport |-> "none", level |-> "manual" ]
YahooModes == [ transport : Transports, level : {"shadow", "authoritative"} ]
SourceModes == {ManualMode} \cup YahooModes

Inputs == [ projected : SUBSET Players, ranked : SUBSET Players ]

FreeAgent == 0
Imported == -1    \* rostered by a league team of an earlier import
RosterSpots == Nat \cup {Imported}

Total == setup.teams * setup.rounds
PickCount(b) == Cardinality(Filled(b))
AutomaticMock == setup.kind = "mock" /\ setup.opponents = "automatic"
NextPick == PickCount(board) + 1
TeamOf(n) == SnakeTeam(n, setup.teams)

(* Mutant: a ranking is enough, whether or not it covers the draft. *)
ReadyWithAnyRanking(s, in, fresh) ==
  /\ in.projected # {}
  /\ s.kind = "mock" /\ s.opponents = "automatic" => fresh /\ in.ranked # {}

(* readiness_findings is empty.  An automatic mock also needs a fresh      *)
(* ranking that covers the whole draft; fresh is FALSE once the ranking is *)
(* older than a day.  Position minima are left out of the count.           *)
Ready(s, in, fresh) ==
  /\ in.projected # {}
  /\ s.kind = "mock" /\ s.opponents = "automatic" =>
       fresh /\ Cardinality(in.ranked \cap in.projected) >= s.teams * s.rounds

StatusWhen(ready) == IF ready THEN "READY" ELSE "SETUP"

----------------------------------------------------------------------------
(* What every operation does last.                                         *)

(* The owner's picks that the projection knows. *)
Held(in, b, s) == { n \in Filled(b) : b[n].team = s.owner /\ b[n].player \in in.projected }

(* score_candidates skips a position the owner has enough of: always when  *)
(* it is capped, otherwise when the player has no roster need either.      *)
Saturated(p, in, b, s) ==
  LET held == Held(in, b, s)
      position == PositionOf[p]
  IN  /\ Cardinality({ n \in held : PositionOf[b[n].player] = position }) >= DepthTarget[position]
      /\ position \in Capped \/ << p, { b[n].player : n \in held } >> \notin Needs

Candidates(in, b, s) == { p \in in.projected \ Drafted(b) : ~ Saturated(p, in, b, s) }

(* publish_recommendation_snapshot for the state just committed: a ready   *)
(* snapshot when it has candidates, otherwise an unavailable one.          *)
NewAdvice ==
  IF status' \in Active /\ Candidates(inputs', board', setup') # {}
  THEN Len(log') ELSE advice

PublishOrCrash == advice' \in { advice, NewAdvice }

(* project_live_roster: a full board first frees every player; an early    *)
(* completion only adds.                                                   *)
ProjectLiveRoster(b) ==
  [ p \in Players |->
      IF p \in Drafted(b)
      THEN b[CHOOSE n \in Filled(b) :
               b[n].player = p /\ \A m \in Filled(b) : b[m].player = p => m <= n].team
      ELSE IF PickCount(b) = Total THEN FreeAgent ELSE roster[p] ]

(* The bounds of a run; the code has none. *)
WithinBounds(events) ==
  /\ Len(events) <= MaxEvents
  /\ \A type \in { events[i].type : i \in 1..Len(events) } :
       Cardinality({ i \in 1..Len(events) : events[i].type = type }) <= Repeats[type]

(* An operation that appends one event and leaves the board alone. *)
AppendSessionEvent(type) ==
  /\ log' = Append(log, SessionEvent(type))
  /\ WithinBounds(log')
  /\ UNCHANGED board

(* Mutant: a board filled by hand closes the draft without its roster. *)
AppendPicksWithoutRoster(events, b) ==
  LET done == status = "LIVE" /\ PickCount(b) = Total
  IN  /\ log' = log \o events \o (IF done THEN <<SessionEvent("session_completed")>> ELSE <<>>)
      /\ WithinBounds(log')
      /\ board' = b
      /\ status' = IF done THEN "COMPLETE" ELSE status
      /\ UNCHANGED << roster, setup, sourceMode, inputs >>
      /\ PublishOrCrash

(* The tail of append_pick_event: a live board that is now full completes  *)
(* the session in the same transaction, and a live draft projects its      *)
(* roster.                                                                 *)
AppendPicks(events, b) ==
  LET done == status = "LIVE" /\ PickCount(b) = Total
  IN  /\ log' = log \o events \o (IF done THEN <<SessionEvent("session_completed")>> ELSE <<>>)
      /\ WithinBounds(log')
      /\ board' = b
      /\ status' = IF done THEN "COMPLETE" ELSE status
      /\ roster' = IF done /\ setup.kind = "live" THEN ProjectLiveRoster(b) ELSE roster
      /\ UNCHANGED << setup, sourceMode, inputs >>
      /\ PublishOrCrash

----------------------------------------------------------------------------
(* transition_session.                                                     *)

Transition(from, to, type) ==
  /\ status \in from
  /\ AppendSessionEvent(type)
  /\ status' = to
  /\ roster' = IF to = "COMPLETE" /\ setup.kind = "live" THEN ProjectLiveRoster(board) ELSE roster
  /\ UNCHANGED << setup, sourceMode, inputs >>
  /\ PublishOrCrash

Start ==
  /\ \E fresh \in BOOLEAN : Ready(setup, inputs, fresh)
  /\ Transition({"READY"}, "LIVE", "session_started")
Pause == Transition({"LIVE"}, "PAUSED", "session_paused")
Resume == Transition({"PAUSED"}, "LIVE", "session_resumed")

Complete == Transition(Active, "COMPLETE", "session_completed")
Abandon == Transition(Unstarted \cup Active, "ABANDONED", "session_abandoned")

(* Mutant: reopening is not recorded as an event. *)
ReopenSilently ==
  /\ status = "COMPLETE"
  /\ status' = "LIVE"
  /\ UNCHANGED << log, board, setup, sourceMode, inputs, roster >>
  /\ PublishOrCrash

Reopen == Transition({"COMPLETE"}, "LIVE", "session_reopened")

----------------------------------------------------------------------------
(* append_pick_event and advance_opponent_pick.                            *)

(* Mutant: any snapshot the session ever had will do. *)
AdviceEverPublished(ref) == ref = advice

(* _validate_owner_snapshot: a ready snapshot of the current sequence.     *)
(* Requests cite the latest snapshot: no earlier one can be of it.         *)
AdviceIsCurrent(ref) == ref = advice /\ ref = Len(log)

(* Mutant: a new pick may name a player already on the board. *)
AppendPickAgain(p, ref, source) ==
  LET team == TeamOf(NextPick)
      adviceRef == IF team = setup.owner THEN ref ELSE 0
  IN  /\ status = "LIVE"
      /\ NextPick <= Total
      /\ team = setup.owner => AdviceIsCurrent(ref)
      /\ AppendPicks(<<PickEvent("pick_recorded", NextPick, team, p, 0, adviceRef)>>,
                     [ board EXCEPT ![NextPick] = Pick(Len(log) + 1, p, team) ])

AppendPick(p, ref, source) ==
  LET team == TeamOf(NextPick)
      adviceRef == IF team = setup.owner THEN ref ELSE 0
  IN  /\ status = "LIVE"
      /\ NextPick <= Total
      /\ p \notin Drafted(board)
      /\ ~ (source = "manual" /\ AutomaticMock /\ team # setup.owner)
      /\ team = setup.owner => AdviceIsCurrent(ref)
      /\ AppendPicks(<<PickEvent("pick_recorded", NextPick, team, p, 0, adviceRef)>>,
                     [ board EXCEPT ![NextPick] = Pick(Len(log) + 1, p, team) ])

RecordPick == \E p \in Identified : AppendPick(p, advice, "manual")

(* select_opponent_player picks by rank and roster need among the ranked,  *)
(* projected players still available: any of them here.                    *)
OpponentChoices == (inputs.ranked \cap inputs.projected) \ Drafted(board)

AdvanceOpponent ==
  /\ AutomaticMock
  /\ sourceMode = ManualMode
  /\ NextPick <= Total => TeamOf(NextPick) # setup.owner
  /\ \E p \in OpponentChoices : AppendPick(p, 0, "mock_auto")

ReversalEvent(n) ==
  PickEvent("pick_reversed", n, board[n].team, NoPlayer, board[n].event, 0)

(* Mutant: any active pick can be undone. *)
ReverseAnyPick ==
  \E n \in Filled(board) :
    /\ status \in Active
    /\ AppendPicks(<<ReversalEvent(n)>>, [ board EXCEPT ![n] = Open ])

ReverseLatestPick ==
  \E n \in Filled(board) :
    /\ status \in Active
    /\ n = PickCount(board)
    /\ AppendPicks(<<ReversalEvent(n)>>, [ board EXCEPT ![n] = Open ])

ReplacePick(n, p) ==
  /\ status \in Active
  /\ p \notin { board[m].player : m \in Filled(board) \ {n} }
  /\ AppendPicks(<<ReversalEvent(n),
                   PickEvent("pick_replaced", n, board[n].team, p, board[n].event, 0)>>,
                 [ board EXCEPT ![n] = Pick(Len(log) + 2, p, board[n].team) ])

ReplaceActivePick == \E n \in Filled(board), p \in Identified : ReplacePick(n, p)

----------------------------------------------------------------------------
(* Setup and inputs.                                                       *)

(* Mutant: setup can be edited whatever the status. *)
UpdateSetupAnytime ==
  \E s \in Setups, fresh \in BOOLEAN :
    /\ s.kind = setup.kind /\ s.opponents = setup.opponents
    /\ setup' = s
    /\ UNCHANGED << log, board, sourceMode, inputs, advice, roster, status >>

(* update_setup: a new geometry, not an event and not a new sequence. *)
UpdateSetup ==
  \E s \in Setups, fresh \in BOOLEAN :
    /\ status \in Unstarted
    /\ s.kind = setup.kind /\ s.opponents = setup.opponents
    /\ setup' = s
    /\ status' = StatusWhen(Ready(s, inputs, fresh))
    /\ UNCHANGED << log, board, sourceMode, inputs, advice, roster >>

(* bind_input_snapshots, which the live ranking sync also ends in: an      *)
(* event once the draft is under way, a readiness check before.            *)
BindInputs ==
  \E projection \in Snapshots \cup {inputs.projected},
     ranking \in Snapshots \cup {inputs.ranked}, fresh \in BOOLEAN :
    /\ projection \in Snapshots \/ ranking \in Snapshots
    /\ inputs' = [ projected |-> projection, ranked |-> ranking ]
    /\ \/ /\ status \in Active
          /\ AppendSessionEvent("input_snapshot_changed")
          /\ UNCHANGED << status, setup, sourceMode, roster >>
          /\ PublishOrCrash
       \/ /\ status \in Unstarted
          /\ status' = StatusWhen(Ready(setup, inputs', fresh))
          /\ UNCHANGED << log, board, setup, sourceMode, advice, roster >>

----------------------------------------------------------------------------
(* Mutant: reading returns stored advice and never computes it. *)
ReadStoredAdvice == status \in Active /\ UNCHANGED vars

(* latest_recommendation_payload: reading the advice publishes it when the *)
(* current sequence has none.                                              *)
ReadAdvice ==
  /\ status \in Active
  /\ UNCHANGED << log, board, status, setup, sourceMode, inputs, roster >>
  /\ advice' = NewAdvice

----------------------------------------------------------------------------
(* create_session. *)
Init ==
  /\ log = <<>>
  /\ board = OpenBoard
  /\ setup \in { s \in Setups : [ kind |-> s.kind, opponents |-> s.opponents ] \in Formats }
  /\ sourceMode \in { m \in SourceModes : m.level # "authoritative" }
  /\ inputs \in [ projected : Snapshots \cup {{}}, ranked : {{}} ]
  /\ status = StatusWhen(Ready(setup, inputs, FALSE))
  /\ advice = 0
  /\ roster = [ p \in Players |-> Imported ]

Next ==
  \/ Start \/ Pause \/ Resume \/ Complete \/ Abandon \/ Reopen
  \/ RecordPick \/ AdvanceOpponent \/ ReverseLatestPick \/ ReplaceActivePick
  \/ UpdateSetup \/ BindInputs
  \/ ReadAdvice

Spec == Init /\ [][Next]_vars

(* An open draft room polls the recommendations every five seconds while   *)
(* the session is live, and only then (DraftCockpit.tsx).                  *)
FairSpec == Spec /\ WF_vars(status = "LIVE" /\ ReadAdvice)

----------------------------------------------------------------------------
(* Properties.                                                             *)

(* Every variable has its type. *)
TypeOK ==
  /\ log \in Seq(Event)
  /\ board \in [ PickNumbers -> ReducedPick \cup {Open} ]
  /\ status \in Statuses
  /\ setup \in Setups
  /\ sourceMode \in SourceModes
  /\ inputs \in Inputs
  /\ advice \in 0..Len(log)
  /\ roster \in [ Players -> RosterSpots ]

(* Each handler's view of the board is what the reducer derives from the   *)
(* whole log: no sequence of corrections makes the two drift apart.        *)
BoardIsReduction == board = ReducePicks(log)

(* The board is a gap-free prefix of the draft and each pick is on the     *)
(* team the snake order gives it, whatever was undone or replaced.         *)
InOrder(b) ==
  \E c \in 0..Total :
    /\ Filled(b) = 1..c
    /\ \A n \in 1..c : b[n].team = TeamOf(n)

BoardInOrder == InOrder(board)

(* No player holds two picks of the board. *)
PlayersDistinct(b) == \A m, n \in Filled(b) : b[m].player = b[n].player => m = n

OnePickPerPlayer == PlayersDistinct(board)

(* An owner pick cites the advice published for exactly the log it was     *)
(* appended to: nothing happened between what the owner saw and the pick.  *)
OwnerPickAdvised ==
  \A i \in 1..Len(log) :
    log[i].type = "pick_recorded" /\ log[i].team = setup.owner =>
      log[i].advice = i - 1

(* The status column can be replayed from the log: it is what the last     *)
(* lifecycle event left, and a session without one has not started.        *)
LifecycleStatus ==
  [ session_started |-> "LIVE", session_paused |-> "PAUSED",
    session_resumed |-> "LIVE", session_reopened |-> "LIVE",
    session_completed |-> "COMPLETE", session_abandoned |-> "ABANDONED" ]

StatusIsReplayable ==
  LET at == { i \in 1..Len(log) : log[i].type \in DOMAIN LifecycleStatus }
  IN  IF at = {} THEN status \in Unstarted
      ELSE \E i \in at : (\A j \in at : j <= i) /\ status = LifecycleStatus[log[i].type]

(* A completed live draft has given every drafted player to the team that  *)
(* picked it, and a full board leaves every other player a free agent,     *)
(* through any number of early completions, reopenings and corrections.    *)
RosterFollowsBoard ==
  status = "COMPLETE" /\ setup.kind = "live" =>
    /\ \A n \in Filled(board) : roster[board[n].player] = board[n].team
    /\ PickCount(board) = Total =>
         \A p \in Players \ Drafted(board) : roster[p] = FreeAgent

(* Once a session has started its geometry is fixed, it never becomes      *)
(* unstarted again, and an abandoned one keeps its board and status.       *)
StartStands ==
  status \notin Unstarted =>
    /\ setup' = setup
    /\ status' \notin Unstarted
    /\ status = "ABANDONED" => status' = status /\ board' = board

StartIsFinal == [][StartStands]_vars

(* The board changes only in play: while live or paused, and it grows only *)
(* while live.                                                             *)
BoardMoveInPlay ==
  board' # board =>
    /\ status \in Active
    /\ PickCount(board') > PickCount(board) => status = "LIVE"

BoardMovesInPlay == [][BoardMoveInPlay]_vars

(* Both: a started draft moves by its rules only.                          *)
PlayIsOrderly == StartIsFinal /\ BoardMovesInPlay

(* An automatic mock that started with its inputs and kept them always has *)
(* a player for the opponent on the clock.                                 *)
OpponentNeverStuck ==
  /\ status = "LIVE" /\ AutomaticMock /\ NextPick <= Total
  /\ \A i \in 1..Len(log) : log[i].type # "input_snapshot_changed"
  => OpponentChoices # {}

(* Once advice can be computed for a live session it is published, even if *)
(* the process stopped between an operation's commit and its publication.  *)
(* It cannot while the owner has enough of every position that is left,    *)
(* and an owner's pick is refused for that long (_validate_owner_snapshot).*)
AdviceEventuallyPublished ==
  (status = "LIVE" /\ Candidates(inputs, board, setup) # {})
    ~> \/ Len(log) = advice
       \/ status # "LIVE"
       \/ Candidates(inputs, board, setup) = {}

=============================================================================
