----------------------------- MODULE DraftBoard -----------------------------
(***************************************************************************)
(* The pure part of a draft session: draft events, the snake order and the *)
(* reducer that derives the board from an event log.                       *)
(* Source: backend/app/draft/reducer.py and the event columns of           *)
(* backend/app/draft/models.py.                                            *)
(*                                                                         *)
(* An event's sequence number is its position in the log, and it doubles   *)
(* as the event's id: the code numbers events 1, 2, ... per session and    *)
(* keeps (session, sequence) unique.  0 stands for an absent pick number,  *)
(* team, superseded event or advice reference.                             *)
(***************************************************************************)
EXTENDS Integers, Sequences, FiniteSets

CONSTANTS
  Players,        \* players of the league
  NoPlayer,       \* the null player of an event that is not about a pick
  MaxPicks        \* the largest overall pick number (480 in the code)

ASSUME PlayersAssumption == NoPlayer \notin Players
ASSUME MaxPicksAssumption == MaxPicks \in Nat

PickNumbers == 1..MaxPicks

(* Overall picks run 1..teams in odd rounds and back again in even rounds. *)
SnakeRound(overall, teams) == (overall - 1) \div teams + 1

(* Mutant: an odd round counts its teams from zero. *)
SnakeTeamFromZero(overall, teams) ==
  LET within == (overall - 1) % teams
  IN  IF SnakeRound(overall, teams) % 2 = 1 THEN within ELSE teams - within

SnakeTeam(overall, teams) ==
  LET within == (overall - 1) % teams
  IN  IF SnakeRound(overall, teams) % 2 = 1 THEN within + 1 ELSE teams - within

EventTypes ==
  { "pick_recorded", "pick_reversed", "pick_replaced", "provider_confirmed",
    "session_started", "session_paused", "session_resumed",
    "session_completed", "session_abandoned", "session_reopened",
    "input_snapshot_changed", "source_mode_changed" }

Event ==
  [ type : EventTypes, overall : 0..MaxPicks, team : Nat,
    player : Players \cup {NoPlayer}, supersedes : Nat, advice : Nat ]

SessionEvent(type) ==
  [ type |-> type, overall |-> 0, team |-> 0, player |-> NoPlayer,
    supersedes |-> 0, advice |-> 0 ]

PickEvent(type, overall, team, player, supersedes, adviceRef) ==
  [ type |-> type, overall |-> overall, team |-> team, player |-> player,
    supersedes |-> supersedes, advice |-> adviceRef ]

(* A board gives each overall pick its reduced pick, or Open. *)
Open == [ event |-> 0, player |-> NoPlayer, team |-> 0 ]
Pick(event, player, team) == [ event |-> event, player |-> player, team |-> team ]
ReducedPick == [ event : Nat \ {0}, player : Players, team : Nat \ {0} ]
OpenBoard == [ n \in PickNumbers |-> Open ]

Filled(b) == { n \in PickNumbers : b[n] # Open }
Drafted(b) == { b[n].player : n \in Filled(b) }

----------------------------------------------------------------------------
(* Mutant: the reducer forgets that a reversal frees its pick. *)
ReducePicksKeepingReversed(events) ==
  LET after[i \in 0..Len(events)] ==
        IF i = 0 THEN OpenBoard
        ELSE IF events[i].type \in {"pick_recorded", "pick_replaced"}
             THEN [ after[i - 1] EXCEPT ![events[i].overall] =
                      Pick(i, events[i].player, events[i].team) ]
             ELSE after[i - 1]
  IN  after[Len(events)]

(* reduce_picks: events in sequence order; a recorded or replacing event   *)
(* becomes the active one of its pick, a reversal drops the active event   *)
(* of the pick its superseded event was about.                             *)
ReducePicks(events) ==
  LET after[i \in 0..Len(events)] ==
        IF i = 0 THEN OpenBoard
        ELSE LET e == events[i]
             IN CASE e.type \in {"pick_recorded", "pick_replaced"} ->
                       [ after[i - 1] EXCEPT ![e.overall] = Pick(i, e.player, e.team) ]
                  [] e.type = "pick_reversed" ->
                       [ after[i - 1] EXCEPT ![events[e.supersedes].overall] = Open ]
                  [] OTHER -> after[i - 1]
  IN  after[Len(events)]
=============================================================================
