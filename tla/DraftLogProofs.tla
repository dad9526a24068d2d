--------------------------- MODULE DraftLogProofs ---------------------------
(***************************************************************************)
(* Proofs that the accepted operations of a draft session keep the board   *)
(* gap-free and in snake order, never draft a player twice, and record an  *)
(* owner pick only against the advice of the log it extends.               *)
(***************************************************************************)
EXTENDS DraftLog, FiniteSetTheorems, SequenceTheorems, TLAPS

Boards == [ PickNumbers -> ReducedPick \cup {Open} ]

(* A session that has not started has an empty log and an open board. *)
NothingBeforeStart == status \in Unstarted => log = <<>> /\ board = OpenBoard

(* The inductive invariant.  BoardInOrder alone is not inductive: it needs *)
(* the board's type, and a setup edit keeps it only because nothing has    *)
(* been picked before the start.                                           *)
IInv ==
  /\ TypeOK
  /\ NothingBeforeStart
  /\ BoardInOrder
  /\ OnePickPerPlayer
  /\ OwnerPickAdvised

----------------------------------------------------------------------------
(* Lemmas about the board.                                                 *)

(* The snake order gives every pick one of the league's teams. *)
LEMMA SnakeTeamType ==
  ASSUME NEW n \in Nat \ {0}, NEW T \in Nat \ {0}
  PROVE  SnakeTeam(n, T) \in 1..T
<1>1. (n - 1) % T \in 0..(T - 1)
  BY SMT
<1>2. QED
  BY <1>1 DEF SnakeTeam

(* The open pick is not a reduced pick. *)
LEMMA OpenIsNoPick == Open \notin ReducedPick
  BY DEF Open, ReducedPick

(* Placing a pick fills its place and leaves the others. *)
LEMMA FilledByPlacing ==
  ASSUME NEW b \in Boards, NEW n \in PickNumbers, NEW after \in Boards,
         after[n] \in ReducedPick, \A m \in PickNumbers \ {n} : after[m] = b[m]
  PROVE  Filled(after) = Filled(b) \cup {n}
  BY OpenIsNoPick DEF Boards, Filled

(* Reopening a pick empties its place and leaves the others. *)
LEMMA FilledByReopening ==
  ASSUME NEW b \in Boards, NEW n \in PickNumbers
  PROVE  /\ [ b EXCEPT ![n] = Open ] \in Boards
         /\ Filled([ b EXCEPT ![n] = Open ]) = Filled(b) \ {n}
         /\ \A m \in PickNumbers \ {n} : [ b EXCEPT ![n] = Open ][m] = b[m]
  BY DEF Boards, Filled

(* A filled place holds a reduced pick. *)
LEMMA FilledHoldsPick ==
  ASSUME NEW b \in Boards, NEW n \in Filled(b)
  PROVE  n \in PickNumbers /\ b[n] \in ReducedPick
  BY DEF Boards, Filled

(* On a gap-free board the pick count is the last pick's number. *)
LEMMA PickCountOfPrefix ==
  ASSUME NEW b, NEW c \in Nat, Filled(b) = 1..c
  PROVE  PickCount(b) = c
  BY FS_Interval DEF PickCount

(* The geometry of a session has at least one pick and fits the board. *)
LEMMA GeometryType ==
  ASSUME setup \in Setups
  PROVE  /\ setup.teams \in Nat \ {0}
         /\ Total \in 1..MaxPicks
         /\ setup.owner \in Nat
<1>1. setup.teams \in TeamCounts /\ setup.rounds \in RoundCounts /\ setup.owner \in OwnerSlots
  BY DEF Setups
<1>2. Total \in 1..MaxPicks
  BY <1>1, CountsAssumption DEF Total
<1>3. setup.teams \in Nat \ {0}
  BY <1>1, CountsAssumption
<1>4. setup.owner \in Nat
  BY <1>1, CountsAssumption
<1> QED
  BY <1>2, <1>3, <1>4

(* A set of natural numbers has a least one. *)
LEMMA LeastNumber ==
  ASSUME NEW T, T \subseteq Nat, T # {}
  PROVE  \E i \in T : \A j \in T : i <= j
<1> DEFINE R == { ss \in Nat \X Nat : ss[1] < ss[2] }
<1>1. IsWellFoundedOn(R, Nat)
  BY NatLessThanWellFounded DEF OpToRel
<1>2. \A i, j \in Nat : j < i => <<j, i>> \in R
  OBVIOUS
<1> HIDE DEF R
<1>3. PICK i \in T : \A j \in T : ~ (<<j, i>> \in R)
  BY <1>1, WFMin
<1>4. ASSUME NEW j \in T PROVE i <= j
  <2>1. i \in Nat /\ j \in Nat /\ ~ (j < i)
    BY <1>2, <1>3
  <2> QED
    BY <2>1
<1> QED
  BY <1>3, <1>4

(* Induction over the natural numbers, for a set of them. *)
LEMMA CountingUp ==
  ASSUME NEW S, 0 \in S, \A n \in Nat : n \in S => n + 1 \in S
  PROVE  Nat \subseteq S
<1> DEFINE T == Nat \ S
<1> SUFFICES ASSUME T # {} PROVE FALSE
  OBVIOUS
<1>1. T \subseteq Nat /\ \A n \in Nat : n \notin T => n \in S
  OBVIOUS
<1>2. \A n \in T : n \in Nat /\ n \notin S
  OBVIOUS
<1> HIDE DEF T
<1>3. PICK i \in T : \A j \in T : i <= j
  BY <1>1, LeastNumber
<1>4. i \in Nat /\ i # 0
  BY <1>2, <1>3
<1>5. i - 1 \in Nat /\ ~ (i <= i - 1) /\ (i - 1) + 1 = i
  BY <1>4
<1>6. i - 1 \in S
  BY <1>1, <1>3, <1>5
<1> QED
  BY <1>2, <1>3, <1>5, <1>6

(* A set of pick numbers has a greatest one. *)
LEMMA GreatestPick ==
  ASSUME NEW S, S \subseteq PickNumbers, S # {}
  PROVE  \E n \in S : \A m \in S : m <= n
<1> DEFINE T == { k \in Nat : k <= MaxPicks /\ MaxPicks - k \in S }
<1>1. \A m \in S : m \in Nat /\ m <= MaxPicks /\ MaxPicks - (MaxPicks - m) = m
                  /\ MaxPicks - m \in Nat /\ MaxPicks - m <= MaxPicks
  BY MaxPicksAssumption DEF PickNumbers
<1>2. \A m \in S : MaxPicks - m \in T
  BY <1>1
<1>3. T \subseteq Nat /\ T # {}
  BY <1>2
<1>4. \A k \in T : k \in Nat /\ MaxPicks - k \in S
  OBVIOUS
<1> HIDE DEF T
<1>5. PICK k \in T : \A j \in T : k <= j
  BY <1>3, LeastNumber
<1>6. \A m \in S : k <= MaxPicks - m
  BY <1>2, <1>5
<1>7. \A m \in S : m <= MaxPicks - k
  BY <1>1, <1>4, <1>6, MaxPicksAssumption
<1> QED
  BY <1>4, <1>7

(* A projected roster is a roster, even of a board that has a player twice. *)
LEMMA ProjectedRosterType ==
  ASSUME NEW b \in Boards, roster \in [ Players -> RosterSpots ]
  PROVE  ProjectLiveRoster(b) \in [ Players -> RosterSpots ]
<1> SUFFICES ASSUME NEW p \in Players, p \in Drafted(b)
             PROVE  b[CHOOSE n \in Filled(b) :
                        b[n].player = p /\ \A m \in Filled(b) : b[m].player = p => m <= n].team
                      \in RosterSpots
  BY DEF ProjectLiveRoster, RosterSpots, FreeAgent
<1> DEFINE Last(n) == b[n].player = p /\ \A m \in Filled(b) : b[m].player = p => m <= n
           S == { m \in Filled(b) : b[m].player = p }
<1>1. S \subseteq PickNumbers /\ S # {}
  BY DEF Drafted, Filled
<1>2. \A m \in S : m \in Filled(b) /\ b[m].player = p
  OBVIOUS
<1>3. \A m \in Filled(b) : b[m].player = p => m \in S
  OBVIOUS
<1> HIDE DEF S
<1>4. PICK n \in S : \A m \in S : m <= n
  BY <1>1, GreatestPick
<1>5. n \in Filled(b) /\ Last(n)
  BY <1>2, <1>3, <1>4
<1>6. PICK k \in Filled(b) : k = CHOOSE m \in Filled(b) : Last(m)
  BY <1>5
<1>7. b[k] \in ReducedPick
  BY FilledHoldsPick
<1> QED
  BY <1>6, <1>7 DEF ReducedPick, RosterSpots

(* The session events are well typed. *)
LEMMA SessionEventType ==
  ASSUME NEW type \in EventTypes
  PROVE  /\ SessionEvent(type) \in Event
         /\ SessionEvent(type).type = type
  BY MaxPicksAssumption DEF SessionEvent, Event

(* Advice never runs ahead of the log. *)
LEMMA AdviceAfterPublishing ==
  ASSUME log \in Seq(Event), advice \in 0..Len(log), log' \in Seq(Event),
         Len(log) <= Len(log'), PublishOrCrash
  PROVE  advice' \in 0..Len(log')
  BY DEF PublishOrCrash, NewAdvice

----------------------------------------------------------------------------
(* The two ways an operation appends.                                      *)

(* The advice condition carries over to a longer log whose new events meet *)
(* it. *)
LEMMA AdvisedByAppending ==
  ASSUME log \in Seq(Event), OwnerPickAdvised, setup' = setup,
         NEW events \in Seq(Event), log' = log \o events,
         \A i \in 1..Len(events) :
           events[i].type = "pick_recorded" /\ events[i].team = setup.owner =>
             events[i].advice = Len(log) + i - 1
  PROVE  OwnerPickAdvised'
<1> SUFFICES ASSUME NEW i \in 1..Len(log'),
                    log'[i].type = "pick_recorded", log'[i].team = setup.owner
             PROVE  log'[i].advice = i - 1
  BY DEF OwnerPickAdvised
<1>1. /\ Len(log') = Len(log) + Len(events) /\ Len(log) \in Nat /\ Len(events) \in Nat
      /\ log'[i] = IF i <= Len(log) THEN log[i] ELSE events[i - Len(log)]
  BY ConcatProperties, LenProperties
<1>2. CASE i <= Len(log)
  BY <1>1, <1>2 DEF OwnerPickAdvised
<1>3. CASE ~ (i <= Len(log))
  <2> DEFINE j == i - Len(log)
  <2>1. j \in 1..Len(events) /\ i - 1 = Len(log) + j - 1 /\ log'[i] = events[j]
    BY <1>1, <1>3
  <2>2. events[j].advice = Len(log) + j - 1
    BY <2>1
  <2> QED
    BY <2>1, <2>2
<1> QED
  BY <1>2, <1>3

(* Session events keep the invariant: they name no pick and no board. *)
LEMMA SessionEventStep ==
  ASSUME IInv, NEW type \in EventTypes \ {"pick_recorded"},
         AppendSessionEvent(type),
         status' \in Statuses \ Unstarted, setup' = setup, sourceMode' = sourceMode,
         inputs' \in Inputs, roster' \in [ Players -> RosterSpots ], PublishOrCrash
  PROVE  IInv'
<1> DEFINE e == SessionEvent(type)
<1>1. e \in Event /\ e.type # "pick_recorded"
  BY SessionEventType
<1>2. log' = log \o <<e>> /\ <<e>> \in Seq(Event) /\ log' \in Seq(Event) /\ Len(log') = Len(log) + 1
  BY <1>1 DEF IInv, TypeOK, AppendSessionEvent
<1>3. TypeOK'
  BY <1>2, AdviceAfterPublishing DEF IInv, TypeOK, AppendSessionEvent
<1>4. NothingBeforeStart'
  BY DEF NothingBeforeStart
<1>5. BoardInOrder' /\ OnePickPerPlayer'
  BY DEF IInv, BoardInOrder, InOrder, OnePickPerPlayer, PlayersDistinct, Total, TeamOf,
         AppendSessionEvent
<1>6. \A i \in 1..Len(<<e>>) : <<e>>[i].type # "pick_recorded"
  BY <1>1
<1>7. OwnerPickAdvised'
  BY <1>2, <1>6, AdvisedByAppending DEF IInv, TypeOK
<1> QED
  BY <1>3, <1>4, <1>5, <1>7 DEF IInv

(* Pick events keep the invariant when the new board does. *)
LEMMA PickStep ==
  ASSUME IInv, NEW events \in Seq(Event), NEW b \in Boards, status \in Active,
         InOrder(b), PlayersDistinct(b), AppendPicks(events, b),
         \A i \in 1..Len(events) :
           events[i].type = "pick_recorded" /\ events[i].team = setup.owner =>
             events[i].advice = Len(log) + i - 1
  PROVE  IInv'
<1> DEFINE tail == IF status = "LIVE" /\ PickCount(b) = Total
                   THEN <<SessionEvent("session_completed")>> ELSE << >>
           all == events \o tail
<1>1. tail \in Seq(Event) /\ Len(tail) \in 0..1 /\ \A i \in 1..Len(tail) : tail[i].type # "pick_recorded"
  <2>1. SessionEvent("session_completed") \in Event
        /\ SessionEvent("session_completed").type = "session_completed"
    BY SessionEventType DEF EventTypes
  <2> QED
    BY <2>1
<1> HIDE DEF tail
<1>2. all \in Seq(Event) /\ Len(all) = Len(events) + Len(tail)
      /\ \A i \in 1..Len(all) : all[i] = IF i <= Len(events) THEN events[i] ELSE tail[i - Len(events)]
  BY <1>1, ConcatProperties
<1>3. log' = log \o all /\ log' \in Seq(Event) /\ Len(log') = Len(log) + Len(all)
  <2>1. log' = (log \o events) \o tail
    BY DEF AppendPicks, tail
  <2>2. log \in Seq(Event)
    BY DEF IInv, TypeOK
  <2>3. (log \o events) \o tail = log \o all
    BY <1>1, <2>2, ConcatAssociative
  <2> QED
    BY <1>2, <2>1, <2>2, <2>3, ConcatProperties
<1>4. \A i \in 1..Len(all) :
        all[i].type = "pick_recorded" /\ all[i].team = setup.owner =>
          all[i].advice = Len(log) + i - 1
  <2> SUFFICES ASSUME NEW i \in 1..Len(all), all[i].type = "pick_recorded",
                      all[i].team = setup.owner
               PROVE  all[i].advice = Len(log) + i - 1
    OBVIOUS
  <2>1. CASE i <= Len(events)
    BY <1>2, <2>1
  <2>2. CASE ~ (i <= Len(events))
    <3>1. i - Len(events) \in 1..Len(tail)
      BY <1>1, <1>2, <2>2
    <3> QED
      BY <1>1, <1>2, <2>2, <3>1
  <2> QED
    BY <2>1, <2>2
<1>5. roster' \in [ Players -> RosterSpots ]
  BY ProjectedRosterType DEF AppendPicks, IInv, TypeOK
<1>6. status' \in {status, "COMPLETE"} /\ setup' = setup /\ sourceMode' = sourceMode
      /\ inputs' = inputs /\ board' = b /\ PublishOrCrash
  BY DEF AppendPicks
<1>7. advice' \in 0..Len(log')
  BY <1>2, <1>3, <1>6, <1>1, AdviceAfterPublishing DEF IInv, TypeOK
<1>8. TypeOK'
  BY <1>3, <1>5, <1>6, <1>7 DEF IInv, TypeOK, Boards, Statuses, Active
<1>9. NothingBeforeStart'
  BY <1>6 DEF NothingBeforeStart, Unstarted, Active
<1>10. BoardInOrder' /\ OnePickPerPlayer'
  BY <1>6 DEF BoardInOrder, InOrder, OnePickPerPlayer, PlayersDistinct, Total, TeamOf
<1>11. OwnerPickAdvised'
  BY <1>2, <1>3, <1>4, <1>6, AdvisedByAppending DEF IInv, TypeOK
<1> QED
  BY <1>8, <1>9, <1>10, <1>11 DEF IInv

----------------------------------------------------------------------------
(* One lemma per kind of operation.                                        *)

(* transition_session keeps the invariant. *)
LEMMA TransitionStep ==
  ASSUME IInv, NEW from, NEW to \in Statuses \ Unstarted,
         NEW type \in EventTypes \ {"pick_recorded"}, Transition(from, to, type)
  PROVE  IInv'
<1>1. roster' \in [ Players -> RosterSpots ]
  BY ProjectedRosterType DEF Transition, IInv, TypeOK, OnePickPerPlayer, Boards
<1>2. inputs' \in Inputs
  BY DEF Transition, IInv, TypeOK
<1> QED
  BY <1>1, <1>2, SessionEventStep DEF Transition

(* update_setup keeps the invariant: before the start there is no pick. *)
LEMMA UpdateSetupStep ==
  ASSUME IInv, UpdateSetup
  PROVE  IInv'
<1>1. /\ log' = <<>> /\ log = <<>> /\ board' = OpenBoard
      /\ setup' \in Setups /\ status' \in Unstarted
  BY DEF IInv, NothingBeforeStart, UpdateSetup, StatusWhen, Unstarted
<1>2. Filled(board') = {}
  BY <1>1 DEF Filled, OpenBoard
<1>3. TypeOK'
  BY <1>1 DEF IInv, TypeOK, UpdateSetup, Unstarted, Statuses
<1>4. Total' \in Nat
  <2>1. setup'.teams \in TeamCounts /\ setup'.rounds \in RoundCounts
    BY <1>1 DEF Setups
  <2>2. setup'.teams * setup'.rounds \in 1..MaxPicks
    BY <2>1, CountsAssumption
  <2> QED
    BY <2>2, MaxPicksAssumption DEF Total
<1>5. BoardInOrder'
  <2>1. 0 \in 0..Total' /\ 1..0 = {}
    BY <1>4
  <2> QED
    BY <1>2, <2>1 DEF BoardInOrder, InOrder
<1>6. OnePickPerPlayer'
  BY <1>2 DEF OnePickPerPlayer, PlayersDistinct
<1>7. OwnerPickAdvised'
  BY <1>1 DEF OwnerPickAdvised
<1> QED
  BY <1>1, <1>3, <1>5, <1>6, <1>7 DEF IInv, NothingBeforeStart

(* bind_input_snapshots keeps the invariant, before and after the start. *)
LEMMA BindInputsStep ==
  ASSUME IInv, BindInputs
  PROVE  IInv'
<1>1. PICK projection \in Snapshots \cup {inputs.projected},
           ranking \in Snapshots \cup {inputs.ranked}, fresh \in BOOLEAN :
        /\ inputs' = [ projected |-> projection, ranked |-> ranking ]
        /\ \/ /\ status \in Active
              /\ AppendSessionEvent("input_snapshot_changed")
              /\ UNCHANGED << status, setup, sourceMode, roster >>
              /\ PublishOrCrash
           \/ /\ status \in Unstarted
              /\ status' = StatusWhen(Ready(setup, inputs', fresh))
              /\ UNCHANGED << log, board, setup, sourceMode, advice, roster >>
  BY DEF BindInputs
<1>2. inputs' \in Inputs
  BY <1>1, SnapshotsAssumption DEF IInv, TypeOK, Inputs
<1>3. CASE status \in Active
  <2>1. status' \in Statuses \ Unstarted
    BY <1>1, <1>3 DEF Active, Unstarted, Statuses
  <2>2. "input_snapshot_changed" \in EventTypes \ {"pick_recorded"}
    BY DEF EventTypes
  <2>3. AppendSessionEvent("input_snapshot_changed") /\ PublishOrCrash
        /\ setup' = setup /\ sourceMode' = sourceMode /\ roster' = roster
    BY <1>1, <1>3 DEF Active, Unstarted
  <2> QED
    BY <1>2, <2>1, <2>2, <2>3, SessionEventStep DEF IInv, TypeOK
<1>4. CASE status \notin Active
  <2>1. status' \in Unstarted /\ status \in Unstarted
        /\ UNCHANGED << log, board, setup, sourceMode, advice, roster >>
    BY <1>1, <1>4 DEF StatusWhen, Unstarted
  <2>2. TypeOK'
    BY <1>2, <2>1 DEF IInv, TypeOK, Unstarted, Statuses
  <2> QED
    BY <2>1, <2>2 DEF IInv, NothingBeforeStart, BoardInOrder, InOrder, OnePickPerPlayer,
                      PlayersDistinct, OwnerPickAdvised, Total, TeamOf
<1> QED
  BY <1>3, <1>4

(* A new pick keeps the invariant: it takes the next place of the snake    *)
(* order, an undrafted player and, for the owner, the current advice.      *)
LEMMA AppendPickStep ==
  ASSUME IInv, NEW p \in Players, NEW ref \in 0..Len(log), NEW source,
         AppendPick(p, ref, source)
  PROVE  IInv'
<1> DEFINE n == NextPick
           team == TeamOf(n)
           adviceRef == IF team = setup.owner THEN ref ELSE 0
           e == PickEvent("pick_recorded", n, team, p, 0, adviceRef)
           pick == Pick(Len(log) + 1, p, team)
           b == [ board EXCEPT ![n] = pick ]
<1>1. /\ n <= Total /\ p \notin Drafted(board) /\ status \in Active
      /\ team = setup.owner => ref = Len(log)
      /\ AppendPicks(<<e>>, b)
  BY DEF AppendPick, AdviceIsCurrent, Active
<1>2. log \in Seq(Event) /\ Len(log) \in Nat /\ board \in Boards /\ setup \in Setups
  BY LenProperties DEF IInv, TypeOK, Boards
<1>3. PICK c \in 0..Total : Filled(board) = 1..c /\ \A m \in 1..c : board[m].team = TeamOf(m)
  BY DEF IInv, BoardInOrder, InOrder
<1>4. Total \in 1..MaxPicks /\ setup.teams \in Nat \ {0}
  BY <1>2, GeometryType
<1>5. n = c + 1 /\ n \in 1..Total /\ n \in PickNumbers
  BY <1>1, <1>3, <1>4, PickCountOfPrefix, MaxPicksAssumption DEF NextPick, PickNumbers
<1>6. team \in Nat \ {0}
  <2> HIDE DEF n
  <2>1. n \in Nat \ {0}
    BY <1>4, <1>5
  <2>2. SnakeTeam(n, setup.teams) \in 1..setup.teams
    BY <1>4, <2>1, SnakeTeamType
  <2> QED
    BY <1>4, <2>2 DEF TeamOf
<1>7. pick \in ReducedPick /\ pick.team = team /\ pick.player = p
  BY <1>2, <1>6 DEF Pick, ReducedPick
<1> HIDE DEF n, team, pick
<1>8. b \in Boards /\ Filled(b) = 1..(c + 1) /\ b[n] = pick
      /\ \A m \in PickNumbers \ {n} : b[m] = board[m]
  <2>1. 1..c \cup {c + 1} = 1..(c + 1)
    BY <1>4
  <2>2. /\ b \in Boards /\ Filled(b) = Filled(board) \cup {n} /\ b[n] = pick
        /\ \A m \in PickNumbers \ {n} : b[m] = board[m]
    <3>1. b \in Boards /\ b[n] = pick /\ \A m \in PickNumbers \ {n} : b[m] = board[m]
      BY <1>2, <1>5, <1>7 DEF Boards
    <3> HIDE DEF b
    <3> QED
      BY <1>2, <1>5, <1>7, <3>1, FilledByPlacing
  <2> QED
    BY <1>3, <1>5, <2>1, <2>2
<1>9. InOrder(b)
  <2>1. \A m \in 1..(c + 1) : b[m].team = TeamOf(m)
    BY <1>3, <1>4, <1>5, <1>7, <1>8, MaxPicksAssumption DEF PickNumbers, team
  <2> QED
    BY <1>5, <1>8, <1>4, <2>1 DEF InOrder
<1>10. PlayersDistinct(b)
  <2>1. \A m \in 1..c : m # n /\ m \in Filled(board) /\ b[m] = board[m] /\ board[m].player # p
    BY <1>1, <1>3, <1>5, <1>8 DEF Drafted, Filled
  <2>2. \A m \in Filled(b) : m = n \/ m \in 1..c
    BY <1>5, <1>8
  <2> QED
    BY <1>7, <1>8, <2>1, <2>2 DEF PlayersDistinct, IInv, OnePickPerPlayer
<1>11. e \in Event /\ e.team = team /\ e.advice = adviceRef
  <2>1. adviceRef \in Nat /\ n \in 0..MaxPicks /\ team \in Nat
    BY <1>2, <1>5, <1>6, MaxPicksAssumption DEF PickNumbers
  <2> HIDE DEF adviceRef
  <2> QED
    BY <2>1 DEF PickEvent, Event, EventTypes
<1>12. team = setup.owner => adviceRef = Len(log)
  BY <1>1
<1> HIDE DEF e, adviceRef, b
<1>13. Len(<<e>>) = 1 /\ <<e>>[1] = e /\ <<e>> \in Seq(Event)
  BY <1>11
<1>14. \A i \in 1..Len(<<e>>) :
         <<e>>[i].type = "pick_recorded" /\ <<e>>[i].team = setup.owner =>
           <<e>>[i].advice = Len(log) + i - 1
  <2> SUFFICES ASSUME NEW i \in 1..Len(<<e>>), <<e>>[i].team = setup.owner
               PROVE  <<e>>[i].advice = Len(log) + i - 1
    OBVIOUS
  <2>1. i = 1
    BY <1>13
  <2> QED
    BY <1>2, <1>11, <1>12, <1>13, <2>1
<1> QED
  BY <1>1, <1>8, <1>9, <1>10, <1>13, <1>14, PickStep

(* advance_opponent_pick and a manual pick are such picks. *)
LEMMA PickActionsStep ==
  ASSUME IInv, RecordPick \/ AdvanceOpponent
  PROVE  IInv'
<1>1. advice \in 0..Len(log) /\ 0 \in 0..Len(log)
  BY LenProperties DEF IInv, TypeOK
<1>2. CASE RecordPick
  <2>1. PICK p \in Players : AppendPick(p, advice, "manual")
    BY <1>2, IdentifiedAssumption DEF RecordPick
  <2> QED
    BY <1>1, <2>1, AppendPickStep
<1>3. CASE AdvanceOpponent
  <2>1. PICK p \in Players : AppendPick(p, 0, "mock_auto")
    BY <1>3 DEF AdvanceOpponent, OpponentChoices, IInv, TypeOK, Inputs
  <2> QED
    BY <1>1, <2>1, AppendPickStep
<1> QED
  BY <1>2, <1>3

(* Undoing the latest pick shortens the gap-free prefix by one; undoing    *)
(* any other would leave a gap.                                            *)
LEMMA ReverseLatestStep ==
  ASSUME IInv, ReverseLatestPick
  PROVE  IInv'
<1>1. PICK n \in Filled(board) :
        /\ status \in Active
        /\ n = PickCount(board)
        /\ AppendPicks(<<ReversalEvent(n)>>, [ board EXCEPT ![n] = Open ])
  BY DEF ReverseLatestPick
<1> DEFINE e == ReversalEvent(n)
           b == [ board EXCEPT ![n] = Open ]
<1>2. board \in Boards /\ setup \in Setups
  BY DEF IInv, TypeOK, Boards
<1>3. PICK c \in 0..Total : Filled(board) = 1..c /\ \A m \in 1..c : board[m].team = TeamOf(m)
  BY DEF IInv, BoardInOrder, InOrder
<1>4. Total \in 1..MaxPicks
  BY <1>2, GeometryType
<1>5. n = c /\ c \in 1..Total /\ n \in PickNumbers /\ board[n] \in ReducedPick
  BY <1>1, <1>2, <1>3, <1>4, PickCountOfPrefix, FilledHoldsPick
<1>6. b \in Boards /\ Filled(b) = 1..(c - 1) /\ \A m \in 1..(c - 1) : b[m] = board[m]
  <2>1. 1..c \ {c} = 1..(c - 1)
    BY <1>5
  <2>2. /\ b \in Boards /\ Filled(b) = Filled(board) \ {n}
        /\ \A m \in PickNumbers \ {n} : b[m] = board[m]
    BY <1>2, <1>5, FilledByReopening
  <2>3. \A m \in 1..(c - 1) : m \in PickNumbers \ {n}
    BY <1>4, <1>5, MaxPicksAssumption DEF PickNumbers
  <2> QED
    BY <1>3, <1>5, <2>1, <2>2, <2>3
<1>7. e \in Event /\ e.type = "pick_reversed"
  BY <1>5, MaxPicksAssumption
     DEF ReversalEvent, PickEvent, Event, EventTypes, ReducedPick, PickNumbers
<1> HIDE DEF e, b
<1>8. InOrder(b)
  BY <1>3, <1>4, <1>5, <1>6 DEF InOrder
<1>9. PlayersDistinct(b)
  BY <1>3, <1>5, <1>6 DEF PlayersDistinct, IInv, OnePickPerPlayer
<1>10. /\ <<e>> \in Seq(Event)
       /\ \A i \in 1..Len(<<e>>) : <<e>>[i].type # "pick_recorded"
  BY <1>7
<1> QED
  BY <1>1, <1>6, <1>8, <1>9, <1>10, PickStep DEF e, b

(* Replacing an active pick fills the same places of the board. *)
LEMMA ReplacePickStep ==
  ASSUME IInv, ReplaceActivePick
  PROVE  IInv'
<1>1. PICK n \in Filled(board), p \in Players : ReplacePick(n, p)
  BY IdentifiedAssumption DEF ReplaceActivePick
<1> DEFINE e == ReversalEvent(n)
           f == PickEvent("pick_replaced", n, board[n].team, p, board[n].event, 0)
           pick == Pick(Len(log) + 2, p, board[n].team)
           b == [ board EXCEPT ![n] = pick ]
<1>2. /\ status \in Active
      /\ p \notin { board[m].player : m \in Filled(board) \ {n} }
      /\ AppendPicks(<<e, f>>, b)
  BY <1>1 DEF ReplacePick
<1>3. board \in Boards /\ Len(log) \in Nat
  BY LenProperties DEF IInv, TypeOK, Boards
<1>4. n \in PickNumbers /\ board[n] \in ReducedPick
  BY <1>3, FilledHoldsPick
<1>5. pick \in ReducedPick /\ pick.team = board[n].team /\ pick.player = p
  BY <1>3, <1>4 DEF Pick, ReducedPick
<1>6. /\ e \in Event /\ e.type = "pick_reversed"
      /\ f \in Event /\ f.type = "pick_replaced"
  BY <1>4, MaxPicksAssumption
     DEF ReversalEvent, PickEvent, Event, EventTypes, ReducedPick, PickNumbers
<1> HIDE DEF e, f, pick
<1>7. /\ b \in Boards /\ Filled(b) = Filled(board) \cup {n} /\ b[n] = pick
      /\ \A m \in PickNumbers \ {n} : b[m] = board[m]
  <2>1. b \in Boards /\ b[n] = pick /\ \A m \in PickNumbers \ {n} : b[m] = board[m]
    BY <1>3, <1>4, <1>5 DEF Boards
  <2> HIDE DEF b
  <2> QED
    BY <1>3, <1>4, <1>5, <2>1, FilledByPlacing
<1>8. Filled(b) = Filled(board) /\ \A m \in Filled(b) \ {n} : b[m] = board[m]
  BY <1>7 DEF Filled
<1> HIDE DEF b
<1>9. InOrder(b)
  <2>1. PICK c \in 0..Total : Filled(board) = 1..c /\ \A m \in 1..c : board[m].team = TeamOf(m)
    BY DEF IInv, BoardInOrder, InOrder
  <2>2. \A m \in 1..c : b[m].team = TeamOf(m)
    BY <1>5, <1>7, <1>8, <2>1
  <2> QED
    BY <1>8, <2>1, <2>2 DEF InOrder
<1>10. PlayersDistinct(b)
  <2>1. \A m \in Filled(b) \ {n} : b[m].player # p
    BY <1>2, <1>8
  <2> QED
    BY <1>5, <1>7, <1>8, <2>1 DEF PlayersDistinct, IInv, OnePickPerPlayer
<1>11. /\ <<e, f>> \in Seq(Event)
       /\ \A i \in 1..Len(<<e, f>>) : <<e, f>>[i].type # "pick_recorded"
  BY <1>6
<1> QED
  BY <1>2, <1>7, <1>9, <1>10, <1>11, PickStep

(* Reading the advice publishes at most the advice of the current log. *)
LEMMA ReadAdviceStep ==
  ASSUME IInv, ReadAdvice
  PROVE  IInv'
<1>1. UNCHANGED << log, board, status, setup, sourceMode, inputs, roster >>
  BY DEF ReadAdvice
<1>2. advice' \in 0..Len(log')
  BY <1>1, LenProperties DEF ReadAdvice, NewAdvice, IInv, TypeOK
<1> QED
  BY <1>1, <1>2 DEF IInv, TypeOK, NothingBeforeStart, BoardInOrder, InOrder, OnePickPerPlayer,
                    PlayersDistinct, OwnerPickAdvised, Total, TeamOf

----------------------------------------------------------------------------
(* The invariant is inductive.                                             *)

(* A new session has an open board and no events. *)
LEMMA InvariantInitially == Init => IInv
<1> SUFFICES ASSUME Init PROVE IInv
  OBVIOUS
<1>1. log = <<>> /\ board = OpenBoard /\ setup \in Setups /\ sourceMode \in SourceModes
  BY DEF Init
<1>2. inputs \in Inputs
  BY SnapshotsAssumption DEF Init, Inputs
<1>3. status \in Statuses
  BY DEF Init, StatusWhen, Statuses
<1>4. roster \in [ Players -> RosterSpots ] /\ advice \in 0..Len(log)
  BY <1>1 DEF Init, RosterSpots
<1>5. TypeOK
  BY <1>1, <1>2, <1>3, <1>4 DEF TypeOK, OpenBoard
<1>6. Filled(board) = {}
  BY <1>1 DEF Filled, OpenBoard
<1>7. BoardInOrder
  <2>1. 0 \in 0..Total /\ 1..0 = {}
    BY <1>1, GeometryType, MaxPicksAssumption
  <2> QED
    BY <1>6, <2>1 DEF BoardInOrder, InOrder
<1>8. OnePickPerPlayer /\ OwnerPickAdvised
  BY <1>1, <1>6 DEF OnePickPerPlayer, PlayersDistinct, OwnerPickAdvised
<1> QED
  BY <1>1, <1>5, <1>7, <1>8 DEF IInv, NothingBeforeStart

(* Every operation keeps the invariant. *)
LEMMA InvariantPreserved == IInv /\ [Next]_vars => IInv'
<1> SUFFICES ASSUME IInv, [Next]_vars PROVE IInv'
  OBVIOUS
<1> DEFINE T == EventTypes \ {"pick_recorded"}
<1>1. /\ {"LIVE", "PAUSED", "COMPLETE", "ABANDONED"} \subseteq Statuses \ Unstarted
      /\ { "session_started", "session_paused", "session_resumed", "session_completed",
           "session_abandoned", "session_reopened" } \subseteq T
  BY DEF Statuses, Unstarted, EventTypes
<1>2. CASE Start
  BY <1>1, <1>2, TransitionStep DEF Start
<1>3. CASE Pause \/ Resume
  BY <1>1, <1>3, TransitionStep DEF Pause, Resume
<1>4. CASE Complete \/ Abandon \/ Reopen
  BY <1>1, <1>4, TransitionStep DEF Complete, Abandon, Reopen
<1>5. CASE RecordPick \/ AdvanceOpponent
  BY <1>5, PickActionsStep
<1>6. CASE ReverseLatestPick
  BY <1>6, ReverseLatestStep
<1>7. CASE ReplaceActivePick
  BY <1>7, ReplacePickStep
<1>8. CASE UpdateSetup
  BY <1>8, UpdateSetupStep
<1>9. CASE BindInputs
  BY <1>9, BindInputsStep
<1>10. CASE ReadAdvice
  BY <1>10, ReadAdviceStep
<1>11. CASE UNCHANGED vars
  BY <1>11 DEF vars, IInv, TypeOK, NothingBeforeStart, BoardInOrder, InOrder, OnePickPerPlayer,
               PlayersDistinct, OwnerPickAdvised, Total, TeamOf
<1> QED
  BY <1>2, <1>3, <1>4, <1>5, <1>6, <1>7, <1>8, <1>9, <1>10, <1>11 DEF Next

(* The invariant holds throughout a session. *)
LEMMA InvariantHolds == Spec => []IInv
<1>1. IInv /\ [Next]_vars => IInv'
  BY InvariantPreserved
<1> QED
  BY <1>1, InvariantInitially, PTL DEF Spec

----------------------------------------------------------------------------
(* Theorems.                                                               *)

(* Every variable of a draft session keeps its type, for every number of   *)
(* players, teams, rounds and events.                                      *)
THEOREM TypesHold == Spec => []TypeOK
<1>1. IInv => TypeOK
  BY DEF IInv
<1> QED
  BY <1>1, InvariantHolds, PTL

(* However picks are recorded, undone and replaced, the board stays a      *)
(* gap-free prefix of the draft in snake order.                            *)
THEOREM BoardStaysInOrder == Spec => []BoardInOrder
<1>1. IInv => BoardInOrder
  BY DEF IInv
<1> QED
  BY <1>1, InvariantHolds, PTL

(* No player is ever on the board twice. *)
THEOREM NoPlayerTwice == Spec => []OnePickPerPlayer
<1>1. IInv => OnePickPerPlayer
  BY DEF IInv
<1> QED
  BY <1>1, InvariantHolds, PTL

(* Every recorded owner pick was made on the advice published for exactly  *)
(* the log it extends.                                                     *)
THEOREM OwnerPicksAreAdvised == Spec => []OwnerPickAdvised
<1>1. IInv => OwnerPickAdvised
  BY DEF IInv
<1> QED
  BY <1>1, InvariantHolds, PTL

(* A started draft keeps its geometry, never returns to its setup and, once *)
(* abandoned, keeps its board: update_setup and the readiness branch of     *)
(* bind_input_snapshots are the writers that could undo a start.            *)
THEOREM StartsAreFinal == Spec => StartIsFinal
<1>1. [Next]_vars => [StartStands]_vars
  <2> SUFFICES ASSUME Next, status \notin Unstarted PROVE StartStands
    BY DEF StartStands
  <2>1. CASE Start \/ Pause \/ Resume \/ Complete \/ Abandon \/ Reopen
    BY <2>1 DEF Start, Pause, Resume, Complete, Abandon, Reopen, Transition, StartStands,
                Unstarted, Active
  <2>2. ASSUME NEW events, NEW b, status \in Active, AppendPicks(events, b)
        PROVE  StartStands
    BY <2>2 DEF AppendPicks, StartStands, Unstarted, Active
  <2>3. CASE RecordPick \/ AdvanceOpponent
    <3>1. PICK p, ref, source : AppendPick(p, ref, source)
      BY <2>3 DEF RecordPick, AdvanceOpponent
    <3> QED
      BY <2>2, <3>1 DEF AppendPick, Active
  <2>4. CASE ReverseLatestPick
    BY <2>2, <2>4 DEF ReverseLatestPick
  <2>5. CASE ReplaceActivePick
    BY <2>2, <2>5 DEF ReplaceActivePick, ReplacePick
  <2>6. CASE UpdateSetup
    BY <2>6 DEF UpdateSetup
  <2>7. CASE BindInputs
    BY <2>7 DEF BindInputs, StartStands, AppendSessionEvent, Unstarted
  <2>8. CASE ReadAdvice
    BY <2>8 DEF ReadAdvice, StartStands
  <2> QED
    BY <2>1, <2>3, <2>4, <2>5, <2>6, <2>7, <2>8 DEF Next
<1> QED
  BY <1>1, PTL DEF Spec, StartIsFinal

(* A board whose filled places were all filled before has no more picks. *)
LEMMA PickCountShrinks ==
  ASSUME NEW a, NEW b, Filled(b) \subseteq Filled(a)
  PROVE  PickCount(b) <= PickCount(a) /\ PickCount(a) \in Nat /\ PickCount(b) \in Nat
<1>1. IsFiniteSet(Filled(a))
  <2>1. IsFiniteSet(PickNumbers)
    BY FS_Interval, MaxPicksAssumption DEF PickNumbers
  <2> QED
    BY <2>1, FS_Subset DEF Filled
<1>2. IsFiniteSet(Filled(b)) /\ Cardinality(Filled(b)) <= Cardinality(Filled(a))
  BY <1>1, FS_Subset
<1> QED
  BY <1>1, <1>2, FS_CardinalityType DEF PickCount

(* The board moves only in play and grows only while the draft is live:    *)
(* corrections while paused, and every session event, leave it no longer.  *)
THEOREM BoardOnlyMovesInPlay == Spec => BoardMovesInPlay
<1>1. IInv /\ [Next]_vars => [BoardMoveInPlay]_vars
  <2> SUFFICES ASSUME IInv, Next, board' # board PROVE BoardMoveInPlay
    BY DEF BoardMoveInPlay
  <2>1. board \in Boards
    BY DEF IInv, TypeOK, Boards
  <2>2. CASE RecordPick \/ AdvanceOpponent
    BY <2>2 DEF RecordPick, AdvanceOpponent, AppendPick, BoardMoveInPlay, Active
  <2>3. CASE ReverseLatestPick
    <3>1. PICK n \in Filled(board) : status \in Active /\ board' = [ board EXCEPT ![n] = Open ]
      BY <2>3 DEF ReverseLatestPick, AppendPicks
    <3>2. Filled(board') \subseteq Filled(board)
      BY <2>1, <3>1 DEF Filled, Boards
    <3>3. ~ (PickCount(board') > PickCount(board))
      <4>1. /\ PickCount(board') <= PickCount(board)
            /\ PickCount(board) \in Nat /\ PickCount(board') \in Nat
        BY <3>2, PickCountShrinks
      <4> QED
        BY <4>1
    <3> QED
      BY <3>1, <3>3 DEF BoardMoveInPlay
  <2>4. CASE ReplaceActivePick
    <3>1. PICK n \in Filled(board), p \in Identified : ReplacePick(n, p)
      BY <2>4 DEF ReplaceActivePick
    <3>2. status \in Active
          /\ board' = [ board EXCEPT ![n] = Pick(Len(log) + 2, p, board[n].team) ]
      BY <3>1 DEF ReplacePick, AppendPicks
    <3>3. Filled(board') \subseteq Filled(board)
      BY <2>1, <3>2 DEF Filled, Boards
    <3>4. ~ (PickCount(board') > PickCount(board))
      <4>1. /\ PickCount(board') <= PickCount(board)
            /\ PickCount(board) \in Nat /\ PickCount(board') \in Nat
        BY <3>3, PickCountShrinks
      <4> QED
        BY <4>1
    <3> QED
      BY <3>2, <3>4 DEF BoardMoveInPlay
  <2>5. CASE \/ Start \/ Pause \/ Resume \/ Complete \/ Abandon \/ Reopen
             \/ UpdateSetup \/ BindInputs \/ ReadAdvice
    BY <2>5 DEF Start, Pause, Resume, Complete, Abandon, Reopen, Transition,
                AppendSessionEvent, UpdateSetup, BindInputs, ReadAdvice
  <2> QED
    BY <2>2, <2>3, <2>4, <2>5 DEF Next
<1> QED
  BY <1>1, InvariantHolds, PTL DEF Spec, BoardMovesInPlay

(* A started draft moves by its rules only: setup edits and session events *)
(* after the start, and corrections out of play, are never accepted.       *)
THEOREM PlayStaysOrderly == Spec => PlayIsOrderly
  BY StartsAreFinal, BoardOnlyMovesInPlay DEF PlayIsOrderly
=============================================================================
