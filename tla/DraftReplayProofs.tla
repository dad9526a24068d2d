-------------------------- MODULE DraftReplayProofs --------------------------
(***************************************************************************)
(* Proofs that the log alone gives the board and the status of a draft     *)
(* session, that a completed live draft has its roster on the teams of the *)
(* board, and that an automatic mock's opponents never run out of players. *)
(*                                                                         *)
(* The lemmas on logs and boards speak of any event log, so that what      *)
(* Yahoo's batches append is covered by them too: DraftReconciliationProofs *)
(* builds on them.                                                         *)
(***************************************************************************)
EXTENDS DraftLogProofs

----------------------------------------------------------------------------
(* The log alone gives the board and the status.                           *)

(* What the i-th event leaves of a board: one step of reduce_picks.        *)
AfterEvent(events, i, before) ==
  LET e == events[i]
  IN CASE e.type \in {"pick_recorded", "pick_replaced"} ->
            [ before EXCEPT ![e.overall] = Pick(i, e.player, e.team) ]
       [] e.type = "pick_reversed" ->
            [ before EXCEPT ![events[e.supersedes].overall] = Open ]
       [] OTHER -> before

Reduces(events, after) ==
  after = [ i \in 0..Len(events) |->
              IF i = 0 THEN OpenBoard ELSE AfterEvent(events, i, after[i - 1]) ]

ReducesTo(events, b) == \E after : Reduces(events, after) /\ after[Len(events)] = b

(* The status a log leaves, as StatusIsReplayable has it. *)
Lifecycle(events) == { i \in 1..Len(events) : events[i].type \in DOMAIN LifecycleStatus }

Replays(events, s) ==
  IF Lifecycle(events) = {} THEN s \in Unstarted
  ELSE \E i \in Lifecycle(events) :
         (\A j \in Lifecycle(events) : j <= i) /\ s = LifecycleStatus[events[i].type]

(* A reversal is of an earlier event. *)
SupersedesEarlier(events) ==
  \A i \in 1..Len(events) :
    events[i].type = "pick_reversed" => events[i].supersedes \in 1..(i - 1)

(* A pick of the board names the event of the log that made it. *)
PicksAreEvents(events, b) ==
  \A n \in Filled(b) : b[n].event \in 1..Len(events) /\ events[b[n].event].overall = n

LogSound(events, b, s) ==
  /\ events \in Seq(Event)
  /\ SupersedesEarlier(events)
  /\ ReducesTo(events, b)
  /\ PicksAreEvents(events, b)
  /\ Replays(events, s)

(* The boards after each event are determined by the log. *)
LEMMA ReductionUnique ==
  ASSUME NEW events, Len(events) \in Nat,
         NEW f, Reduces(events, f), NEW g, Reduces(events, g)
  PROVE  f = g
<1> DEFINE T == { i \in 0..Len(events) : f[i] # g[i] }
<1>1. \A i \in 0..Len(events) :
        /\ f[i] = IF i = 0 THEN OpenBoard ELSE AfterEvent(events, i, f[i - 1])
        /\ g[i] = IF i = 0 THEN OpenBoard ELSE AfterEvent(events, i, g[i - 1])
  BY Zenon DEF Reduces
<1>2. T = {}
  <2> SUFFICES ASSUME T # {} PROVE FALSE
    OBVIOUS
  <2>0. T \subseteq Nat
    BY SMT
  <2> HIDE DEF T
  <2>1. PICK i \in T : \A j \in T : i <= j
    BY <2>0, LeastNumber
  <2> USE DEF T
  <2>2. i # 0
    BY <1>1, <2>1
  <2>3. i - 1 \in 0..Len(events) /\ ~ (i <= i - 1)
    BY <2>1, <2>2
  <2>4. f[i - 1] = g[i - 1]
    BY <2>1, <2>3
  <2> QED
    BY <1>1, <2>1, <2>2, <2>4
<1>3. \A i \in 0..Len(events) : f[i] = g[i]
  BY <1>2
<1>4. f = [ i \in 0..Len(events) |-> f[i] ] /\ g = [ i \in 0..Len(events) |-> g[i] ]
  BY Zenon DEF Reduces
<1> QED
  BY <1>3, <1>4

(* The reducer derives the board a log reduces to. *)
LEMMA ReducePicksOf ==
  ASSUME NEW events, Len(events) \in Nat, NEW b, ReducesTo(events, b)
  PROVE  ReducePicks(events) = b
<1>1. PICK after : Reduces(events, after) /\ after[Len(events)] = b
  BY DEF ReducesTo
<1>2. ReducePicks(events) = (CHOOSE f : Reduces(events, f))[Len(events)]
  BY Zenon DEF ReducePicks, Reduces, AfterEvent
<1>3. Reduces(events, CHOOSE f : Reduces(events, f))
  BY <1>1
<1>4. (CHOOSE f : Reduces(events, f)) = after
  BY <1>1, <1>3, ReductionUnique
<1> QED
  BY <1>1, <1>2, <1>4

(* A further event takes the board one step on. *)
LEMMA ReducesOn ==
  ASSUME NEW events \in Seq(Event), NEW e \in Event, NEW b, ReducesTo(events, b),
         SupersedesEarlier(events)
  PROVE  ReducesTo(Append(events, e), AfterEvent(Append(events, e), Len(events) + 1, b))
<1> DEFINE longer == Append(events, e)
           len == Len(events)
           last == AfterEvent(longer, len + 1, b)
<1>1. PICK after : Reduces(events, after) /\ after[len] = b
  BY DEF ReducesTo
<1> DEFINE on == [ i \in 0..(len + 1) |-> IF i <= len THEN after[i] ELSE last ]
<1>2. /\ len \in Nat /\ Len(longer) = len + 1 /\ longer[len + 1] = e
      /\ \A i \in 1..len : longer[i] = events[i]
  BY AppendProperties, LenProperties
<1>3. ASSUME NEW i \in 1..len, NEW before
      PROVE  AfterEvent(longer, i, before) = AfterEvent(events, i, before)
  <2>1. longer[i] = events[i]
    BY <1>2
  <2>2. events[i].type = "pick_reversed" =>
          longer[events[i].supersedes] = events[events[i].supersedes]
    <3> SUFFICES ASSUME events[i].type = "pick_reversed"
                 PROVE  longer[events[i].supersedes] = events[events[i].supersedes]
      OBVIOUS
    <3>1. events[i].supersedes \in 1..(i - 1)
      BY DEF SupersedesEarlier
    <3>2. \A k \in 1..(i - 1) : k \in 1..len
      BY <1>2
    <3> QED
      BY <1>2, <3>1, <3>2
  <2> QED
    BY <2>1, <2>2 DEF AfterEvent
<1>4. \A i \in 0..len : after[i] = IF i = 0 THEN OpenBoard
                                   ELSE AfterEvent(events, i, after[i - 1])
  BY <1>1, Zenon DEF Reduces
<1> HIDE DEF last, longer
<1>5. ASSUME NEW i \in 0..(len + 1)
      PROVE  on[i] = IF i = 0 THEN OpenBoard ELSE AfterEvent(longer, i, on[i - 1])
  <2>1. CASE i = 0
    BY <1>2, <1>4, <2>1
  <2>2. CASE i \in 1..len
    <3>1. on[i] = after[i] /\ on[i - 1] = after[i - 1] /\ i # 0 /\ i \in 0..len
      BY <1>2, <2>2
    <3> QED
      BY <1>3, <1>4, <2>2, <3>1
  <2>3. CASE i = len + 1
    <3>1. on[i] = last /\ on[i - 1] = after[len] /\ i # 0
      BY <1>2, <2>3
    <3> QED
      BY <1>1, <2>3, <3>1 DEF last
  <2> QED
    BY <1>2, <2>1, <2>2, <2>3
<1>6. Reduces(longer, on)
  <2>1. on = [ i \in 0..(len + 1) |-> on[i] ]
    BY Zenon
  <2> HIDE DEF on
  <2>2. [ i \in 0..(len + 1) |-> on[i] ] =
          [ i \in 0..(len + 1) |-> IF i = 0 THEN OpenBoard ELSE AfterEvent(longer, i, on[i - 1]) ]
    BY <1>5
  <2>3. on = [ i \in 0..Len(longer) |-> IF i = 0 THEN OpenBoard
                                        ELSE AfterEvent(longer, i, on[i - 1]) ]
    BY <1>2, <2>1, <2>2 DEF longer
  <2> QED
    BY <2>3, Zenon DEF Reduces
<1>7. on[Len(longer)] = last
  BY <1>2 DEF longer
<1> QED
  BY <1>6, <1>7 DEF ReducesTo, last, longer

(* The status an event of a type leaves. *)
StatusAfter(type, s) == IF type \in DOMAIN LifecycleStatus THEN LifecycleStatus[type] ELSE s

(* A further event takes the replayed status one step on. *)
LEMMA ReplaysOn ==
  ASSUME NEW events \in Seq(Event), NEW e \in Event, NEW s, Replays(events, s)
  PROVE  Replays(Append(events, e), StatusAfter(e.type, s))
<1> DEFINE longer == Append(events, e)
           len == Len(events)
<1>1. /\ len \in Nat /\ Len(longer) = len + 1 /\ longer[len + 1] = e
      /\ \A i \in 1..len : longer[i] = events[i]
  BY AppendProperties, LenProperties
<1> HIDE DEF longer
<1>2. \A i \in Lifecycle(events) : i \in Lifecycle(longer) /\ longer[i] = events[i]
  BY <1>1 DEF Lifecycle
<1>3. \A i \in Lifecycle(longer) : i \in Lifecycle(events) \/ i = len + 1
  BY <1>1 DEF Lifecycle
<1>4. CASE e.type \in DOMAIN LifecycleStatus
  <2>1. len + 1 \in Lifecycle(longer) /\ \A j \in Lifecycle(longer) : j <= len + 1
    BY <1>1, <1>4 DEF Lifecycle
  <2>2. StatusAfter(e.type, s) = LifecycleStatus[longer[len + 1].type]
    BY <1>1, <1>4 DEF StatusAfter
  <2> QED
    BY <2>1, <2>2, Zenon DEF Replays, longer
<1>5. CASE e.type \notin DOMAIN LifecycleStatus
  <2>1. len + 1 \notin Lifecycle(longer)
    BY <1>1, <1>5 DEF Lifecycle
  <2>2. Lifecycle(longer) = Lifecycle(events)
    BY <1>2, <1>3, <2>1
  <2>3. StatusAfter(e.type, s) = s
    BY <1>5 DEF StatusAfter
  <2> QED
    BY <1>2, <2>2, <2>3, Zenon DEF Replays, longer
<1> QED
  BY <1>4, <1>5

(* A log stays sound when an event is appended and takes the board on:     *)
(* every pick is an old one or the one that the event makes.               *)
LEMMA EventLogged ==
  ASSUME NEW events, NEW b, NEW s, LogSound(events, b, s), NEW e \in Event,
         e.type = "pick_reversed" => e.supersedes \in 1..Len(events),
         NEW after, after = AfterEvent(Append(events, e), Len(events) + 1, b),
         \A n \in Filled(after) : \/ n \in Filled(b) /\ after[n] = b[n]
                                  \/ after[n].event = Len(events) + 1 /\ e.overall = n
  PROVE  LogSound(Append(events, e), after, StatusAfter(e.type, s))
<1> DEFINE longer == Append(events, e)
           len == Len(events)
<1>0. events \in Seq(Event) /\ SupersedesEarlier(events) /\ ReducesTo(events, b)
      /\ PicksAreEvents(events, b) /\ Replays(events, s)
  BY DEF LogSound
<1>1. /\ len \in Nat /\ Len(longer) = len + 1 /\ longer[len + 1] = e
      /\ \A i \in 1..len : longer[i] = events[i]
  BY <1>0, AppendProperties, LenProperties
<1>2. longer \in Seq(Event)
  BY <1>0, AppendProperties
<1>3. ReducesTo(longer, after)
  BY <1>0, ReducesOn
<1>4. Replays(longer, StatusAfter(e.type, s))
  BY <1>0, ReplaysOn
<1> HIDE DEF longer
<1>5. SupersedesEarlier(longer)
  <2> SUFFICES ASSUME NEW i \in 1..Len(longer), longer[i].type = "pick_reversed"
               PROVE  longer[i].supersedes \in 1..(i - 1)
    BY DEF SupersedesEarlier
  <2>1. CASE i \in 1..len
    BY <1>0, <1>1, <2>1 DEF SupersedesEarlier
  <2>2. CASE i = len + 1
    BY <1>1, <2>2
  <2> QED
    BY <1>1, <2>1, <2>2
<1>6. PicksAreEvents(longer, after)
  <2> SUFFICES ASSUME NEW n \in Filled(after)
               PROVE  after[n].event \in 1..Len(longer) /\ longer[after[n].event].overall = n
    BY DEF PicksAreEvents
  <2>1. CASE n \in Filled(b) /\ after[n] = b[n]
    <3>1. after[n].event \in 1..len /\ events[after[n].event].overall = n
      BY <1>0, <2>1 DEF PicksAreEvents
    <3> QED
      BY <1>1, <3>1
  <2>2. CASE after[n].event = len + 1 /\ e.overall = n
    BY <1>1, <2>2
  <2> QED
    BY <2>1, <2>2
<1> QED
  BY <1>2, <1>3, <1>4, <1>5, <1>6 DEF LogSound, longer

(* An event that neither makes nor undoes a pick leaves the board alone. *)
LEMMA QuietEventLogged ==
  ASSUME NEW events, NEW b, NEW s, LogSound(events, b, s), NEW e \in Event,
         e.type \notin {"pick_recorded", "pick_replaced", "pick_reversed"}
  PROVE  LogSound(Append(events, e), b, StatusAfter(e.type, s))
<1>1. events \in Seq(Event)
  BY DEF LogSound
<1>2. Append(events, e)[Len(events) + 1] = e
  BY <1>1, AppendProperties
<1>3. b = AfterEvent(Append(events, e), Len(events) + 1, b)
  BY <1>2 DEF AfterEvent
<1> QED
  BY <1>3, EventLogged

(* Such are the session events. *)
LEMMA SessionEventLogged ==
  ASSUME NEW events, NEW b, NEW s, LogSound(events, b, s),
         NEW type \in EventTypes \ {"pick_recorded", "pick_replaced", "pick_reversed"}
  PROVE  LogSound(Append(events, SessionEvent(type)), b, StatusAfter(type, s))
<1> DEFINE e == SessionEvent(type)
<1>1. e \in Event /\ e.type = type
  BY SessionEventType
<1> HIDE DEF e
<1>2. LogSound(Append(events, e), b, StatusAfter(e.type, s))
  BY <1>1, QuietEventLogged
<1> QED
  BY <1>1, <1>2 DEF e

(* A recorded or replacing event puts its own pick on the board. *)
LEMMA PickLogged ==
  ASSUME NEW events, NEW b \in Boards, NEW s, LogSound(events, b, s), NEW e \in Event,
         e.type \in {"pick_recorded", "pick_replaced"}, e.overall \in PickNumbers
  PROVE  LogSound(Append(events, e),
                  [ b EXCEPT ![e.overall] = Pick(Len(events) + 1, e.player, e.team) ], s)
<1> DEFINE after == [ b EXCEPT ![e.overall] = Pick(Len(events) + 1, e.player, e.team) ]
<1>1. events \in Seq(Event)
  BY DEF LogSound
<1>2. Append(events, e)[Len(events) + 1] = e
  BY <1>1, AppendProperties
<1>3. after = AfterEvent(Append(events, e), Len(events) + 1, b)
  BY <1>2 DEF AfterEvent
<1>4. \A n \in Filled(after) : \/ n \in Filled(b) /\ after[n] = b[n]
                               \/ after[n].event = Len(events) + 1 /\ e.overall = n
  BY DEF Filled, Boards, Pick
<1>5. StatusAfter(e.type, s) = s
  BY DEF StatusAfter, LifecycleStatus
<1> HIDE DEF after
<1>6. LogSound(Append(events, e), after, StatusAfter(e.type, s))
  BY <1>3, <1>4, EventLogged
<1> QED
  BY <1>5, <1>6 DEF after

(* A reversal that names the event of an active pick opens that pick. *)
LEMMA ReversalLogged ==
  ASSUME NEW events, NEW b \in Boards, NEW s, LogSound(events, b, s), NEW e \in Event,
         NEW n \in Filled(b), e.type = "pick_reversed", e.supersedes = b[n].event
  PROVE  LogSound(Append(events, e), [ b EXCEPT ![n] = Open ], s)
<1> DEFINE after == [ b EXCEPT ![n] = Open ]
           longer == Append(events, e)
<1>1. events \in Seq(Event) /\ PicksAreEvents(events, b)
  BY DEF LogSound
<1>2. longer[Len(events) + 1] = e /\ \A i \in 1..Len(events) : longer[i] = events[i]
  BY <1>1, AppendProperties
<1>3. e.supersedes \in 1..Len(events) /\ events[e.supersedes].overall = n
  BY <1>1 DEF PicksAreEvents
<1> HIDE DEF longer
<1>4. after = AfterEvent(longer, Len(events) + 1, b)
  BY <1>2, <1>3 DEF AfterEvent
<1>5. \A m \in Filled(after) : m \in Filled(b) /\ after[m] = b[m]
  <2>1. Filled(after) = Filled(b) \ {n} /\ \A m \in PickNumbers \ {n} : after[m] = b[m]
    BY FilledByReopening, FilledHoldsPick
  <2> HIDE DEF after
  <2> QED
    BY <2>1 DEF Filled
<1>6. StatusAfter(e.type, s) = s
  BY DEF StatusAfter, LifecycleStatus
<1> HIDE DEF after
<1>7. LogSound(longer, after, StatusAfter(e.type, s))
  BY <1>3, <1>4, <1>5, EventLogged DEF longer
<1> QED
  BY <1>6, <1>7 DEF after, longer

----------------------------------------------------------------------------
(* The session's own log, board and status.                                *)

HasNoGaps(b) == \E c \in 0..MaxPicks : Filled(b) = 1..c

(* What any operation needs of the session to keep its log replayable.     *)
PlaySound ==
  /\ TypeOK
  /\ HasNoGaps(board)
  /\ LogSound(log, board, status)

(* The log only grows, and stays sound. *)
PlayGoesOn == PlaySound' /\ Len(log) <= Len(log')

(* The events that name a pick are well typed. *)
LEMMA PickEventType ==
  ASSUME NEW type \in EventTypes, NEW n \in PickNumbers, NEW team \in Nat,
         NEW p \in Players \cup {NoPlayer}, NEW superseded \in Nat, NEW ref \in Nat,
         NEW e, e = PickEvent(type, n, team, p, superseded, ref)
  PROVE  /\ e \in Event /\ e.type = type /\ e.overall = n /\ e.team = team
         /\ e.player = p /\ e.supersedes = superseded /\ e.advice = ref
  BY MaxPicksAssumption DEF PickEvent, Event, PickNumbers

(* A board without gaps is filled up to its pick count. *)
LEMMA NextPickOf ==
  ASSUME NEW b \in Boards, HasNoGaps(b)
  PROVE  /\ PickCount(b) \in 0..MaxPicks /\ Filled(b) = 1..PickCount(b)
         /\ \A n \in PickNumbers : b[n] = Open <=> n > PickCount(b)
<1>1. PICK c \in 0..MaxPicks : Filled(b) = 1..c
  BY DEF HasNoGaps
<1>2. c \in Nat
  BY MaxPicksAssumption
<1>3. PickCount(b) = c
  BY <1>1, <1>2, PickCountOfPrefix
<1> QED
  BY <1>1, <1>2, <1>3, MaxPicksAssumption DEF Filled, PickNumbers

(* Filling the next place leaves no gap. *)
LEMMA PlacedNext ==
  ASSUME NEW b \in Boards, HasNoGaps(b), NEW n \in PickNumbers, n = PickCount(b) + 1,
         NEW pick \in ReducedPick
  PROVE  /\ [ b EXCEPT ![n] = pick ] \in Boards
         /\ HasNoGaps([ b EXCEPT ![n] = pick ])
         /\ PickCount([ b EXCEPT ![n] = pick ]) = n
<1> DEFINE after == [ b EXCEPT ![n] = pick ]
<1>1. after \in Boards /\ after[n] = pick /\ \A m \in PickNumbers \ {n} : after[m] = b[m]
  BY DEF Boards
<1> HIDE DEF after
<1>2. Filled(after) = Filled(b) \cup {n}
  BY <1>1, FilledByPlacing
<1>3. PickCount(b) \in 0..MaxPicks /\ Filled(b) = 1..PickCount(b)
  BY NextPickOf
<1>4. n \in Nat /\ n \in 0..MaxPicks /\ Filled(after) = 1..n
  BY <1>2, <1>3, MaxPicksAssumption DEF PickNumbers
<1>5. HasNoGaps(after) /\ PickCount(after) = n
  BY <1>4, PickCountOfPrefix DEF HasNoGaps
<1> QED
  BY <1>1, <1>5 DEF after

(* Filling a filled place again leaves the filled places as they are. *)
LEMMA PlacedAgain ==
  ASSUME NEW b \in Boards, HasNoGaps(b), NEW n \in Filled(b), NEW pick \in ReducedPick
  PROVE  /\ [ b EXCEPT ![n] = pick ] \in Boards
         /\ HasNoGaps([ b EXCEPT ![n] = pick ])
         /\ Filled([ b EXCEPT ![n] = pick ]) = Filled(b)
<1> DEFINE after == [ b EXCEPT ![n] = pick ]
<1>1. n \in PickNumbers
  BY DEF Filled
<1>2. after \in Boards /\ after[n] = pick /\ \A m \in PickNumbers \ {n} : after[m] = b[m]
  BY <1>1 DEF Boards
<1> HIDE DEF after
<1>3. Filled(after) = Filled(b) \cup {n}
  BY <1>1, <1>2, FilledByPlacing
<1>4. Filled(after) = Filled(b)
  BY <1>3
<1> QED
  BY <1>2, <1>4 DEF HasNoGaps, after

(* What append_pick_event does after its events keeps the log sound. *)
LEMMA PicksLogged ==
  ASSUME PlaySound, NEW events \in Seq(Event), NEW b \in Boards, HasNoGaps(b),
         LogSound(log \o events, b, status), AppendPicks(events, b)
  PROVE  PlayGoesOn
<1> DEFINE so == log \o events
<1>1. board' = b /\ so \in Seq(Event) /\ log \in Seq(Event) /\ Len(so) = Len(log) + Len(events)
  BY ConcatProperties DEF AppendPicks, LogSound, PlaySound, TypeOK
<1>2. LogSound(log', board', status') /\ Len(log) <= Len(log')
  <2>1. CASE status = "LIVE" /\ PickCount(b) = Total
    <3>1. log' = so \o <<SessionEvent("session_completed")>> /\ status' = "COMPLETE"
      BY <2>1 DEF AppendPicks
    <3>2. so \o <<SessionEvent("session_completed")>> = Append(so, SessionEvent("session_completed"))
      BY <1>1
    <3>3. LogSound(Append(so, SessionEvent("session_completed")), b,
                   StatusAfter("session_completed", status))
      BY SessionEventLogged DEF EventTypes
    <3>4. StatusAfter("session_completed", status) = "COMPLETE"
      BY DEF StatusAfter, LifecycleStatus
    <3>5. Len(log') = Len(so) + 1
      BY <1>1, <3>1, <3>2, AppendProperties, SessionEventType DEF EventTypes
    <3>6. LogSound(log', board', status')
      BY <1>1, <3>1, <3>2, <3>3, <3>4
    <3>7. Len(log) \in Nat /\ Len(events) \in Nat
      BY <1>1, LenProperties
    <3> QED
      BY <1>1, <3>5, <3>6, <3>7
  <2>2. CASE ~ (status = "LIVE" /\ PickCount(b) = Total)
    <3>1. log' = so \o <<>> /\ status' = status
      BY <2>2 DEF AppendPicks
    <3>2. so \o <<>> = so
      BY <1>1
    <3> QED
      BY <1>1, <3>1, <3>2, LenProperties
  <2> QED
    BY <2>1, <2>2
<1>3. roster' \in [ Players -> RosterSpots ]
  BY ProjectedRosterType DEF AppendPicks, PlaySound, TypeOK
<1>4. advice' \in 0..Len(log')
  BY <1>2, AdviceAfterPublishing DEF AppendPicks, PlaySound, TypeOK, LogSound
<1>5. TypeOK'
  BY <1>1, <1>2, <1>3, <1>4
     DEF AppendPicks, PlaySound, TypeOK, LogSound, Boards, Statuses
<1> QED
  BY <1>1, <1>2, <1>5 DEF PlaySound, PlayGoesOn

(* A session event is recorded with the status it leaves. *)
LEMMA SessionEventSound ==
  ASSUME PlaySound,
         NEW type \in EventTypes \ {"pick_recorded", "pick_replaced", "pick_reversed"},
         AppendSessionEvent(type), status' \in Statuses,
         status' = StatusAfter(type, status), setup' = setup, sourceMode' \in SourceModes,
         inputs' \in Inputs, roster' \in [ Players -> RosterSpots ], PublishOrCrash
  PROVE  PlayGoesOn
<1>1. log' = Append(log, SessionEvent(type)) /\ board' = board
  BY DEF AppendSessionEvent
<1>2. LogSound(log', board', status')
  BY <1>1, SessionEventLogged DEF PlaySound
<1>3. Len(log) <= Len(log') /\ log' \in Seq(Event)
  BY <1>1, <1>2, AppendProperties, LenProperties, SessionEventType DEF PlaySound, TypeOK, LogSound
<1>4. advice' \in 0..Len(log')
  BY <1>3, AdviceAfterPublishing DEF PlaySound, TypeOK
<1> QED
  BY <1>1, <1>2, <1>3, <1>4 DEF PlaySound, PlayGoesOn, TypeOK

(* transition_session records the status it sets. *)
LEMMA TransitionLogged ==
  ASSUME PlaySound, NEW from, NEW to, NEW type \in DOMAIN LifecycleStatus,
         to = LifecycleStatus[type], Transition(from, to, type)
  PROVE  PlayGoesOn
<1>1. /\ type \in EventTypes \ {"pick_recorded", "pick_replaced", "pick_reversed"}
      /\ to \in Statuses
  BY DEF LifecycleStatus, EventTypes, Statuses
<1>2. StatusAfter(type, status) = to
  BY DEF StatusAfter
<1>3. roster' \in [ Players -> RosterSpots ]
  BY ProjectedRosterType DEF Transition, PlaySound, TypeOK, Boards
<1> QED
  BY <1>1, <1>2, <1>3, SessionEventSound DEF Transition, PlaySound, TypeOK

(* An unstarted session has no lifecycle event, whatever else its log has. *)
LEMMA UnstartedReplays ==
  ASSUME NEW events, NEW s \in Unstarted, Replays(events, s), NEW t \in Unstarted
  PROVE  Replays(events, t)
<1>1. \A type \in DOMAIN LifecycleStatus : LifecycleStatus[type] \notin Unstarted
  BY DEF LifecycleStatus, Unstarted
<1>2. Lifecycle(events) = {}
  BY <1>1 DEF Replays, Lifecycle
<1> QED
  BY <1>2, Zenon DEF Replays

(* An input change is no lifecycle event. *)
LEMMA BindInputsLogged ==
  ASSUME PlaySound, BindInputs
  PROVE  PlayGoesOn
<1>0. inputs' \in Inputs
  BY SnapshotsAssumption DEF BindInputs, PlaySound, TypeOK, Inputs
<1>1. CASE status \in Active
  <2>1. AppendSessionEvent("input_snapshot_changed") /\ PublishOrCrash
        /\ status' = status /\ setup' = setup /\ sourceMode' = sourceMode /\ roster' = roster
    BY <1>1 DEF BindInputs, Active, Unstarted
  <2>2. StatusAfter("input_snapshot_changed", status) = status
    BY DEF StatusAfter, LifecycleStatus
  <2>3. "input_snapshot_changed" \in EventTypes \ {"pick_recorded", "pick_replaced", "pick_reversed"}
    BY DEF EventTypes
  <2> QED
    BY <1>0, <2>1, <2>2, <2>3, SessionEventSound DEF PlaySound, TypeOK
<1>2. CASE status \notin Active
  <2>1. UNCHANGED << log, board, setup, sourceMode, advice, roster >>
        /\ status \in Unstarted /\ status' \in Unstarted
    BY <1>2 DEF BindInputs, StatusWhen, Unstarted
  <2>2. Replays(log, status')
    BY <2>1, UnstartedReplays DEF PlaySound, LogSound
  <2>3. LogSound(log', board', status')
    BY <2>1, <2>2 DEF PlaySound, LogSound
  <2> QED
    BY <1>0, <2>1, <2>3, LenProperties DEF PlaySound, PlayGoesOn, TypeOK, Unstarted, Statuses
<1> QED
  BY <1>1, <1>2

(* update_setup only moves between setup and ready. *)
LEMMA UpdateSetupLogged ==
  ASSUME PlaySound, UpdateSetup
  PROVE  PlayGoesOn
<1>1. UNCHANGED << log, board, sourceMode, inputs, advice, roster >> /\ setup' \in Setups
      /\ status \in Unstarted /\ status' \in Unstarted
  BY DEF UpdateSetup, StatusWhen, Unstarted
<1>2. Replays(log, status')
  BY <1>1, UnstartedReplays DEF PlaySound, LogSound
<1>3. LogSound(log', board', status')
  BY <1>1, <1>2 DEF PlaySound, LogSound
<1> QED
  BY <1>1, <1>3, LenProperties DEF PlaySound, PlayGoesOn, TypeOK, Unstarted, Statuses

(* A new pick is recorded by the event it appends. *)
LEMMA AppendPickLogged ==
  ASSUME PlaySound, NEW p \in Players, NEW ref \in 0..Len(log), NEW source,
         AppendPick(p, ref, source)
  PROVE  PlayGoesOn
<1> DEFINE n == NextPick
           team == TeamOf(n)
           adviceRef == IF team = setup.owner THEN ref ELSE 0
           e == PickEvent("pick_recorded", n, team, p, 0, adviceRef)
           pick == Pick(Len(log) + 1, p, team)
           b == [ board EXCEPT ![n] = pick ]
<1>1. n <= Total /\ AppendPicks(<<e>>, b)
  BY DEF AppendPick
<1>2. log \in Seq(Event) /\ Len(log) \in Nat /\ board \in Boards /\ setup \in Setups
  BY LenProperties DEF PlaySound, TypeOK, Boards
<1>3. Total \in 1..MaxPicks /\ setup.teams \in Nat \ {0}
  BY <1>2, GeometryType
<1>4. n \in PickNumbers /\ n \in Nat \ {0} /\ n = PickCount(board) + 1
  <2>1. PickCount(board) \in 0..MaxPicks
    BY <1>2, NextPickOf DEF PlaySound
  <2> QED
    BY <1>1, <1>3, <2>1, MaxPicksAssumption DEF PickNumbers, NextPick
<1>5. team \in Nat \ {0}
  <2> HIDE DEF n
  <2>1. SnakeTeam(n, setup.teams) \in 1..setup.teams
    BY <1>3, <1>4, SnakeTeamType
  <2> QED
    BY <1>3, <2>1 DEF TeamOf
<1>6. adviceRef \in Nat
  BY <1>2
<1>7. pick \in ReducedPick
  BY <1>2, <1>5 DEF Pick, ReducedPick
<1> HIDE DEF n, team, adviceRef
<1>8. e \in Event /\ e.type = "pick_recorded" /\ e.overall = n /\ e.player = p /\ e.team = team
  <2>1. "pick_recorded" \in EventTypes /\ p \in Players \cup {NoPlayer} /\ 0 \in Nat
        /\ team \in Nat /\ n \in PickNumbers /\ adviceRef \in Nat
    BY <1>4, <1>5, <1>6 DEF EventTypes
  <2>2. e = PickEvent("pick_recorded", n, team, p, 0, adviceRef)
    OBVIOUS
  <2> HIDE DEF e
  <2> QED
    BY <2>1, <2>2, PickEventType
<1> HIDE DEF e
<1>9. LogSound(Append(log, e), b, status)
  BY <1>2, <1>4, <1>8, PickLogged DEF PlaySound
<1>10. Append(log, e) = log \o <<e>> /\ <<e>> \in Seq(Event)
  BY <1>2, <1>8
<1> HIDE DEF pick
<1>11. b \in Boards /\ HasNoGaps(b)
  BY <1>2, <1>4, <1>7, PlacedNext DEF PlaySound
<1> HIDE DEF b
<1> QED
  BY <1>1, <1>9, <1>10, <1>11, PicksLogged

(* A reversal event names the event that made its pick. *)
LEMMA ReversalEventType ==
  ASSUME board \in Boards, NEW n \in Filled(board)
  PROVE  /\ ReversalEvent(n) \in Event /\ ReversalEvent(n).type = "pick_reversed"
         /\ ReversalEvent(n).supersedes = board[n].event
<1>1. n \in PickNumbers /\ board[n] \in ReducedPick
  BY FilledHoldsPick
<1>2. board[n].team \in Nat /\ board[n].event \in Nat
  BY <1>1 DEF ReducedPick
<1> QED
  <2>1. "pick_reversed" \in EventTypes /\ NoPlayer \in Players \cup {NoPlayer} /\ 0 \in Nat
    BY DEF EventTypes
  <2> QED
    BY <1>1, <1>2, <2>1, PickEventType DEF ReversalEvent

(* The latest pick is undone by naming the event that made it. *)
LEMMA ReverseLogged ==
  ASSUME PlaySound, ReverseLatestPick
  PROVE  PlayGoesOn
<1>1. PICK n \in Filled(board) :
        n = PickCount(board) /\ AppendPicks(<<ReversalEvent(n)>>, [ board EXCEPT ![n] = Open ])
  BY DEF ReverseLatestPick
<1> DEFINE e == ReversalEvent(n)
           b == [ board EXCEPT ![n] = Open ]
<1>2. log \in Seq(Event) /\ board \in Boards
  BY DEF PlaySound, TypeOK, Boards
<1>3. e \in Event /\ e.type = "pick_reversed" /\ e.supersedes = board[n].event
  BY <1>2, ReversalEventType
<1>4. AppendPicks(<<e>>, b)
  BY <1>1
<1> HIDE DEF e
<1>5. LogSound(Append(log, e), b, status)
  BY <1>2, <1>3, ReversalLogged DEF PlaySound
<1>6. Append(log, e) = log \o <<e>> /\ <<e>> \in Seq(Event)
  BY <1>2, <1>3
<1>7. b \in Boards /\ HasNoGaps(b)
  <2>1. PickCount(board) \in 0..MaxPicks /\ Filled(board) = 1..PickCount(board)
    BY <1>2, NextPickOf DEF PlaySound
  <2>2. b \in Boards /\ Filled(b) = Filled(board) \ {n}
    BY <1>2, FilledHoldsPick, FilledByReopening
  <2> HIDE DEF b
  <2>3. n \in 1..MaxPicks /\ Filled(b) = (1..n) \ {n}
    BY <1>1, <2>1, <2>2, MaxPicksAssumption
  <2>4. n - 1 \in 0..MaxPicks /\ (1..n) \ {n} = 1..(n - 1)
    BY <2>3, MaxPicksAssumption
  <2> QED
    BY <2>2, <2>3, <2>4 DEF HasNoGaps
<1> HIDE DEF b
<1> QED
  BY <1>4, <1>5, <1>6, <1>7, PicksLogged

(* A pick undone and made again by two events: what corrections do. *)
LEMMA ReplacementLogged ==
  ASSUME PlaySound, NEW n \in Filled(board), NEW p \in Players
  PROVE  LET f == PickEvent("pick_replaced", n, board[n].team, p, board[n].event, 0)
             b == [ board EXCEPT ![n] = Pick(Len(log) + 2, p, board[n].team) ]
         IN  /\ <<ReversalEvent(n), f>> \in Seq(Event)
             /\ LogSound(log \o <<ReversalEvent(n), f>>, b, status)
             /\ b \in Boards /\ HasNoGaps(b)
<1> DEFINE e == ReversalEvent(n)
           f == PickEvent("pick_replaced", n, board[n].team, p, board[n].event, 0)
           pick == Pick(Len(log) + 2, p, board[n].team)
           opened == [ board EXCEPT ![n] = Open ]
           b == [ board EXCEPT ![n] = pick ]
           again == [ opened EXCEPT ![n] = pick ]
<1>1. log \in Seq(Event) /\ board \in Boards /\ Len(log) \in Nat
  BY LenProperties DEF PlaySound, TypeOK, Boards
<1>2. n \in PickNumbers /\ board[n] \in ReducedPick
  BY <1>1, FilledHoldsPick
<1>3. board[n].team \in Nat \ {0} /\ board[n].event \in Nat
  BY <1>2 DEF ReducedPick
<1>4. e \in Event /\ e.type = "pick_reversed" /\ e.supersedes = board[n].event
  BY <1>1, ReversalEventType
<1>5. /\ f \in Event /\ f.type = "pick_replaced" /\ f.overall = n
      /\ f.player = p /\ f.team = board[n].team
  <2>1. "pick_replaced" \in EventTypes /\ p \in Players \cup {NoPlayer} /\ 0 \in Nat
        /\ board[n].team \in Nat
    BY <1>3 DEF EventTypes
  <2>2. f = PickEvent("pick_replaced", n, board[n].team, p, board[n].event, 0)
    OBVIOUS
  <2> HIDE DEF f
  <2> QED
    BY <1>2, <1>3, <2>1, <2>2, PickEventType
<1>6. pick \in ReducedPick
  BY <1>1, <1>3 DEF Pick, ReducedPick
<1>7. opened \in Boards
  BY <1>1, <1>2, FilledByReopening
<1>8. again = b
  BY <1>1, <1>2 DEF Boards
<1> HIDE DEF e, f
<1>9. LogSound(Append(log, e), opened, status)
  BY <1>1, <1>4, ReversalLogged DEF PlaySound
<1>10. Len(Append(log, e)) + 1 = Len(log) + 2
  BY <1>1, <1>4, AppendProperties
<1> HIDE DEF opened
<1>11. LogSound(Append(Append(log, e), f), again, status)
  BY <1>2, <1>5, <1>7, <1>9, <1>10, PickLogged
<1>12. Append(Append(log, e), f) = log \o <<e, f>> /\ <<e, f>> \in Seq(Event)
  BY <1>1, <1>4, <1>5
<1> HIDE DEF pick
<1>13. b \in Boards /\ HasNoGaps(b)
  BY <1>1, <1>6, PlacedAgain DEF PlaySound
<1> QED
  BY <1>8, <1>11, <1>12, <1>13 DEF e, f, pick

(* replace_active_pick is such a correction. *)
LEMMA ReplaceLogged ==
  ASSUME PlaySound, ReplaceActivePick
  PROVE  PlayGoesOn
<1>1. PICK n \in Filled(board), p \in Identified : ReplacePick(n, p)
  BY DEF ReplaceActivePick
<1> DEFINE f == PickEvent("pick_replaced", n, board[n].team, p, board[n].event, 0)
           b == [ board EXCEPT ![n] = Pick(Len(log) + 2, p, board[n].team) ]
<1>2. p \in Players
  BY IdentifiedAssumption
<1>3. /\ <<ReversalEvent(n), f>> \in Seq(Event)
      /\ LogSound(log \o <<ReversalEvent(n), f>>, b, status) /\ b \in Boards /\ HasNoGaps(b)
  BY <1>2, ReplacementLogged
<1>4. AppendPicks(<<ReversalEvent(n), f>>, b)
  BY <1>1 DEF ReplacePick
<1> HIDE DEF f, b
<1> QED
  BY <1>3, <1>4, PicksLogged

(* A new session has nothing to replay. *)
LEMMA SoundInitially == Init => PlaySound
<1> SUFFICES ASSUME Init PROVE PlaySound
  OBVIOUS
<1>1. log = <<>> /\ board = OpenBoard /\ status \in Unstarted
  BY DEF Init, StatusWhen, Unstarted
<1>2. log \in Seq(Event) /\ Len(log) = 0
  BY <1>1
<1>3. SupersedesEarlier(log)
  BY <1>2 DEF SupersedesEarlier
<1>4. PicksAreEvents(log, board) /\ HasNoGaps(board)
  <2>1. Filled(board) = {} /\ 1..0 = {} /\ 0 \in 0..MaxPicks
    BY <1>1, MaxPicksAssumption DEF Filled, OpenBoard
  <2> QED
    BY <2>1 DEF PicksAreEvents, HasNoGaps
<1>5. Replays(log, status)
  <2>1. Lifecycle(log) = {}
    BY <1>2 DEF Lifecycle
  <2> QED
    BY <1>1, <2>1, Zenon DEF Replays
<1>6. ReducesTo(log, board)
  <2> DEFINE after == [ i \in 0..Len(log) |-> OpenBoard ]
  <2>1. after = [ i \in 0..Len(log) |->
                    IF i = 0 THEN OpenBoard ELSE AfterEvent(log, i, after[i - 1]) ]
    BY <1>2
  <2>2. after[Len(log)] = board
    BY <1>1, <1>2
  <2> QED
    BY <2>1, <2>2, Zenon DEF ReducesTo, Reduces
<1>7. TypeOK
  BY InvariantInitially DEF IInv
<1> QED
  BY <1>2, <1>3, <1>4, <1>5, <1>6, <1>7 DEF PlaySound, LogSound

(* Every operation keeps the log sound, and none shortens it. *)
LEMMA SoundPreserved == PlaySound /\ [Next]_vars => PlayGoesOn
<1> SUFFICES ASSUME PlaySound, [Next]_vars PROVE PlayGoesOn
  OBVIOUS
<1>1. CASE Start \/ Pause \/ Resume \/ Complete \/ Abandon \/ Reopen
  <2>1. ASSUME NEW from, NEW to, NEW type, Transition(from, to, type),
               <<type, to>> \in { <<"session_started", "LIVE">>, <<"session_paused", "PAUSED">>,
                 <<"session_resumed", "LIVE">>, <<"session_completed", "COMPLETE">>,
                 <<"session_abandoned", "ABANDONED">>, <<"session_reopened", "LIVE">> }
        PROVE  PlayGoesOn
    <3>1. type \in DOMAIN LifecycleStatus /\ to = LifecycleStatus[type]
      BY <2>1 DEF LifecycleStatus
    <3> QED
      BY <2>1, <3>1, TransitionLogged
  <2> QED
    BY <1>1, <2>1 DEF Start, Pause, Resume, Complete, Abandon, Reopen
<1>2. CASE RecordPick \/ AdvanceOpponent
  <2>1. advice \in 0..Len(log) /\ 0 \in 0..Len(log) /\ Identified \subseteq Players
        /\ OpponentChoices \subseteq Players
    BY LenProperties, IdentifiedAssumption DEF PlaySound, TypeOK, OpponentChoices, Inputs
  <2> QED
    BY <1>2, <2>1, AppendPickLogged DEF RecordPick, AdvanceOpponent
<1>3. CASE ReverseLatestPick
  BY <1>3, ReverseLogged
<1>4. CASE ReplaceActivePick
  BY <1>4, ReplaceLogged
<1>5. CASE UpdateSetup
  BY <1>5, UpdateSetupLogged
<1>6. CASE BindInputs
  BY <1>6, BindInputsLogged
<1>7. CASE ReadAdvice \/ UNCHANGED vars
  <2>1. UNCHANGED << log, board, status, setup, sourceMode, inputs, roster >>
        /\ advice' \in {advice, Len(log)}
    BY <1>7 DEF ReadAdvice, NewAdvice, vars
  <2>2. Len(log) \in Nat
    BY LenProperties DEF PlaySound, TypeOK
  <2> QED
    BY <2>1, <2>2 DEF PlaySound, PlayGoesOn, TypeOK
<1> QED
  BY <1>1, <1>2, <1>3, <1>4, <1>5, <1>6, <1>7 DEF Next

(* The log stays sound throughout a session. *)
LEMMA SoundHolds == Spec => []PlaySound
<1>1. PlaySound /\ [Next]_vars => PlaySound'
  BY SoundPreserved DEF PlayGoesOn
<1> QED
  BY <1>1, SoundInitially, PTL DEF Spec

(* A board that a sound log leaves is the reducer's. *)
LEMMA SoundIsReduction == PlaySound => BoardIsReduction
<1> SUFFICES ASSUME PlaySound PROVE BoardIsReduction
  OBVIOUS
<1>1. Len(log) \in Nat /\ ReducesTo(log, board)
  BY LenProperties DEF PlaySound, LogSound
<1> QED
  BY <1>1, ReducePicksOf DEF BoardIsReduction

(* The board every handler works on is what the reducer derives from the   *)
(* whole log, through any number of reversals and replacements.            *)
THEOREM BoardIsAlwaysReduction == Spec => []BoardIsReduction
<1>1. PlaySound => BoardIsReduction
  BY SoundIsReduction
<1> QED
  BY <1>1, SoundHolds, PTL

(* The status column is always what the log's last lifecycle event left.   *)
THEOREM StatusAlwaysReplays == Spec => []StatusIsReplayable
<1>1. PlaySound => StatusIsReplayable
  BY Zenon DEF PlaySound, LogSound, Replays, Lifecycle, StatusIsReplayable
<1> QED
  BY <1>1, SoundHolds, PTL

----------------------------------------------------------------------------
(* The roster of a completed live draft.                                   *)

(* A projected roster gives the drafted players to their teams and, from a *)
(* full board, nobody else to any.                                         *)
LEMMA ProjectedRosterFollows ==
  ASSUME NEW b \in Boards, PlayersDistinct(b)
  PROVE  /\ \A n \in Filled(b) : ProjectLiveRoster(b)[b[n].player] = b[n].team
         /\ PickCount(b) = Total =>
              \A p \in Players \ Drafted(b) : ProjectLiveRoster(b)[p] = FreeAgent
<1>1. ASSUME NEW n \in Filled(b) PROVE ProjectLiveRoster(b)[b[n].player] = b[n].team
  <2> DEFINE p == b[n].player
             Last(k) == b[k].player = p /\ \A m \in Filled(b) : b[m].player = p => m <= k
  <2>1. n \in Int /\ p \in Players /\ p \in Drafted(b)
    BY FilledHoldsPick, MaxPicksAssumption DEF PickNumbers, ReducedPick, Drafted
  <2>2. Last(n)
    BY <2>1 DEF PlayersDistinct
  <2>3. \A k \in Filled(b) : Last(k) => k = n
    BY DEF PlayersDistinct
  <2>4. (CHOOSE k \in Filled(b) : Last(k)) = n
    BY <2>2, <2>3
  <2> QED
    BY <2>1, <2>4, Zenon DEF ProjectLiveRoster
<1>2. ASSUME PickCount(b) = Total, NEW p \in Players \ Drafted(b)
      PROVE  ProjectLiveRoster(b)[p] = FreeAgent
  BY <1>2, Zenon DEF ProjectLiveRoster
<1> QED
  BY <1>1, <1>2

(* Completing a draft, in whatever way, projects its board. *)
LEMMA RosterByProjecting ==
  ASSUME board' \in Boards, PlayersDistinct(board'), setup' = setup,
         setup.kind = "live" => roster' = ProjectLiveRoster(board')
  PROVE  RosterFollowsBoard'
<1> SUFFICES ASSUME setup.kind = "live"
             PROVE  /\ \A n \in Filled(board') : roster'[board'[n].player] = board'[n].team
                    /\ PickCount(board') = Total =>
                         \A p \in Players \ Drafted(board') : roster'[p] = FreeAgent
  BY DEF RosterFollowsBoard, Total
<1> DEFINE b == board'
<1> HIDE DEF b
<1>1. b \in Boards /\ PlayersDistinct(b)
  BY DEF b
<1>2. /\ \A n \in Filled(b) : ProjectLiveRoster(b)[b[n].player] = b[n].team
      /\ PickCount(b) = Total => \A p \in Players \ Drafted(b) : ProjectLiveRoster(b)[p] = FreeAgent
  BY <1>1, ProjectedRosterFollows
<1> QED
  BY <1>2 DEF b

(* Pick events leave the roster right when the board they leave is full. *)
LEMMA PicksProjected ==
  ASSUME IInv, IInv', status \in Active, NEW events, NEW b, AppendPicks(events, b)
  PROVE  RosterFollowsBoard'
<1>1. CASE status = "LIVE" /\ PickCount(b) = Total
  <2>1. board' = b /\ setup' = setup /\ (setup.kind = "live" => roster' = ProjectLiveRoster(b))
    BY <1>1 DEF AppendPicks
  <2>2. board' \in Boards /\ PlayersDistinct(board')
    BY DEF IInv, TypeOK, Boards, OnePickPerPlayer
  <2> QED
    BY <2>1, <2>2, RosterByProjecting
<1>2. CASE ~ (status = "LIVE" /\ PickCount(b) = Total)
  BY <1>2 DEF AppendPicks, RosterFollowsBoard, Active
<1> QED
  BY <1>1, <1>2

(* Every operation that leaves a live draft complete leaves its roster     *)
(* right: no other writes the board or the roster of a complete one.       *)
LEMMA RosterPreserved == IInv /\ IInv' /\ RosterFollowsBoard /\ [Next]_vars => RosterFollowsBoard'
<1> SUFFICES ASSUME IInv, IInv', RosterFollowsBoard, [Next]_vars PROVE RosterFollowsBoard'
  OBVIOUS
<1>1. CASE Complete
  <2>1. board' = board /\ setup' = setup
        /\ (setup.kind = "live" => roster' = ProjectLiveRoster(board))
    BY <1>1 DEF Complete, Transition, AppendSessionEvent
  <2>2. board' \in Boards /\ PlayersDistinct(board')
    BY DEF IInv, TypeOK, Boards, OnePickPerPlayer
  <2> QED
    BY <2>1, <2>2, RosterByProjecting
<1>2. CASE Start \/ Pause \/ Resume \/ Abandon \/ Reopen \/ UpdateSetup
  BY <1>2 DEF Start, Pause, Resume, Abandon, Reopen, Transition, UpdateSetup, StatusWhen,
              RosterFollowsBoard
<1>3. CASE RecordPick \/ AdvanceOpponent
  <2>1. PICK p, ref, source : AppendPick(p, ref, source)
    BY <1>3 DEF RecordPick, AdvanceOpponent
  <2> QED
    BY <2>1, PicksProjected DEF AppendPick, Active
<1>4. CASE ReverseLatestPick
  BY <1>4, PicksProjected DEF ReverseLatestPick
<1>5. CASE ReplaceActivePick
  BY <1>5, PicksProjected DEF ReplaceActivePick, ReplacePick
<1>6. CASE BindInputs
  BY <1>6 DEF BindInputs, StatusWhen, RosterFollowsBoard, Active
<1>7. CASE ReadAdvice \/ UNCHANGED vars
  BY <1>7 DEF ReadAdvice, vars, RosterFollowsBoard, Total
<1> QED
  BY <1>1, <1>2, <1>3, <1>4, <1>5, <1>6, <1>7 DEF Next

(* A completed live draft always has its drafted players on the teams that *)
(* picked them, and from a full board every other player a free agent,     *)
(* through any number of early completions, reopenings and corrections.    *)
THEOREM RosterAlwaysFollows == Spec => []RosterFollowsBoard
<1>1. Init => RosterFollowsBoard
  BY DEF Init, StatusWhen, RosterFollowsBoard
<1>2. IInv /\ IInv' /\ RosterFollowsBoard /\ [Next]_vars => RosterFollowsBoard'
  BY RosterPreserved
<1> QED
  BY <1>1, <1>2, InvariantHolds, PTL DEF Spec

----------------------------------------------------------------------------
(* The opponents of an automatic mock.                                     *)

Rankable == inputs.ranked \cap inputs.projected

NoInputChange == \A i \in 1..Len(log) : log[i].type # "input_snapshot_changed"

(* An automatic mock that started with its inputs and kept them has as     *)
(* many ranked players as picks.                                           *)
RankingCovers ==
  status \in Active \cup {"COMPLETE"} /\ AutomaticMock /\ NoInputChange =>
    Cardinality(Rankable) >= Total

(* An operation that extends the log and leaves setup and inputs alone     *)
(* keeps the ranking's cover.                                              *)
LEMMA RankingStillCovers ==
  ASSUME log \in Seq(Event), RankingCovers, NEW more \in Seq(Event), log' = log \o more,
         setup' = setup, inputs' = inputs, status \in Active \cup {"COMPLETE"}
  PROVE  RankingCovers'
<1>1. NoInputChange' => NoInputChange
  <2> SUFFICES ASSUME NoInputChange', NEW i \in 1..Len(log)
               PROVE  log[i].type # "input_snapshot_changed"
    BY DEF NoInputChange
  <2>1. i \in 1..Len(log') /\ log'[i] = log[i]
    BY ConcatProperties, LenProperties
  <2> QED
    BY <2>1 DEF NoInputChange
<1>2. AutomaticMock' = AutomaticMock /\ Rankable' = Rankable /\ Total' = Total
  BY DEF AutomaticMock, Rankable, Total
<1> QED
  BY <1>1, <1>2 DEF RankingCovers

(* Pick events are an extension. *)
LEMMA PicksKeepCover ==
  ASSUME IInv, RankingCovers, status \in Active,
         NEW events \in Seq(Event), NEW b, AppendPicks(events, b)
  PROVE  RankingCovers'
<1> DEFINE tail == IF status = "LIVE" /\ PickCount(b) = Total
                   THEN <<SessionEvent("session_completed")>> ELSE <<>>
<1>1. tail \in Seq(Event) /\ log \in Seq(Event)
  BY SessionEventType DEF EventTypes, IInv, TypeOK
<1>2. log' = (log \o events) \o tail
  BY DEF AppendPicks
<1> HIDE DEF tail
<1>3. (log \o events) \o tail = log \o (events \o tail) /\ events \o tail \in Seq(Event)
  BY <1>1, ConcatAssociative, ConcatProperties
<1> QED
  BY <1>1, <1>2, <1>3, RankingStillCovers DEF AppendPicks

(* Every operation keeps the ranking's cover: only a start brings a mock   *)
(* into play, and it counts the ranking.                                   *)
LEMMA CoverPreserved == IInv /\ RankingCovers /\ [Next]_vars => RankingCovers'
<1> SUFFICES ASSUME IInv, RankingCovers, [Next]_vars PROVE RankingCovers'
  OBVIOUS
<1>0. log \in Seq(Event)
  BY DEF IInv, TypeOK
<1>1. CASE Start
  <2>1. setup' = setup /\ inputs' = inputs /\ AutomaticMock => Cardinality(Rankable) >= Total
    BY <1>1 DEF Start, Transition, Ready, AutomaticMock, Rankable, Total
  <2>2. setup' = setup /\ inputs' = inputs
    BY <1>1 DEF Start, Transition
  <2>3. AutomaticMock' = AutomaticMock /\ Rankable' = Rankable /\ Total' = Total
    BY <2>2 DEF AutomaticMock, Rankable, Total
  <2> QED
    BY <2>1, <2>2, <2>3 DEF RankingCovers
<1>2. CASE Pause \/ Resume \/ Complete \/ Reopen
  <2>1. PICK type \in EventTypes :
          log' = Append(log, SessionEvent(type)) /\ setup' = setup /\ inputs' = inputs
          /\ status \in Active \cup {"COMPLETE"}
    BY <1>2 DEF Pause, Resume, Complete, Reopen, Transition, AppendSessionEvent, EventTypes, Active
  <2>2. log' = log \o <<SessionEvent(type)>> /\ <<SessionEvent(type)>> \in Seq(Event)
    BY <1>0, <2>1, SessionEventType
  <2> QED
    BY <1>0, <2>1, <2>2, RankingStillCovers
<1>3. CASE Abandon \/ UpdateSetup
  BY <1>3 DEF Abandon, Transition, UpdateSetup, StatusWhen, RankingCovers, Active
<1>4. CASE RecordPick \/ AdvanceOpponent
  <2>1. PICK p \in Players, ref \in Nat, source \in {"manual", "mock_auto"} : AppendPick(p, ref, source)
    BY <1>4, IdentifiedAssumption, LenProperties
       DEF RecordPick, AdvanceOpponent, IInv, TypeOK, OpponentChoices, Inputs
  <2> DEFINE n == NextPick
             team == TeamOf(n)
             adviceRef == IF team = setup.owner THEN ref ELSE 0
             e == PickEvent("pick_recorded", n, team, p, 0, adviceRef)
             b == [ board EXCEPT ![n] = Pick(Len(log) + 1, p, team) ]
  <2>2. status \in Active /\ n <= Total /\ AppendPicks(<<e>>, b)
    BY <2>1 DEF AppendPick, Active
  <2>3. setup \in Setups
    BY DEF IInv, TypeOK
  <2>4. Total \in 1..MaxPicks /\ setup.teams \in Nat \ {0}
    BY <2>3, GeometryType
  <2>5. n \in PickNumbers /\ n \in Nat \ {0}
    <3>1. PICK c \in 0..Total : Filled(board) = 1..c
      BY DEF IInv, BoardInOrder, InOrder
    <3>2. n = c + 1
      BY <2>4, <3>1, PickCountOfPrefix, MaxPicksAssumption DEF NextPick
    <3> QED
      BY <2>2, <2>4, <3>2, MaxPicksAssumption DEF PickNumbers
  <2> HIDE DEF n
  <2>6. team \in Nat
    <3>1. SnakeTeam(n, setup.teams) \in 1..setup.teams
      BY <2>4, <2>5, SnakeTeamType
    <3> QED
      BY <2>4, <3>1 DEF TeamOf
  <2>7. adviceRef \in Nat /\ "pick_recorded" \in EventTypes /\ p \in Players \cup {NoPlayer}
        /\ 0 \in Nat
    BY <2>1 DEF EventTypes
  <2> HIDE DEF team, adviceRef
  <2>8. e \in Event
    <3>1. e = PickEvent("pick_recorded", n, team, p, 0, adviceRef)
      OBVIOUS
    <3> HIDE DEF e
    <3> QED
      BY <2>5, <2>6, <2>7, <3>1, PickEventType
  <2> HIDE DEF e, b
  <2>9. <<e>> \in Seq(Event)
    BY <2>8
  <2> QED
    BY <2>2, <2>9, PicksKeepCover
<1>5. CASE ReverseLatestPick
  <2>1. PICK n \in Filled(board) :
          status \in Active /\ AppendPicks(<<ReversalEvent(n)>>, [ board EXCEPT ![n] = Open ])
    BY <1>5 DEF ReverseLatestPick
  <2>2. ReversalEvent(n) \in Event
    BY FilledHoldsPick, MaxPicksAssumption
       DEF IInv, TypeOK, Boards, ReversalEvent, PickEvent, Event, EventTypes, ReducedPick, PickNumbers
  <2>3. <<ReversalEvent(n)>> \in Seq(Event)
    BY <2>2
  <2> QED
    BY <2>1, <2>3, PicksKeepCover
<1>6. CASE ReplaceActivePick
  <2>1. PICK n \in Filled(board), p \in Identified : ReplacePick(n, p)
    BY <1>6 DEF ReplaceActivePick
  <2> DEFINE f == PickEvent("pick_replaced", n, board[n].team, p, board[n].event, 0)
  <2>2. board[n] \in ReducedPick /\ n \in PickNumbers /\ p \in Players
    BY FilledHoldsPick, IdentifiedAssumption DEF IInv, TypeOK, Boards
  <2>3. ReversalEvent(n) \in Event /\ f \in Event
    BY <2>2, MaxPicksAssumption
       DEF ReversalEvent, PickEvent, Event, EventTypes, ReducedPick, PickNumbers
  <2>4. <<ReversalEvent(n), f>> \in Seq(Event)
    BY <2>3
  <2>5. status \in Active
        /\ AppendPicks(<<ReversalEvent(n), f>>,
                       [ board EXCEPT ![n] = Pick(Len(log) + 2, p, board[n].team) ])
    BY <2>1 DEF ReplacePick
  <2> HIDE DEF f
  <2> QED
    BY <2>4, <2>5, PicksKeepCover
<1>7. CASE BindInputs
  <2>1. CASE status \in Active
    <3>1. log' = Append(log, SessionEvent("input_snapshot_changed"))
      BY <1>7, <2>1 DEF BindInputs, AppendSessionEvent, Active, Unstarted
    <3>2. Len(log) + 1 \in 1..Len(log') /\ log'[Len(log) + 1].type = "input_snapshot_changed"
      BY <1>0, <3>1, AppendProperties, LenProperties, SessionEventType DEF EventTypes
    <3> QED
      BY <3>2 DEF RankingCovers, NoInputChange
  <2>2. CASE status \notin Active
    BY <1>7, <2>2 DEF BindInputs, StatusWhen, RankingCovers, Active
  <2> QED
    BY <2>1, <2>2
<1>8. CASE ReadAdvice \/ UNCHANGED vars
  BY <1>8 DEF ReadAdvice, vars, RankingCovers, AutomaticMock, Rankable, NoInputChange, Total
<1> QED
  BY <1>1, <1>2, <1>3, <1>4, <1>5, <1>6, <1>7, <1>8 DEF Next

(* A board drafts no more players than it has picks. *)
LEMMA DraftedCount ==
  ASSUME NEW b \in Boards
  PROVE  /\ IsFiniteSet(Drafted(b)) /\ Cardinality(Drafted(b)) <= PickCount(b)
         /\ Cardinality(Drafted(b)) \in Nat /\ PickCount(b) \in Nat
<1>1. IsFiniteSet(Filled(b))
  <2>1. IsFiniteSet(PickNumbers)
    BY FS_Interval, MaxPicksAssumption DEF PickNumbers
  <2> QED
    BY <2>1, FS_Subset DEF Filled
<1> DEFINE f == [ n \in Filled(b) |-> b[n].player ]
<1>2. f \in Surjection(Filled(b), Drafted(b))
  BY DEF Drafted, Surjection
<1>3. IsFiniteSet(Drafted(b)) /\ Cardinality(Drafted(b)) <= Cardinality(Filled(b))
  BY <1>1, <1>2, FS_Surjection
<1> QED
  BY <1>1, <1>3, FS_CardinalityType DEF PickCount

(* An automatic mock that started with its inputs and kept them always has *)
(* a player for the opponent on the clock, whoever the owner takes and     *)
(* whatever is undone or replaced.                                         *)
THEOREM OpponentsNeverStuck == Spec => []OpponentNeverStuck
<1>1. Init => RankingCovers
  BY DEF Init, StatusWhen, RankingCovers, Active
<1>2. IInv /\ RankingCovers /\ [Next]_vars => RankingCovers'
  BY CoverPreserved
<1>3. IInv /\ RankingCovers => OpponentNeverStuck
  <2> SUFFICES ASSUME IInv, RankingCovers, status = "LIVE", AutomaticMock, NextPick <= Total,
                      NoInputChange, OpponentChoices = {}
               PROVE  FALSE
    BY DEF OpponentNeverStuck, NoInputChange
  <2>1. board \in Boards /\ setup \in Setups
    BY DEF IInv, TypeOK, Boards
  <2>2. Cardinality(Rankable) >= Total
    BY DEF RankingCovers, Active
  <2>3. Rankable \subseteq Drafted(board)
    BY DEF OpponentChoices, Rankable
  <2>4. /\ IsFiniteSet(Drafted(board)) /\ Cardinality(Drafted(board)) <= PickCount(board)
        /\ Cardinality(Drafted(board)) \in Nat /\ PickCount(board) \in Nat
    BY <2>1, DraftedCount
  <2>5. IsFiniteSet(Rankable) /\ Cardinality(Rankable) <= Cardinality(Drafted(board))
    BY <2>3, <2>4, FS_Subset
  <2>6. Cardinality(Rankable) \in Nat
    BY <2>5, FS_CardinalityType
  <2>7. Total \in Nat
    BY <2>1, GeometryType, MaxPicksAssumption
  <2> QED
    BY <2>2, <2>4, <2>5, <2>6, <2>7 DEF NextPick
<1> QED
  BY <1>1, <1>2, <1>3, InvariantHolds, PTL DEF Spec
=============================================================================
