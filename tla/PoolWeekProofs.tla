--------------------------- MODULE PoolWeekProofs ---------------------------
(***************************************************************************)
(* Proofs about PoolWeek: types; that a claim protects the card it         *)
(* replaces, that the stored card is the accepted one and has no repeats;  *)
(* and that locks and locked picks stay.                                   *)
(***************************************************************************)
EXTENDS PoolWeek, FiniteSetTheorems, WellFoundedInduction, TLAPS

-----------------------------------------------------------------------------
(* Type correctness.                                                       *)

(* A request that is not being served is well typed.                       *)
LEMMA IdleTyped == RequestTypeOK(Idle)
<1>1. <<>> \in [{} -> GameStates]
    OBVIOUS
<1>2. {p.game : p \in {}} = {}
    OBVIOUS
<1>. QED
    BY <1>1, <1>2, PoolWeekAssumption DEF RequestTypeOK, Idle, PCs, Outcomes

(* So is a save whose transaction has ended.                               *)
LEMMA AnsweringTyped ==
    ASSUME TypeOK, NEW r \in Requests, request[r].pc = "loaded",
           NEW o \in {"ok", "lost_claim", "conflict", "invalid"}
    PROVE  RequestTypeOK(Answering(r, o))
<1>1. RequestTypeOK(request[r])
    BY DEF TypeOK
<1>2. <<>> \in [{} -> GameStates] /\ {p.game : p \in {}} = {}
    OBVIOUS
<1>. QED
    BY <1>1, <1>2, PoolWeekAssumption DEF RequestTypeOK, Answering, Idle, PCs, Outcomes

(* Replacing one request by a well-typed one keeps all well typed.         *)
LEMMA RequestsTyped ==
    ASSUME TypeOK, NEW r \in Requests, NEW q, RequestTypeOK(q),
           request' = [request EXCEPT ![r] = q]
    PROVE  /\ DOMAIN request' = Requests
           /\ \A x \in Requests : RequestTypeOK(request'[x])
BY DEF TypeOK

(* Stamping keeps games well typed.                                        *)
LEMMA StampedTyped ==
    ASSUME NEW gs \in [Games -> GameStates], NEW due
    PROVE  Stamped(gs, due) \in [Games -> GameStates]
BY DEF Stamped, GameStates

(* A season starts well typed.                                             *)
LEMMA InitTyped == Init => TypeOK
<1>. SUFFICES ASSUME Init PROVE TypeOK
    OBVIOUS
<1>1. \A r \in Requests : RequestTypeOK(request[r])
    BY IdleTyped DEF Init
<1>2. games \in [Games -> GameStates]
    BY PoolWeekAssumption DEF Init, GameStates, Results
<1>3. /\ now \in 0..MaxTime /\ picks \subseteq Picks
      /\ version \in [Weeks -> 0..MaxVersion] /\ saved \in [Weeks -> SUBSET Requested]
    BY PoolWeekAssumption DEF Init
<1>. QED
    BY <1>1, <1>2, <1>3 DEF Init, TypeOK

(* A card put together by a save consists of rows of its week.             *)
LEMMA CommitTyped ==
    ASSUME TypeOK, NEW r \in Requests, Commit(r)
    PROVE  /\ picks' \subseteq Picks
           /\ version' \in [Weeks -> 0..MaxVersion]
           /\ saved' \in [Weeks -> SUBSET Requested]
<1>. DEFINE week == request[r].week
<1>1. /\ RequestTypeOK(request[r]) /\ request[r].pc = "loaded"
    BY DEF TypeOK, Commit
<1>2. week \in Weeks /\ request[r].card \subseteq Requested
    BY <1>1 DEF RequestTypeOK
<1>3. PICK slots \in SlotChoices(r) :
        picks' = (picks \ (CardOf(request[r].loaded, week) \ LockedPicks(r)))
                     \union {Row(week, slots[q], q) : q \in Added(r)}
    BY DEF Commit
<1>4. Added(r) \subseteq Requested
    BY <1>2 DEF Added
<1>5. \A q \in Added(r) : slots[q] \in Slots
    <2>1. CASE rules.type = "survivor"
        BY <2>1, <1>3, <1>4 DEF SlotChoices, Requested
    <2>2. CASE rules.type # "survivor"
        <3>1. slots \in [Added(r) -> Slots]
            BY <2>2, <1>3 DEF SlotChoices
        <3>. QED
            BY <3>1
    <2>. QED
        BY <2>1, <2>2
<1>6. \A q \in Added(r) : Row(week, slots[q], q) \in Picks
    BY <1>2, <1>4, <1>5 DEF Row, Picks, Requested
<1>7. picks' \subseteq Picks
    BY <1>3, <1>6 DEF TypeOK
<1>8. version' \in [Weeks -> 0..MaxVersion]
    <2>1. version[week] < MaxVersion /\ version' = [version EXCEPT ![week] = @ + 1]
        BY DEF Commit, RaiseVersion
    <2>2. version[week] \in 0..MaxVersion /\ MaxVersion \in Nat
        BY <1>2, PoolWeekAssumption DEF TypeOK
    <2>3. version[week] + 1 \in 0..MaxVersion
        BY <2>1, <2>2
    <2>. QED
        BY <2>1, <2>3 DEF TypeOK
<1>9. saved' \in [Weeks -> SUBSET Requested]
    BY <1>2 DEF Commit, TypeOK
<1>. QED
    BY <1>7, <1>8, <1>9

(* A step whose cards are of a set: what is asked for in Next are the      *)
(* Cards, and in PoolAutosave the cards on a screen.                       *)
EntryStep(asked) ==
    \/ World
    \/ \E r \in Requests :
        \/ \E week \in Weeks : Get(r, week)
        \/ \E week \in Weeks : \E base \in 0..version[week], card \in asked :
            Put(r, week, base, card)
        \/ Serve(r) \/ Fail(r)
    \/ UNCHANGED vars

AllCards == UNION {Cards[week] : week \in Weeks}

(* The steps of Next ask for the Cards.                                    *)
LEMMA NextIsEntryStep ==
    /\ AllCards \in SUBSET SUBSET Requested
    /\ [Next]_vars => EntryStep(AllCards)
<1>1. \A week \in Weeks : Cards[week] \subseteq AllCards /\ Cards[week] \subseteq SUBSET Requested
    BY PoolWeekAssumption DEF AllCards
<1>2. AllCards \in SUBSET SUBSET Requested
    BY <1>1 DEF AllCards
<1>3. ASSUME Next PROVE EntryStep(AllCards)
    BY <1>1, <1>3 DEF Next, EntryStep
<1>. QED
    BY <1>2, <1>3 DEF EntryStep

(* The type invariant is kept by every step.                               *)
LEMMA StepTyped ==
    ASSUME TypeOK, NEW asked \in SUBSET SUBSET Requested, EntryStep(asked)
    PROVE  TypeOK'
<1>1. CASE UNCHANGED vars
    BY <1>1 DEF vars, TypeOK
<1>2. CASE Tick
    BY <1>2, PoolWeekAssumption DEF Tick, TypeOK
<1>3. ASSUME NEW item \in Feed, NEW score \in Scores, item.game = score.game,
             SyncSchedule(item, score.result)
      PROVE  TypeOK'
    <2>1. /\ item \in [game : Games, week : Weeks, kickoff : 1..MaxTime]
          /\ score.result \in Results
        BY PoolWeekAssumption
    <2>2. Stamped(games, DueGames(games, now)) \in [Games -> GameStates]
        BY StampedTyped DEF TypeOK
    <2>3. games' \in [Games -> GameStates]
        BY <1>3, <2>1, <2>2 DEF SyncSchedule, GameStates, Results
    <2>. QED
        BY <1>3, <2>3 DEF SyncSchedule, TypeOK
<1>4. ASSUME NEW score \in Scores, ApplyScoreboard(score)
      PROVE  TypeOK'
    <2>1. games' \in [Games -> GameStates]
        BY <1>4, PoolWeekAssumption DEF ApplyScoreboard, GameStates, TypeOK
    <2>. QED
        BY <1>4, <2>1 DEF ApplyScoreboard, TypeOK
<1>5. ASSUME NEW r \in Requests, NEW week \in Weeks, Get(r, week)
      PROVE  TypeOK'
    <2>. DEFINE q == [Idle EXCEPT !.pc = "reading", !.week = week, !.time = now,
                                  !.outcome = "read"]
    <2>1. RequestTypeOK(q)
        BY IdleTyped DEF RequestTypeOK, Idle, PCs, Outcomes, TypeOK
    <2>2. request' = [request EXCEPT ![r] = q]
        BY <1>5 DEF Get
    <2>3. DOMAIN request' = Requests /\ \A x \in Requests : RequestTypeOK(request'[x])
        BY <2>1, <2>2, RequestsTyped
    <2>. QED
        BY <1>5, <2>3 DEF Get, TypeOK
<1>6. ASSUME NEW r \in Requests, NEW week \in Weeks, NEW base \in 0..version[week],
             NEW card \in asked, Put(r, week, base, card)
      PROVE  TypeOK'
    <2>. DEFINE q == [Idle EXCEPT !.pc = "loaded", !.week = week, !.version = base,
                                  !.card = card, !.time = now, !.loaded = picks,
                                  !.loadedGames = [g \in {p.game : p \in picks} |-> games[g]]]
    <2>1. card \subseteq Requested
        OBVIOUS
    <2>2. base \in 0..MaxVersion
        BY PoolWeekAssumption DEF TypeOK
    <2>3. [g \in {p.game : p \in picks} |-> games[g]] \in [{p.game : p \in picks} -> GameStates]
        BY DEF TypeOK, Picks
    <2>4. RequestTypeOK(q)
        BY <2>1, <2>2, <2>3 DEF RequestTypeOK, Idle, PCs, Outcomes, TypeOK
    <2>5. request' = [request EXCEPT ![r] = q]
        BY <1>6 DEF Put
    <2>6. DOMAIN request' = Requests /\ \A x \in Requests : RequestTypeOK(request'[x])
        BY <2>4, <2>5, RequestsTyped
    <2>. QED
        BY <1>6, <2>6 DEF Put, TypeOK
<1>7. ASSUME NEW r \in Requests, LoseClaim(r)
      PROVE  TypeOK'
    <2>1. RequestTypeOK(Answering(r, "lost_claim"))
        BY <1>7, AnsweringTyped DEF LoseClaim
    <2>2. DOMAIN request' = Requests /\ \A x \in Requests : RequestTypeOK(request'[x])
        BY <1>7, <2>1, RequestsTyped DEF LoseClaim
    <2>. QED
        BY <1>7, <2>2 DEF LoseClaim, TypeOK
<1>8. ASSUME NEW r \in Requests, RejectEliminated(r) \/ ReadVersion(r) \/ Fail(r)
      PROVE  TypeOK'
    <2>1. request' = [request EXCEPT ![r] = Idle]
        BY <1>8 DEF RejectEliminated, ReadVersion, Fail
    <2>2. DOMAIN request' = Requests /\ \A x \in Requests : RequestTypeOK(request'[x])
        BY <2>1, IdleTyped, RequestsTyped
    <2>. QED
        BY <1>8, <2>2 DEF RejectEliminated, ReadVersion, Fail, TypeOK
<1>9. ASSUME NEW r \in Requests, RejectCard(r)
      PROVE  TypeOK'
    <2>1. PICK o \in {"conflict", "invalid"} :
            request' = [request EXCEPT ![r] = Answering(r, o)]
        BY <1>9 DEF RejectCard
    <2>2. DOMAIN request' = Requests /\ \A x \in Requests : RequestTypeOK(request'[x])
        BY <1>9, <2>1, AnsweringTyped, RequestsTyped DEF RejectCard
    <2>. QED
        BY <1>9, <2>2 DEF RejectCard, TypeOK
<1>10. ASSUME NEW r \in Requests, Commit(r)
       PROVE  TypeOK'
    <2>1. RequestTypeOK(Answering(r, "ok"))
        BY <1>10, AnsweringTyped DEF Commit
    <2>2. DOMAIN request' = Requests /\ \A x \in Requests : RequestTypeOK(request'[x])
        BY <1>10, <2>1, RequestsTyped DEF Commit
    <2>3. games' \in [Games -> GameStates]
        BY <1>10, StampedTyped DEF Commit, TypeOK
    <2>. QED
        BY <1>10, <2>2, <2>3, CommitTyped DEF Commit, TypeOK
<1>11. ASSUME NEW r \in Requests, ReadPicks(r)
       PROVE  TypeOK'
    <2>. DEFINE q == [request[r] EXCEPT !.pc = "read",
                                        !.shown = CardOf(picks, request[r].week)]
    <2>1. RequestTypeOK(request[r]) /\ request[r].pc = "reading"
        BY <1>11 DEF ReadPicks, TypeOK
    <2>2. RequestTypeOK(q)
        BY <2>1 DEF RequestTypeOK, PCs, TypeOK, CardOf, Idle
    <2>3. request' = [request EXCEPT ![r] = q]
        BY <1>11 DEF ReadPicks
    <2>4. DOMAIN request' = Requests /\ \A x \in Requests : RequestTypeOK(request'[x])
        BY <2>2, <2>3, RequestsTyped
    <2>5. games' \in [Games -> GameStates]
        BY <1>11, StampedTyped DEF ReadPicks, TypeOK
    <2>. QED
        BY <1>11, <2>4, <2>5 DEF ReadPicks, TypeOK
<1>. QED
    BY <1>1, <1>2, <1>3, <1>4, <1>5, <1>6, <1>7, <1>8, <1>9, <1>10, <1>11
       DEF EntryStep, World, Serve

(* In particular by the steps of Next.                                     *)
LEMMA NextTyped == TypeOK /\ [Next]_vars => TypeOK'
BY StepTyped, NextIsEntryStep

(* Every reachable state of an entry's cards, games and requests is well   *)
(* typed, for any schedule, feed, cards and number of requests.            *)
THEOREM TypesHold == Spec => []TypeOK
BY InitTyped, NextTyped, PTL DEF Spec

-----------------------------------------------------------------------------
(* Claims and cards.                                                       *)

(* A save being served was sent with a version that existed, and if that   *)
(* is still the version, it has loaded the card of that version.           *)
ClaimsAreFresh ==
    \A r \in Requests :
        request[r].pc = "loaded" =>
            /\ request[r].version <= version[request[r].week]
            /\ Claimed(r) => CardOf(request[r].loaded, request[r].week)
                                = CardOf(picks, request[r].week)

CardInv ==
    TypeOK /\ ClaimsAreFresh /\ StoredCardIsTheOneAccepted /\ CardsHaveNoRepeats

(* A step that neither loads nor saves a card.                             *)
QuietStep ==
    /\ UNCHANGED <<rules, picks, version, saved>>
    /\ \A x \in Requests :
        /\ request'[x].pc = "loaded" => request'[x] = request[x]
        /\ request[x].pc = "loaded" => request'[x].outcome # "ok"

(* Every step is quiet, loads a card or saves one.                         *)
LEMMA StepKinds ==
    ASSUME TypeOK, NEW asked \in SUBSET SUBSET Requested, EntryStep(asked)
    PROVE  \/ QuietStep
           \/ \E r \in Requests, week \in Weeks, base \in Nat, card \in asked :
                Put(r, week, base, card)
           \/ \E r \in Requests : Commit(r)
<1>1. \A x \in Requests : request[x].pc = "loaded" => request[x].outcome = "none"
    BY DEF TypeOK, RequestTypeOK
<1>2. CASE UNCHANGED vars
    BY <1>1, <1>2 DEF vars, QuietStep
<1>3. CASE World
    BY <1>1, <1>3 DEF World, Tick, SyncSchedule, ApplyScoreboard, QuietStep
<1>4. ASSUME NEW r \in Requests, NEW week \in Weeks, Get(r, week)
      PROVE  QuietStep
    BY <1>1, <1>4 DEF Get, Idle, QuietStep, TypeOK
<1>5. ASSUME NEW r \in Requests, NEW week \in Weeks, NEW base \in 0..version[week],
             NEW card \in asked, Put(r, week, base, card)
      PROVE  base \in Nat
    BY PoolWeekAssumption DEF TypeOK
<1>6. ASSUME NEW r \in Requests,
             LoseClaim(r) \/ RejectEliminated(r) \/ RejectCard(r) \/ ReadVersion(r) \/ Fail(r)
      PROVE  QuietStep
    <2>1. /\ Idle.pc # "loaded" /\ Idle.outcome # "ok"
          /\ \A o \in {"lost_claim", "conflict", "invalid"} :
                Answering(r, o).pc # "loaded" /\ Answering(r, o).outcome # "ok"
        BY DEF Answering, Idle
    <2>2. /\ UNCHANGED <<rules, picks, version, saved>>
          /\ \/ request' = [request EXCEPT ![r] = Idle]
             \/ \E o \in {"lost_claim", "conflict", "invalid"} :
                    request' = [request EXCEPT ![r] = Answering(r, o)]
        BY <1>6 DEF LoseClaim, RejectEliminated, RejectCard, ReadVersion, Fail
    <2>. QED
        BY <1>1, <2>1, <2>2 DEF QuietStep, TypeOK
<1>7. ASSUME NEW r \in Requests, ReadPicks(r)
      PROVE  QuietStep
    <2>1. DOMAIN request[r] = DOMAIN Idle /\ DOMAIN request = Requests
        BY DEF TypeOK, RequestTypeOK
    <2>2. request[r].pc = "reading" /\ request'[r].pc = "read"
        BY <1>7, <2>1 DEF ReadPicks, Idle
    <2>3. \A x \in Requests \ {r} : request'[x] = request[x]
        BY <1>7, <2>1 DEF ReadPicks
    <2>. QED
        BY <1>1, <1>7, <2>2, <2>3 DEF ReadPicks, QuietStep
<1>. QED
    BY <1>2, <1>3, <1>4, <1>5, <1>6, <1>7 DEF EntryStep, Serve

(* What a commit does to the cards: its own week's becomes the locked      *)
(* picks and the new rows, and the others' stay.                           *)
LEMMA CommittedCards ==
    ASSUME CardInv, NEW r \in Requests, Commit(r)
    PROVE  LET week == request[r].week
           IN  /\ LockedPicks(r) \subseteq CardOf(picks, week)
               /\ \E slots \in SlotChoices(r) :
                    CardOf(picks', week) =
                        LockedPicks(r) \union {Row(week, slots[q], q) : q \in Added(r)}
               /\ \A w \in Weeks \ {week} : CardOf(picks', w) = CardOf(picks, w)
<1>. DEFINE week == request[r].week
<1>1. CardOf(request[r].loaded, week) = CardOf(picks, week)
    BY DEF Commit, CardInv, ClaimsAreFresh
<1>2. LockedPicks(r) \subseteq CardOf(picks, week)
    BY <1>1 DEF LockedPicks
<1>3. PICK slots \in SlotChoices(r) :
        picks' = (picks \ (CardOf(picks, week) \ LockedPicks(r)))
                     \union {Row(week, slots[q], q) : q \in Added(r)}
    BY <1>1 DEF Commit
<1>4. \A q \in Added(r) : Row(week, slots[q], q).week = week
    BY DEF Row
<1>5. CardOf(picks', week) = LockedPicks(r) \union {Row(week, slots[q], q) : q \in Added(r)}
    BY <1>2, <1>3, <1>4 DEF CardOf
<1>6. \A w \in Weeks \ {week} : CardOf(picks', w) = CardOf(picks, w)
    BY <1>2, <1>3, <1>4 DEF CardOf
<1>. QED
    BY <1>2, <1>5, <1>6

(* What the validation of an accepted card has made sure of.               *)
LEMMA AcceptedCard ==
    ASSUME TypeOK, NEW r \in Requests, Commit(r)
    PROVE  /\ \A p \in LockedPicks(r) : \E q \in request[r].card :
                Identity(rules, q) = Identity(rules, p) /\ SameChoice(q, p)
           /\ \A a, b \in request[r].card :
                a # b => /\ a.team # b.team /\ a.game # b.game
                         /\ Identity(rules, a) # Identity(rules, b)
                         /\ a.confidence = 0 \/ a.confidence # b.confidence
           /\ \A q \in request[r].card :
                rules.type = "survivor" => q.confidence = 0
<1>. DEFINE card == request[r].card
<1>1. \A p \in LockedPicks(r) : Unchanged(rules, card, p)
    BY DEF Commit, Conflicting, HasConflicts, LockedPicks
<1>2. \A p \in LockedPicks(r) : \E q \in card :
        Identity(rules, q) = Identity(rules, p) /\ SameChoice(q, p)
    BY <1>1 DEF Unchanged
<1>3. \A q \in card :
        /\ ~RepeatedIn(card, q)
        /\ ~BadPlace(rules, Seen(r), request[r].week, card, q)
    BY DEF Commit, Invalid, HasFindings
<1>4. \A a, b \in card : a # b => a.team # b.team /\ a.game # b.game
    BY <1>3 DEF RepeatedIn
<1>5. ASSUME NEW a \in card, NEW b \in card, a # b
      PROVE  /\ Identity(rules, a) # Identity(rules, b)
             /\ a.confidence = 0 \/ a.confidence # b.confidence
    BY <1>3, <1>4, <1>5 DEF BadPlace, Identity
<1>6. \A q \in card : rules.type = "survivor" => q.confidence = 0
    BY <1>3 DEF BadPlace
<1>. QED
    BY <1>2, <1>4, <1>5, <1>6

(* The slots of the new rows: as requested, or free of the locked ones and *)
(* of each other.                                                          *)
LEMMA RowSlots ==
    ASSUME NEW r \in Requests, NEW slots \in SlotChoices(r)
    PROVE  IF rules.type = "survivor"
           THEN \A q \in Added(r) : slots[q] = q.slot
           ELSE /\ \A q \in Added(r), p \in LockedPicks(r) : slots[q] # p.slot
                /\ \A a, b \in Added(r) : a # b => slots[a] # slots[b]
<1>1. CASE rules.type = "survivor"
    BY <1>1 DEF SlotChoices
<1>2. CASE rules.type # "survivor"
    <2>1. PICK o \in [Added(r) -> 1..Cardinality(Added(r))] :
            /\ \A a, b \in Added(r) : o[a] = o[b] => a = b
            /\ \A q \in Added(r) :
                slots[q] \notin {p.slot : p \in LockedPicks(r)}
                                \union {slots[b] : b \in {x \in Added(r) : o[x] < o[q]}}
        BY <1>2 DEF SlotChoices
    <2>2. ASSUME NEW a \in Added(r), NEW b \in Added(r), a # b
          PROVE  slots[a] # slots[b]
        <3>1. o[a] \in Nat /\ o[b] \in Nat /\ o[a] # o[b]
            BY <2>1, <2>2
        <3>2. o[a] < o[b] \/ o[b] < o[a]
            BY <3>1
        <3>. QED
            BY <2>1, <3>2
    <2>. QED
        BY <1>2, <2>1, <2>2
<1>. QED
    BY <1>1, <1>2

(* Claims stay fresh: a save raises the version of its week and leaves the *)
(* other weeks' cards alone.                                               *)
LEMMA ClaimsStayFresh ==
    ASSUME CardInv, NEW asked \in SUBSET SUBSET Requested, EntryStep(asked)
    PROVE  ClaimsAreFresh'
<1>. SUFFICES ASSUME NEW x \in Requests, request'[x].pc = "loaded"
              PROVE  /\ request'[x].version <= version'[request'[x].week]
                     /\ version'[request'[x].week] = request'[x].version =>
                            CardOf(request'[x].loaded, request'[x].week)
                                = CardOf(picks', request'[x].week)
    BY DEF ClaimsAreFresh, Claimed
<1>1. CASE QuietStep
    BY <1>1 DEF CardInv, QuietStep, ClaimsAreFresh, Claimed
<1>2. ASSUME NEW r \in Requests, NEW week \in Weeks, NEW base \in Nat,
             NEW card \in SUBSET Requested, Put(r, week, base, card)
      PROVE  /\ request'[x].version <= version'[request'[x].week]
             /\ version'[request'[x].week] = request'[x].version =>
                    CardOf(request'[x].loaded, request'[x].week)
                        = CardOf(picks', request'[x].week)
    <2>1. UNCHANGED <<picks, version>> /\ base <= version[week]
        BY <1>2 DEF Put
    <2>2. CASE x = r
        <3>1. /\ request'[x].version = base /\ request'[x].week = week
              /\ request'[x].loaded = picks
            BY <1>2, <2>2 DEF Put, Idle, CardInv, TypeOK
        <3>. QED
            BY <2>1, <3>1
    <2>3. CASE x # r
        <3>1. request'[x] = request[x]
            BY <1>2, <2>3 DEF Put, CardInv, TypeOK
        <3>. QED
            BY <2>1, <3>1 DEF CardInv, ClaimsAreFresh, Claimed
    <2>. QED
        BY <2>2, <2>3
<1>3. ASSUME NEW r \in Requests, Commit(r)
      PROVE  /\ request'[x].version <= version'[request'[x].week]
             /\ version'[request'[x].week] = request'[x].version =>
                    CardOf(request'[x].loaded, request'[x].week)
                        = CardOf(picks', request'[x].week)
    <2>. DEFINE week == request[r].week
                mine == request[x].week
    <2>1. x # r
        BY <1>3 DEF Commit, Answering, Idle, CardInv, TypeOK
    <2>2. request'[x] = request[x]
        BY <1>3, <2>1 DEF Commit, CardInv, TypeOK
    <2>3. /\ request[x].pc = "loaded" /\ request[r].pc = "loaded"
          /\ request[x].version <= version[mine]
        BY <1>3, <2>2 DEF Commit, CardInv, ClaimsAreFresh
    <2>4. /\ week \in Weeks /\ mine \in Weeks
          /\ version[mine] \in Nat /\ request[x].version \in Nat
        <3>1. week \in Weeks /\ mine \in Weeks /\ request[x].version \in 0..MaxVersion
            BY <2>3 DEF CardInv, TypeOK, RequestTypeOK
        <3>2. version[mine] \in 0..MaxVersion
            BY <3>1 DEF CardInv, TypeOK
        <3>. QED
            BY <3>1, <3>2
    <2>5. version' = [version EXCEPT ![week] = @ + 1]
        BY <1>3 DEF Commit, RaiseVersion
    <2>6. CASE mine = week
        <3>1. version'[mine] = version[mine] + 1
            BY <2>4, <2>5, <2>6 DEF CardInv, TypeOK
        <3>. QED
            BY <2>2, <2>3, <2>4, <3>1
    <2>7. CASE mine # week
        <3>1. version'[mine] = version[mine]
            BY <2>4, <2>5, <2>7 DEF CardInv, TypeOK
        <3>2. CardOf(picks', mine) = CardOf(picks, mine)
            BY <1>3, <2>4, <2>7, CommittedCards
        <3>. QED
            BY <2>2, <2>3, <3>1, <3>2 DEF CardInv, ClaimsAreFresh, Claimed
    <2>. QED
        BY <2>6, <2>7
<1>. QED
    BY <1>1, <1>2, <1>3, StepKinds DEF CardInv

(* A row stands for the pick that was asked for.                           *)
LEMMA RowIsTheRequest ==
    ASSUME NEW r \in Requests, NEW slots \in SlotChoices(r), NEW q \in Added(r), NEW week
    PROVE  Normal(Row(week, slots[q], q)) = Normal(q)
<1>1. rules.type = "survivor" => slots[q] = q.slot
    BY RowSlots
<1>. QED
    BY <1>1 DEF Normal, Row

(* The card that a save leaves is the card it accepted.                    *)
LEMMA CommitStoresItsCard ==
    ASSUME CardInv, NEW r \in Requests, Commit(r)
    PROVE  Normalized(CardOf(picks', request[r].week)) = Normalized(request[r].card)
<1>. DEFINE week == request[r].week
            card == request[r].card
<1>1. PICK slots \in SlotChoices(r) :
        CardOf(picks', week) = LockedPicks(r) \union {Row(week, slots[q], q) : q \in Added(r)}
    BY CommittedCards
<1>2. \A q \in Added(r) : q \in card /\ Normal(Row(week, slots[q], q)) = Normal(q)
    BY RowIsTheRequest DEF Added
<1>3. \A p, q : Identity(rules, q) = Identity(rules, p) /\ SameChoice(q, p)
            => Normal(p) = Normal(q)
    BY DEF Identity, SameChoice, Normal
<1>4. ASSUME NEW p \in LockedPicks(r)
      PROVE  \E q \in card : Normal(p) = Normal(q)
    BY <1>3, AcceptedCard DEF CardInv
<1>5. ASSUME NEW q \in card, q \notin Added(r)
      PROVE  \E p \in LockedPicks(r) : Normal(p) = Normal(q)
    <2>1. PICK p \in LockedPicks(r) : Identity(rules, p) = Identity(rules, q)
        BY <1>5 DEF Added
    <2>2. PICK o \in card : Identity(rules, o) = Identity(rules, p) /\ SameChoice(o, p)
        BY AcceptedCard DEF CardInv
    <2>3. o = q
        BY <2>1, <2>2, AcceptedCard DEF CardInv
    <2>. QED
        BY <1>3, <2>2, <2>3
<1>6. \A n \in Normalized(CardOf(picks', week)) : n \in Normalized(card)
    BY <1>1, <1>2, <1>4 DEF Normalized
<1>7. \A n \in Normalized(card) : n \in Normalized(CardOf(picks', week))
    <2>. SUFFICES ASSUME NEW q \in card
                  PROVE  \E p \in CardOf(picks', week) : Normal(p) = Normal(q)
        BY DEF Normalized
    <2>1. CASE q \in Added(r)
        BY <1>1, <1>2, <2>1
    <2>2. CASE q \notin Added(r)
        BY <1>1, <1>5, <2>2
    <2>. QED
        BY <2>1, <2>2
<1>. QED
    BY <1>6, <1>7

(* A commit stores the card it accepts, and nothing else stores any.       *)
LEMMA StoredCardStaysAccepted ==
    ASSUME CardInv, NEW asked \in SUBSET SUBSET Requested, EntryStep(asked)
    PROVE  StoredCardIsTheOneAccepted'
<1>1. CASE UNCHANGED <<rules, picks, saved>>
    BY <1>1 DEF CardInv, StoredCardIsTheOneAccepted, Normalized, Normal
<1>2. ASSUME NEW r \in Requests, Commit(r)
      PROVE  StoredCardIsTheOneAccepted'
    <2>. DEFINE week == request[r].week
    <2>1. rules' = rules /\ saved' = [saved EXCEPT ![week] = request[r].card]
        BY <1>2 DEF Commit
    <2>2. week \in Weeks
        BY <1>2 DEF Commit, CardInv, TypeOK, RequestTypeOK
    <2>3. ASSUME NEW w \in Weeks
          PROVE  Normalized(CardOf(picks', w)) = Normalized(saved'[w])
        <3>1. CASE w = week
            <4>1. saved'[w] = request[r].card
                BY <2>1, <2>2, <3>1 DEF CardInv, TypeOK
            <4>. QED
                BY <1>2, <3>1, <4>1, CommitStoresItsCard
        <3>2. CASE w # week
            <4>1. saved'[w] = saved[w]
                BY <2>1, <3>2 DEF CardInv, TypeOK
            <4>2. CardOf(picks', w) = CardOf(picks, w)
                BY <1>2, <3>2, CommittedCards
            <4>. QED
                BY <4>1, <4>2 DEF CardInv, StoredCardIsTheOneAccepted
        <3>. QED
            BY <3>1, <3>2
    <2>. QED
        BY <2>1, <2>3 DEF StoredCardIsTheOneAccepted, Normalized, Normal
<1>. QED
    BY <1>1, <1>2, StepKinds DEF QuietStep, Put, CardInv

(* A save leaves no repeats: among locked picks there were none, new rows  *)
(* come from a checked card and get slots of their own, and a locked pick  *)
(* is itself a choice of that card.                                        *)
LEMMA CommitRepeatsNothing ==
    ASSUME CardInv, NEW r \in Requests, Commit(r),
           NEW p \in CardOf(picks', request[r].week),
           NEW q \in CardOf(picks', request[r].week), p # q
    PROVE  /\ p.slot # q.slot /\ p.game # q.game /\ p.team # q.team
           /\ p.confidence = 0 \/ p.confidence # q.confidence
<1>. DEFINE week == request[r].week
            card == request[r].card
            NoRepeat(a, b) == /\ a.slot # b.slot /\ a.game # b.game /\ a.team # b.team
                              /\ a.confidence = 0 \/ a.confidence # b.confidence
<1>1. PICK slots \in SlotChoices(r) :
        CardOf(picks', week) = LockedPicks(r) \union {Row(week, slots[a], a) : a \in Added(r)}
    BY CommittedCards
<1>2. \A a \in Added(r) : a \in card
    BY DEF Added
<1>3. ASSUME NEW a \in LockedPicks(r), NEW b \in LockedPicks(r), a # b
      PROVE  NoRepeat(a, b)
    <2>1. a \in CardOf(picks, week) /\ b \in CardOf(picks, week)
        BY CommittedCards
    <2>. QED
        BY <1>3, <2>1 DEF CardInv, CardsHaveNoRepeats, CardOf
<1>4. ASSUME NEW a \in Added(r), NEW b \in Added(r), a # b
      PROVE  NoRepeat(Row(week, slots[a], a), Row(week, slots[b], b))
    <2>1. /\ a.team # b.team /\ a.game # b.game /\ Identity(rules, a) # Identity(rules, b)
          /\ a.confidence = 0 \/ a.confidence # b.confidence
        BY <1>2, <1>4, AcceptedCard DEF CardInv
    <2>2. slots[a] # slots[b]
        BY <1>4, <2>1, RowSlots DEF Identity
    <2>. QED
        BY <2>1, <2>2 DEF Row
<1>5. ASSUME NEW a \in LockedPicks(r), NEW b \in Added(r)
      PROVE  /\ NoRepeat(a, Row(week, slots[b], b))
             /\ NoRepeat(Row(week, slots[b], b), a)
    <2>1. PICK o \in card : Identity(rules, o) = Identity(rules, a) /\ SameChoice(o, a)
        BY AcceptedCard DEF CardInv
    <2>2. Identity(rules, a) # Identity(rules, b)
        BY DEF Added
    <2>3. o # b
        BY <2>1, <2>2
    <2>4. /\ b.team # o.team /\ b.game # o.game
          /\ b.confidence = 0 \/ b.confidence # o.confidence
          /\ o.confidence = 0 \/ o.confidence # b.confidence
        BY <1>2, <2>3, AcceptedCard DEF CardInv
    <2>5. slots[b] # a.slot
        BY <2>2, RowSlots DEF Identity
    <2>. QED
        BY <2>1, <2>4, <2>5 DEF SameChoice, Row
<1>. QED
    BY <1>1, <1>3, <1>4, <1>5

(* No step brings a repeat into a card.                                    *)
LEMMA RepeatsStayAbsent ==
    ASSUME CardInv, NEW asked \in SUBSET SUBSET Requested, EntryStep(asked)
    PROVE  CardsHaveNoRepeats'
<1>1. CASE picks' = picks
    BY <1>1 DEF CardInv, CardsHaveNoRepeats
<1>2. ASSUME NEW r \in Requests, Commit(r)
      PROVE  CardsHaveNoRepeats'
    <2>. SUFFICES ASSUME NEW p \in picks', NEW q \in picks', p # q, p.week = q.week
                  PROVE  /\ p.slot # q.slot /\ p.game # q.game /\ p.team # q.team
                         /\ p.confidence = 0 \/ p.confidence # q.confidence
        BY DEF CardsHaveNoRepeats
    <2>1. CASE p.week = request[r].week
        BY <1>2, <2>1, CommitRepeatsNothing DEF CardOf
    <2>2. CASE p.week # request[r].week
        <3>1. p.week \in Weeks
            BY <1>2, CommitTyped DEF CardInv, Picks
        <3>2. CardOf(picks', p.week) = CardOf(picks, p.week)
            BY <1>2, <2>2, <3>1, CommittedCards
        <3>3. p \in picks /\ q \in picks
            BY <3>2 DEF CardOf
        <3>. QED
            BY <3>3 DEF CardInv, CardsHaveNoRepeats
    <2>. QED
        BY <2>1, <2>2
<1>. QED
    BY <1>1, <1>2, StepKinds DEF QuietStep, Put, CardInv

(* Every step keeps the four invariants.                                   *)
LEMMA CardInvKept ==
    ASSUME CardInv, NEW asked \in SUBSET SUBSET Requested, EntryStep(asked)
    PROVE  CardInv'
BY StepTyped, ClaimsStayFresh, StoredCardStaysAccepted, RepeatsStayAbsent DEF CardInv

(* They hold of the empty cards of a new season.                           *)
LEMMA CardInvInitially == Init => CardInv
<1>1. Init => ClaimsAreFresh /\ StoredCardIsTheOneAccepted /\ CardsHaveNoRepeats
    BY DEF Init, Idle, ClaimsAreFresh, StoredCardIsTheOneAccepted, CardsHaveNoRepeats,
           Normalized, CardOf
<1>. QED
    BY <1>1, InitTyped DEF CardInv

(* They always hold.                                                       *)
LEMMA CardInvHolds == Spec => []CardInv
<1>1. CardInv /\ [Next]_vars => CardInv'
    BY CardInvKept, NextIsEntryStep
<1>. QED
    BY <1>1, CardInvInitially, PTL DEF Spec

(* A save that may still claim its version has loaded the card it will     *)
(* replace, for any number of concurrent requests.                         *)
THEOREM ClaimsSeeTheirCards == Spec => []ClaimSeesItsCard
<1>1. CardInv => ClaimSeesItsCard
    BY DEF CardInv, ClaimsAreFresh, ClaimSeesItsCard
<1>. QED
    BY <1>1, CardInvHolds, PTL

(* What is stored for a week is always the card last accepted for it.      *)
THEOREM StoredCardsWereAccepted == Spec => []StoredCardIsTheOneAccepted
<1>1. CardInv => StoredCardIsTheOneAccepted
    BY DEF CardInv
<1>. QED
    BY <1>1, CardInvHolds, PTL

(* No week's card ever has a slot, a game, a team or a weight twice.       *)
THEOREM NoCardRepeats == Spec => []CardsHaveNoRepeats
<1>1. CardInv => CardsHaveNoRepeats
    BY DEF CardInv
<1>. QED
    BY <1>1, CardInvHolds, PTL

-----------------------------------------------------------------------------
(* Locks.                                                                  *)

(* Stamping leaves a game's kickoff and never opens it.                    *)
LEMMA StampedStaysLocked ==
    ASSUME NEW gs \in [Games -> GameStates], NEW due, NEW g \in Games
    PROVE  /\ Stamped(gs, due)[g].kickoff = gs[g].kickoff
           /\ gs[g].locked \/ g \in due => Stamped(gs, due)[g].locked
<1>1. Stamped(gs, due)[g] = [gs[g] EXCEPT !.locked = @ \/ g \in due]
    BY DEF Stamped
<1>. QED
    BY <1>1 DEF GameStates

(* A step opens no locked game.                                            *)
LEMMA LocksKept ==
    ASSUME TypeOK, NEW asked \in SUBSET SUBSET Requested, EntryStep(asked),
           NEW g \in Games, GameLocked(games[g], now)
    PROVE  GameLocked(games'[g], now')
<1>1. CASE UNCHANGED <<games, now>>
    BY <1>1
<1>2. CASE Tick
    <2>1. now \in Nat /\ games[g].kickoff \in Nat
        BY PoolWeekAssumption DEF TypeOK, GameStates
    <2>. QED
        BY <1>2, <2>1 DEF Tick, GameLocked
<1>3. ASSUME NEW due, games' = Stamped(games, due), now' = now
      PROVE  GameLocked(games'[g], now')
    BY <1>3, StampedStaysLocked DEF GameLocked, TypeOK
<1>4. ASSUME NEW item \in Feed, NEW result, SyncSchedule(item, result)
      PROVE  GameLocked(games'[g], now')
    <2>. DEFINE gs == Stamped(games, DueGames(games, now))
    <2>1. gs[g].locked /\ gs \in [Games -> GameStates]
        BY StampedStaysLocked, StampedTyped DEF TypeOK, DueGames
    <2>2. /\ games' = [gs EXCEPT ![item.game].week = item.week,
                                 ![item.game].kickoff = item.kickoff,
                                 ![item.game].result =
                                    IF item.kickoff < now THEN result ELSE "none"]
          /\ now' = now
        BY <1>4 DEF SyncSchedule
    <2>3. games'[g].locked
        BY <2>1, <2>2 DEF GameStates
    <2>. QED
        BY <2>3 DEF GameLocked
<1>5. ASSUME NEW score \in Scores, ApplyScoreboard(score)
      PROVE  GameLocked(games'[g], now')
    BY <1>5 DEF ApplyScoreboard, GameLocked, TypeOK, GameStates
<1>6. ASSUME NEW r \in Requests, Commit(r) \/ ReadPicks(r)
      PROVE  GameLocked(games'[g], now')
    BY <1>1, <1>3, <1>6 DEF Commit, ReadPicks
<1>. QED
    BY <1>1, <1>2, <1>4, <1>5, <1>6
       DEF EntryStep, World, Serve, Get, Put, LoseClaim, RejectEliminated, RejectCard,
           ReadVersion, Fail, vars

(* A locked game stays locked, whatever the schedule feed says of it.      *)
THEOREM LocksAreFinal == Spec => LocksNeverLift
<1>1. TypeOK /\ [Next]_vars
        => \A g \in Games : GameLocked(games[g], now) => GameLocked(games[g], now)'
    BY LocksKept, NextIsEntryStep
<1>. QED
    BY <1>1, TypesHold, PTL DEF Spec, LocksNeverLift

(* The pick is among the locked ones of the save's commit, which keeps     *)
(* them.                                                                   *)
LEMMA SavesKeepLockedPicks ==
    ASSUME CardInv, NEW asked \in SUBSET SUBSET Requested, EntryStep(asked),
           NEW r \in Requests, request[r].pc = "loaded",
           request'[r].outcome = "ok", rules.lockMode = "game_start",
           NEW p \in CardOf(request[r].loaded, request[r].week),
           GameLocked(request[r].loadedGames[p.game], request[r].time)
    PROVE  p \in picks'
<1>1. RequestTypeOK(request[r]) /\ DOMAIN request = Requests
    BY DEF CardInv, TypeOK
<1>2. request[r].outcome = "none"
    BY <1>1 DEF RequestTypeOK
<1>3. Commit(r)
    <2>1. ~QuietStep
        BY DEF QuietStep
    <2>2. ASSUME NEW x \in Requests, NEW week, NEW base, NEW card, Put(x, week, base, card)
          PROVE  FALSE
        BY <1>1, <1>2, <2>2 DEF Put
    <2>3. ASSUME NEW x \in Requests, Commit(x)
          PROVE  x = r
        BY <1>1, <1>2, <2>3 DEF Commit
    <2>. QED
        BY <2>1, <2>2, <2>3, StepKinds DEF CardInv
<1>4. p.game \in Games /\ p.game \in DOMAIN request[r].loadedGames
    BY <1>1 DEF RequestTypeOK, CardOf, Picks
<1>5. Seen(r)[p.game] = request[r].loadedGames[p.game]
    BY <1>4 DEF Seen
<1>6. p \in LockedPicks(r)
    BY <1>5 DEF LockedPicks, PickLocked
<1>7. p \in CardOf(picks', request[r].week)
    BY <1>3, <1>6, CommittedCards
<1>. QED
    BY <1>7 DEF CardOf

(* A save never changes or removes a pick that was locked when it began.   *)
THEOREM LockedPicksAreKept == Spec => LockedPicksStay
<1>1. CardInv /\ [Next]_vars =>
        \A r \in Requests :
            request[r].pc = "loaded" /\ request'[r].outcome = "ok"
                /\ rules.lockMode = "game_start" =>
                    \A p \in CardOf(request[r].loaded, request[r].week) :
                        GameLocked(request[r].loadedGames[p.game], request[r].time)
                            => p \in picks'
    BY SavesKeepLockedPicks, NextIsEntryStep
<1>. QED
    BY <1>1, CardInvHolds, PTL DEF Spec, LockedPicksStay

-----------------------------------------------------------------------------
(* The uses that count.                                                    *)

(* An entry has finitely many picks, and so does a card being saved.       *)
FinitePicks ==
    /\ IsFiniteSet(picks)
    /\ \A r \in Requests : request[r].pc = "loaded" => IsFiniteSet(request[r].card)

(* A save adds finitely many picks.                                        *)
LEMMA PicksStayFinite ==
    ASSUME TypeOK, FinitePicks, [Next]_vars
    PROVE  FinitePicks'
<1>1. CASE QuietStep
    BY <1>1 DEF QuietStep, FinitePicks
<1>2. ASSUME NEW r \in Requests, NEW week \in Weeks, NEW base \in Nat,
             NEW card \in AllCards, Put(r, week, base, card)
      PROVE  FinitePicks'
    <2>1. UNCHANGED picks /\ request'[r].card = card
        BY <1>2 DEF Put, Idle, TypeOK
    <2>2. \A x \in Requests \ {r} : request'[x] = request[x]
        BY <1>2 DEF Put, TypeOK
    <2>3. IsFiniteSet(card)
        BY PoolWeekAssumption DEF AllCards
    <2>. QED
        BY <2>1, <2>2, <2>3 DEF FinitePicks
<1>3. ASSUME NEW r \in Requests, Commit(r)
      PROVE  FinitePicks'
    <2>. DEFINE week == request[r].week
    <2>1. PICK slots \in SlotChoices(r) :
            picks' = (picks \ (CardOf(request[r].loaded, week) \ LockedPicks(r)))
                         \union {Row(week, slots[q], q) : q \in Added(r)}
        BY <1>3 DEF Commit
    <2>. DEFINE row == [q \in Added(r) |-> Row(week, slots[q], q)]
                rows == {Row(week, slots[q], q) : q \in Added(r)}
                kept == picks \ (CardOf(request[r].loaded, week) \ LockedPicks(r))
    <2>2. IsFiniteSet(Added(r))
        <3>1. IsFiniteSet(request[r].card)
            BY <1>3 DEF Commit, FinitePicks
        <3>. QED
            BY <3>1, FS_Subset DEF Added
    <2>3. row \in Surjection(Added(r), rows)
        BY DEF Surjection
    <2>4. IsFiniteSet(rows)
        BY <2>2, <2>3, FS_Surjection
    <2>5. IsFiniteSet(kept)
        BY FS_Subset DEF FinitePicks
    <2>6. IsFiniteSet(picks')
        BY <2>1, <2>4, <2>5, FS_Union
    <2>7. \A x \in Requests \ {r} : request'[x] = request[x]
        BY <1>3 DEF Commit, TypeOK
    <2>8. request'[r].pc # "loaded"
        BY <1>3 DEF Commit, Answering, Idle, TypeOK
    <2>. QED
        BY <2>6, <2>7, <2>8 DEF FinitePicks
<1>. QED
    BY <1>1, <1>2, <1>3, StepKinds, NextIsEntryStep

(* Types and finiteness always hold.                                       *)
LEMMA FinitePicksHold == Spec => [](TypeOK /\ FinitePicks)
<1>1. Init => FinitePicks
    BY FS_EmptySet DEF Init, Idle, FinitePicks
<1>2. TypeOK /\ FinitePicks /\ [Next]_vars => FinitePicks'
    BY PicksStayFinite
<1>. QED
    BY <1>1, <1>2, InitTyped, NextTyped, PTL DEF Spec

(* A set of natural numbers with a bound has a greatest one.               *)
LEMMA GreatestNumber ==
    ASSUME NEW T, T \subseteq Nat, T # {}, NEW bound \in Nat, \A i \in T : i < bound
    PROVE  \E i \in T : \A j \in T : j <= i
<1>. DEFINE R == {ss \in Nat \X Nat : ss[1] < ss[2]}
            gaps == {bound - i : i \in T}
<1>1. IsWellFoundedOn(R, Nat)
    BY NatLessThanWellFounded DEF OpToRel
<1>2. gaps \subseteq Nat /\ gaps # {}
    <2>1. \A i \in T : i \in Nat /\ bound - i \in Nat
        OBVIOUS
    <2>. QED
        BY <2>1
<1>3. \A i, j \in Nat : j < i => <<j, i>> \in R
    OBVIOUS
<1>. HIDE DEF R
<1>4. PICK gap \in gaps : \A other \in gaps : ~(<<other, gap>> \in R)
    <2>. HIDE DEF gaps
    <2>. QED
        BY <1>1, <1>2, WFMin
<1>5. PICK i \in T : gap = bound - i
    OBVIOUS
<1>6. ASSUME NEW j \in T PROVE j <= i
    <2>1. /\ bound - j \in gaps /\ bound - j \in Nat /\ bound - i \in Nat
          /\ i \in Nat /\ j \in Nat
        BY <1>2, <1>5
    <2>2. ~(bound - j < bound - i)
        BY <1>3, <1>4, <1>5, <2>1
    <2>. QED
        BY <2>1, <2>2
<1>. QED
    BY <1>6

(* A later pick of a team has at least one prior use more.                 *)
LEMMA PriorUsesGrow ==
    ASSUME NEW ps, ps \subseteq Picks, IsFiniteSet(ps), NEW p \in ps,
           NEW later \in Weeks, p.week < later
    PROVE  PriorUses(ps, p.team, p.week) < PriorUses(ps, p.team, later)
<1>. DEFINE before == {x \in ps : x.team = p.team /\ x.week < p.week}
            upTo == {x \in ps : x.team = p.team /\ x.week < later}
<1>1. \A x \in ps : x.week \in Nat
    BY PoolWeekAssumption DEF Picks
<1>2. later \in Nat
    BY PoolWeekAssumption
<1>3. before \subseteq upTo /\ p \in upTo /\ p \notin before
    BY <1>1, <1>2
<1>4. IsFiniteSet(upTo) /\ IsFiniteSet(before)
    BY FS_Subset
<1>. HIDE DEF before, upTo
<1>5. Cardinality(before) <= Cardinality(upTo) /\ Cardinality(before) # Cardinality(upTo)
    BY <1>3, <1>4, FS_Subset
<1>6. Cardinality(before) \in Nat /\ Cardinality(upTo) \in Nat
    BY <1>4, FS_CardinalityType
<1>. QED
    BY <1>5, <1>6 DEF PriorUses, before, upTo

(* Of the picks of a team that count, all but the one with most prior uses *)
(* are among its prior uses, of which a pick that counts has too few.      *)
LEMMA CountedUsesAreFew ==
    ASSUME TypeOK, FinitePicks, rules.type = "survivor", rules.uses > 0, NEW t \in Teams
    PROVE  Cardinality({p \in picks : p.team = t
                /\ EntryResult(rules, games, picks, p) # "ungraded"}) <= rules.uses
<1>. DEFINE counted == {p \in picks : p.team = t
                            /\ EntryResult(rules, games, picks, p) # "ungraded"}
            uses(p) == PriorUses(picks, t, p.week)
            prior(p) == {x \in picks : x.team = t /\ x.week < p.week}
            numbers == {uses(p) : p \in counted}
<1>. SUFFICES Cardinality(counted) <= rules.uses
    OBVIOUS
<1>1. rules.uses \in Nat
    BY PoolWeekAssumption DEF TypeOK, Rules
<1>2. IsFiniteSet(counted)
    BY FS_Subset DEF FinitePicks
<1>3. CASE counted = {}
    <2>1. Cardinality(counted) = 0
        BY <1>3, FS_EmptySet
    <2>. HIDE DEF counted
    <2>. QED
        BY <1>1, <2>1
<1>4. CASE counted # {}
    <2>1. \A p \in counted :
            /\ p \in picks /\ p.team = t /\ p.week \in Weeks /\ p.week \in Nat
            /\ ~Malformed(rules, games, picks, p)
        BY PoolWeekAssumption DEF EntryResult, TypeOK, Picks
    <2>2. \A p \in counted : IsFiniteSet(prior(p)) /\ uses(p) = Cardinality(prior(p))
        BY FS_Subset DEF FinitePicks, PriorUses
    <2>3. \A p \in counted : uses(p) \in Nat
        BY <2>2, FS_CardinalityType
    <2>4. \A p \in counted : uses(p) < rules.uses
        <3>1. \A p \in counted : ~(uses(p) >= rules.uses)
            BY <2>1 DEF Malformed, UsedUp
        <3>. QED
            BY <1>1, <2>3, <3>1
    <2>5. PICK last \in counted : \A p \in counted : uses(p) <= uses(last)
        <3>1. numbers \subseteq Nat /\ numbers # {} /\ \A i \in numbers : i < rules.uses
            BY <1>4, <2>3, <2>4
        <3>2. PICK i \in numbers : \A j \in numbers : j <= i
            <4>. HIDE DEF numbers
            <4>. QED
                BY <1>1, <3>1, GreatestNumber
        <3>. QED
            BY <3>2
    <2>6. ASSUME NEW p \in counted, p # last PROVE p.week < last.week
        <3>1. p.week # last.week
            BY <2>1, <2>6 DEF Malformed
        <3>2. ~(last.week < p.week)
            <4>. SUFFICES ASSUME last.week < p.week PROVE FALSE
                OBVIOUS
            <4>1. uses(last) < uses(p)
                BY <2>1, PriorUsesGrow DEF TypeOK, FinitePicks
            <4>2. uses(p) <= uses(last) /\ uses(p) \in Nat /\ uses(last) \in Nat
                BY <2>3, <2>5
            <4>. QED
                BY <4>1, <4>2
        <3>. QED
            BY <2>1, <3>1, <3>2
    <2>7. counted \ {last} \subseteq prior(last)
        BY <2>1, <2>6
    <2>8. /\ Cardinality(counted \ {last}) = Cardinality(counted) - 1
          /\ Cardinality(counted \ {last}) <= uses(last)
        <3>. HIDE DEF counted, prior, uses
        <3>. QED
            BY <1>2, <2>2, <2>7, FS_RemoveElement, FS_Subset
    <2>9. Cardinality(counted) \in Nat
        BY <1>2, FS_CardinalityType
    <2>10. Cardinality(counted) <= rules.uses
        <3>. HIDE DEF counted, uses
        <3>. QED
            BY <1>1, <2>3, <2>4, <2>8, <2>9
    <2>. QED
        BY <2>10
<1>. QED
    BY <1>3, <1>4

(* However cards come to be saved, grading never counts more uses of a     *)
(* team than the pool allows.                                              *)
THEOREM CountedUsesAreLimited == Spec => []UsesThatCountAreLimited
<1>1. TypeOK /\ FinitePicks => UsesThatCountAreLimited
    BY CountedUsesAreFew DEF UsesThatCountAreLimited
<1>. QED
    BY <1>1, FinitePicksHold, PTL

=============================================================================
