------------------------- MODULE PoolAutosaveProofs -------------------------
(***************************************************************************)
(* Proofs that what a tab shows as saved is a card the server has          *)
(* accepted, whatever is edited, lost or retried, and that what PoolWeek   *)
(* promises of cards also holds of those that tabs save.                   *)
(***************************************************************************)
EXTENDS PoolAutosave, PoolWeekProofs, SequenceTheorems

-----------------------------------------------------------------------------
(* The inductive invariant.                                                *)

DraftOf(rule, card) ==
    {[slot |-> IF rule.type = "survivor" THEN p.slot ELSE 0,
      game |-> p.game, team |-> p.team, confidence |-> p.confidence] : p \in card}

TabTypeOK(b) ==
    /\ DOMAIN b = DOMAIN NewTab
    /\ b.version \in 0..MaxVersion /\ b.page \in 0..MaxVersion
    /\ b.basis \in 0..MaxVersion /\ b.readAt \in 0..MaxVersion
    /\ b.latest \subseteq Requested
    /\ b.dirty \in BOOLEAN /\ b.timer \in BOOLEAN /\ b.open \in BOOLEAN
    /\ b.enabled \in BOOLEAN /\ b.readEnabled \in BOOLEAN
    /\ b.state \in States

(* A tab and its request fit the cards accepted so far: a card being shown *)
(* is one of them, and unless the owner has edited it since, the draft is  *)
(* what was sent.                                                          *)
TabFits(b, q, rule, cards) ==
    /\ TabTypeOK(b)
    /\ q.pc # "idle" => q.week = Week
    /\ q.pc \in {"reading", "read"} => q.outcome # "none"
    /\ q.pc = "read" => DraftOf(rule, q.shown) \in cards
    /\ ~b.dirty =>
        /\ q.pc = "loaded" \/ q.outcome = "lost_claim" => q.card = b.latest
        /\ q.outcome = "ok" => DraftOf(rule, b.latest) \in cards
    /\ b.state = "saved" => DraftOf(rule, b.latest) \in cards

AutosaveInv ==
    /\ CardInv
    /\ authors \in Seq(Tabs) /\ Len(authors) = version[Week]
    /\ edits \in 0..MaxEdits /\ failures \in 0..MaxFailures
    /\ DraftOf(rules, saved[Week]) \in accepted
    /\ DOMAIN tab = Tabs
    /\ \A t \in Tabs : TabFits(tab[t], request[t], rules, accepted)

(* No tab is open at first, and the empty card counts as accepted.         *)
LEMMA AutosaveInitially == AutosaveInit => AutosaveInv
<1>. SUFFICES ASSUME AutosaveInit PROVE AutosaveInv
    OBVIOUS
<1>1. CardInv
    BY CardInvInitially DEF AutosaveInit
<1>2. 0 \in 0..MaxVersion /\ 0 \in 0..MaxEdits /\ 0 \in 0..MaxFailures /\ Week \in Weeks
    BY PoolWeekAssumption, PoolAutosaveAssumption
<1>3. DraftOf(rules, saved[Week]) \in accepted
    BY <1>2 DEF AutosaveInit, Init, DraftOf
<1>4. ASSUME NEW t \in Tabs
      PROVE  TabFits(tab[t], request[t], rules, accepted)
    <2>1. tab[t] = NewTab /\ request[t] = Idle
        BY DEF AutosaveInit, Init, Tabs
    <2>2. TabTypeOK(NewTab)
        BY <1>2 DEF TabTypeOK, NewTab, States
    <2>. QED
        BY <2>1, <2>2 DEF TabFits, NewTab, Idle
<1>5. authors \in Seq(Tabs) /\ Len(authors) = version[Week]
    BY <1>2 DEF AutosaveInit, Init
<1>. QED
    BY <1>1, <1>2, <1>3, <1>4, <1>5 DEF AutosaveInv, AutosaveInit

-----------------------------------------------------------------------------
(* Drafts.                                                                 *)

(* A draft depends on the rules only.                                      *)
LEMMA DraftIsDraftOf == \A card : Draft(card) = DraftOf(rules, card)
BY DEF Draft, Normalized, Normal, DraftOf

(* A draft's own draft is the same.                                        *)
LEMMA DraftOfDraft ==
    ASSUME NEW rule, NEW card
    PROVE  DraftOf(rule, DraftOf(rule, card)) = DraftOf(rule, card)
BY DEF DraftOf

(* The draft of stored picks can be requested.                             *)
LEMMA DraftTyped ==
    ASSUME TypeOK, NEW card \in SUBSET Picks
    PROVE  DraftOf(rules, card) \subseteq Requested
<1>1. rules.type = "survivor" \/ 0 \in Slots
    BY PoolAutosaveAssumption DEF TypeOK
<1>. QED
    BY <1>1 DEF DraftOf, Requested, Picks

(* A card read from the database has been accepted.                        *)
LEMMA StoredAccepted ==
    ASSUME AutosaveInv
    PROVE  DraftOf(rules, CardOf(picks, Week)) \in accepted
<1>1. Normalized(CardOf(picks, Week)) = Normalized(saved[Week])
    BY PoolAutosaveAssumption DEF AutosaveInv, CardInv, StoredCardIsTheOneAccepted
<1>2. DraftOf(rules, CardOf(picks, Week)) = DraftOf(rules, saved[Week])
    BY <1>1, DraftIsDraftOf DEF Draft
<1>. QED
    BY <1>2 DEF AutosaveInv

-----------------------------------------------------------------------------
(* Steps.                                                                  *)

(* What tabs ask of the server are steps of PoolWeek, for any card.        *)
LEMMA AutosaveIsEntryStep ==
    ASSUME AutosaveInv, [AutosaveNext]_autosaveVars
    PROVE  EntryStep(SUBSET Requested)
<1>1. ASSUME NEW t \in Tabs, Send(t)
      PROVE  EntryStep(SUBSET Requested)
    <2>1. tab[t].latest \in SUBSET Requested /\ tab[t].version \in 0..MaxVersion
        BY DEF AutosaveInv, TabFits, TabTypeOK
    <2>2. Put(t, Week, tab[t].version, tab[t].latest) /\ Week \in Weeks
        BY <1>1, PoolAutosaveAssumption DEF Send
    <2>3. tab[t].version \in 0..version[Week]
        <3>1. tab[t].version <= version[Week] /\ version[Week] \in 0..MaxVersion
            BY <2>2 DEF Put, AutosaveInv, CardInv, TypeOK
        <3>. QED
            BY <2>1, <3>1, PoolWeekAssumption
    <2>. QED
        BY <2>1, <2>2, <2>3 DEF EntryStep, Tabs
<1>2. ASSUME NEW t \in Tabs, Fetch(t)
      PROVE  EntryStep(SUBSET Requested)
    BY <1>2, PoolAutosaveAssumption DEF Fetch, EntryStep, Tabs
<1>3. ASSUME NEW t \in Tabs,
             \/ ServeCommit(t) \/ ServeRefusal(t) \/ ServeRead(t)
             \/ Reply(t) \/ ReplyEliminated(t) \/ ReplyLost(t)
      PROVE  EntryStep(SUBSET Requested)
    BY <1>3 DEF ServeCommit, ServeRefusal, ServeRead, Reply, ReplyEliminated, ReplyLost,
                Serve, EntryStep, Tabs
<1>4. CASE World
    BY <1>4 DEF EntryStep
<1>5. CASE UNCHANGED vars
    BY <1>5 DEF EntryStep
<1>6. ASSUME NEW t \in Tabs,
             PumpInVain(t) \/ RetryInVain(t) \/ \E card \in Cards[Week] : Edit(t, card)
      PROVE  UNCHANGED vars
    BY <1>6 DEF PumpInVain, RetryInVain, Edit
<1>. QED
    BY <1>1, <1>2, <1>3, <1>4, <1>5, <1>6
       DEF AutosaveNext, Progress, PumpOnTimer, PumpOnRetry, autosaveVars

(* The rules of a pool stay.                                               *)
LEMMA RulesStay ==
    ASSUME NEW asked, EntryStep(asked)
    PROVE  rules' = rules
BY DEF EntryStep, World, Tick, SyncSchedule, ApplyScoreboard, Get, Put, Serve, Fail, LoseClaim,
       RejectEliminated, RejectCard, Commit, ReadPicks, ReadVersion, vars

(* Nothing changes what a tab and its request fit but their own steps.     *)
LEMMA TabStillFits ==
    ASSUME NEW b, NEW q, NEW rule, NEW cards, TabFits(b, q, rule, cards),
           NEW more, cards \subseteq more
    PROVE  TabFits(b, q, rule, more)
BY DEF TabFits

(* So a step of one tab has only its own tab to look at.                   *)
LEMMA OneTab ==
    ASSUME AutosaveInv, [AutosaveNext]_autosaveVars, NEW t \in Tabs,
           NEW q, \/ request' = [request EXCEPT ![t] = q]
                  \/ request' = request /\ q = request[t],
           NEW b, \/ tab' = [tab EXCEPT ![t] = b]
                  \/ tab' = tab /\ b = tab[t],
           UNCHANGED <<version, saved, history>>,
           edits' \in 0..MaxEdits, failures' \in 0..MaxFailures,
           TabFits(b, q, rules, accepted)
    PROVE  AutosaveInv'
<1>1. CardInv'
    BY AutosaveIsEntryStep, CardInvKept DEF AutosaveInv
<1>2. DOMAIN request = Tabs /\ DOMAIN tab = Tabs
    BY DEF AutosaveInv, CardInv, TypeOK, Tabs
<1>3. rules' = rules
    BY AutosaveIsEntryStep, RulesStay
<1>4. \A x \in Tabs : TabFits(tab'[x], request'[x], rules, accepted)
    BY <1>2 DEF AutosaveInv
<1>. QED
    BY <1>1, <1>2, <1>3, <1>4 DEF AutosaveInv, history

(* A page that is being fetched changes nothing on the screen.             *)
LEMMA FetchKeeps ==
    ASSUME AutosaveInv, [AutosaveNext]_autosaveVars, NEW t \in Tabs, Fetch(t)
    PROVE  AutosaveInv'
<1>. DEFINE q == [Idle EXCEPT !.pc = "reading", !.week = Week, !.time = now,
                              !.outcome = "read"]
<1>1. /\ request' = [request EXCEPT ![t] = q]
      /\ UNCHANGED <<version, saved, tab, history, edits, failures>>
    BY DEF Fetch, Get
<1>2. TabFits(tab[t], request[t], rules, accepted) /\ request[t].pc = "idle"
    BY DEF AutosaveInv, Fetch, Get
<1>3. TabFits(tab[t], q, rules, accepted)
    BY <1>2 DEF TabFits, Idle
<1>. QED
    BY <1>1, <1>3, OneTab DEF AutosaveInv

(* An edit makes the draft dirty, so nothing is promised of it.            *)
LEMMA EditKeeps ==
    ASSUME AutosaveInv, [AutosaveNext]_autosaveVars, NEW t \in Tabs,
           NEW card \in Cards[Week], Edit(t, card)
    PROVE  AutosaveInv'
<1>. DEFINE b == [tab[t] EXCEPT !.latest = card, !.dirty = TRUE, !.timer = TRUE,
                                !.state = "waiting"]
<1>1. /\ tab' = [tab EXCEPT ![t] = b]
      /\ UNCHANGED <<request, version, saved, history, failures>>
      /\ edits' \in 0..MaxEdits
    <2>1. edits < MaxEdits /\ edits' = edits + 1 /\ edits \in 0..MaxEdits
        BY DEF Edit, AutosaveInv
    <2>2. edits' \in 0..MaxEdits
        BY <2>1, PoolAutosaveAssumption
    <2>. QED
        BY <2>2 DEF Edit, vars
<1>2. TabFits(tab[t], request[t], rules, accepted)
    BY DEF AutosaveInv
<1>3. card \subseteq Requested
    BY PoolWeekAssumption, PoolAutosaveAssumption
<1>4. TabFits(b, request[t], rules, accepted)
    <2>1. TabTypeOK(b)
        BY <1>2, <1>3 DEF TabFits, TabTypeOK, NewTab, States
    <2>. QED
        BY <1>2, <2>1 DEF TabFits, TabTypeOK, NewTab
<1>. QED
    BY <1>1, <1>4, OneTab DEF AutosaveInv

(* What is sent is what is on the screen.                                  *)
LEMMA SendKeeps ==
    ASSUME AutosaveInv, [AutosaveNext]_autosaveVars, NEW t \in Tabs, Send(t)
    PROVE  AutosaveInv'
<1>. DEFINE b == [tab[t] EXCEPT !.dirty = FALSE, !.timer = FALSE, !.state = "saving"]
            q == [Idle EXCEPT !.pc = "loaded", !.week = Week, !.version = tab[t].version,
                              !.card = tab[t].latest, !.time = now, !.loaded = picks,
                              !.loadedGames = [g \in {p.game : p \in picks} |-> games[g]]]
<1>1. /\ tab' = [tab EXCEPT ![t] = b] /\ request' = [request EXCEPT ![t] = q]
      /\ UNCHANGED <<version, saved, history, edits, failures>>
    BY DEF Send, Put
<1>2. TabFits(tab[t], request[t], rules, accepted)
    BY DEF AutosaveInv
<1>3. TabTypeOK(b)
    BY <1>2 DEF TabFits, TabTypeOK, NewTab, States
<1>4. /\ b.latest = tab[t].latest /\ b.state = "saving"
      /\ q.pc = "loaded" /\ q.outcome = "none" /\ q.card = tab[t].latest /\ q.week = Week
    BY <1>2 DEF TabFits, TabTypeOK, NewTab, Idle
<1>5. TabFits(b, q, rules, accepted)
    <2>. HIDE DEF b, q
    <2>. QED
        BY <1>3, <1>4 DEF TabFits
<1>. QED
    BY <1>1, <1>5, OneTab DEF AutosaveInv

(* A timer that goes off in vain is only reset.                            *)
LEMMA PumpInVainKeeps ==
    ASSUME AutosaveInv, [AutosaveNext]_autosaveVars, NEW t \in Tabs, PumpInVain(t)
    PROVE  AutosaveInv'
<1>. DEFINE b == [tab[t] EXCEPT !.timer = FALSE]
<1>1. /\ tab' = [tab EXCEPT ![t] = b]
      /\ UNCHANGED <<request, version, saved, history, edits, failures>>
    BY DEF PumpInVain, vars
<1>2. TabFits(tab[t], request[t], rules, accepted)
    BY DEF AutosaveInv
<1>3. TabFits(b, request[t], rules, accepted)
    BY <1>2 DEF TabFits, TabTypeOK, NewTab
<1>. QED
    BY <1>1, <1>3, OneTab DEF AutosaveInv

(* A retry in vain only changes what the tab says.                         *)
LEMMA RetryInVainKeeps ==
    ASSUME AutosaveInv, [AutosaveNext]_autosaveVars, NEW t \in Tabs, RetryInVain(t)
    PROVE  AutosaveInv'
<1>. DEFINE b == [tab[t] EXCEPT !.state = "waiting"]
<1>1. /\ tab' = [tab EXCEPT ![t] = b]
      /\ UNCHANGED <<request, version, saved, history, edits, failures>>
    BY DEF RetryInVain, vars
<1>2. TabFits(tab[t], request[t], rules, accepted)
    BY DEF AutosaveInv
<1>3. TabFits(b, request[t], rules, accepted)
    BY <1>2 DEF TabFits, TabTypeOK, NewTab, States
<1>. QED
    BY <1>1, <1>3, OneTab DEF AutosaveInv

(* An accepted card is the stored one, and, unless it was edited since,    *)
(* the draft on the screen.                                                *)
LEMMA ServeCommitKeeps ==
    ASSUME AutosaveInv, [AutosaveNext]_autosaveVars, NEW t \in Tabs, ServeCommit(t)
    PROVE  AutosaveInv'
<1>. DEFINE q == Answering(t, "ok")
            more == accepted \union {DraftOf(rules, request[t].card)}
<1>1. /\ request[t].pc = "loaded" /\ request[t].week = Week
      /\ TabFits(tab[t], request[t], rules, accepted)
    BY DEF ServeCommit, Commit, AutosaveInv, TabFits
<1>2. /\ request' = [request EXCEPT ![t] = q]
      /\ saved' = [saved EXCEPT ![Week] = request[t].card]
      /\ version' = [version EXCEPT ![Week] = @ + 1]
      /\ authors' = Append(authors, t)
      /\ UNCHANGED <<rules, tab, edits, failures>>
    BY <1>1 DEF ServeCommit, Commit, RaiseVersion
<1>3. accepted' = more
    BY DraftIsDraftOf DEF ServeCommit, Draft
<1>4. CardInv'
    BY AutosaveIsEntryStep, CardInvKept DEF AutosaveInv
<1>5. /\ saved'[Week] = request[t].card /\ version'[Week] = version[Week] + 1
      /\ DOMAIN request = Tabs
    BY <1>2, PoolAutosaveAssumption DEF AutosaveInv, CardInv, TypeOK, Tabs
<1>6. authors' \in Seq(Tabs) /\ Len(authors') = version'[Week]
    BY <1>2, <1>5, AppendProperties DEF AutosaveInv
<1>7. /\ q.pc = "reading" /\ q.outcome = "ok" /\ q.week = Week
    BY <1>1 DEF Answering, Idle
<1>8. TabFits(tab[t], q, rules, more)
    <2>. HIDE DEF q
    <2>. QED
        BY <1>1, <1>7 DEF TabFits
<1>9. \A x \in Tabs : TabFits(tab[x], request'[x], rules, more)
    <2>1. \A x \in Tabs \ {t} : request'[x] = request[x]
        BY <1>2, <1>5
    <2>2. request'[t] = q
        BY <1>2, <1>5
    <2>3. \A x \in Tabs : TabFits(tab[x], request[x], rules, more)
        BY TabStillFits DEF AutosaveInv
    <2>. HIDE DEF q, more
    <2>. QED
        BY <1>8, <2>1, <2>2, <2>3
<1>10. DraftOf(rules, saved'[Week]) \in more
    BY <1>5
<1>. HIDE DEF more
<1>. QED
    BY <1>2, <1>3, <1>4, <1>6, <1>9, <1>10 DEF AutosaveInv

(* A refused save keeps its card only to compare it in the reply.          *)
LEMMA ServeRefusalKeeps ==
    ASSUME AutosaveInv, [AutosaveNext]_autosaveVars, NEW t \in Tabs, ServeRefusal(t)
    PROVE  AutosaveInv'
<1>1. PICK o \in {"lost_claim", "conflict", "invalid"} :
        request' = [request EXCEPT ![t] = Answering(t, o)]
    BY DEF ServeRefusal, LoseClaim, RejectCard
<1>2. UNCHANGED <<version, saved, tab, history, edits, failures>>
    BY DEF ServeRefusal, LoseClaim, RejectCard
<1>3. TabFits(tab[t], request[t], rules, accepted) /\ request[t].pc = "loaded"
    BY DEF AutosaveInv, ServeRefusal, LoseClaim, RejectCard
<1>. DEFINE q == Answering(t, o)
<1>4. /\ q.pc = "reading" /\ q.outcome = o /\ q.week = request[t].week
      /\ o = "lost_claim" => q.card = request[t].card
    BY DEF Answering, Idle
<1>5. TabFits(tab[t], q, rules, accepted)
    <2>. HIDE DEF q
    <2>. QED
        BY <1>3, <1>4 DEF TabFits
<1>. QED
    BY <1>1, <1>2, <1>5, OneTab DEF AutosaveInv

(* What the reply shows is the stored card.                                *)
LEMMA ServeReadKeeps ==
    ASSUME AutosaveInv, [AutosaveNext]_autosaveVars, NEW t \in Tabs, ServeRead(t)
    PROVE  AutosaveInv'
<1>. DEFINE b == [tab[t] EXCEPT !.readAt = version[Week], !.readEnabled = Savable]
            q == [request[t] EXCEPT !.pc = "read", !.shown = CardOf(picks, request[t].week)]
<1>1. /\ request' = [request EXCEPT ![t] = q] /\ tab' = [tab EXCEPT ![t] = b]
      /\ UNCHANGED <<version, saved, history, edits, failures>>
      /\ request[t].pc = "reading"
    BY DEF ServeRead, ReadPicks
<1>2. TabFits(tab[t], request[t], rules, accepted) /\ DOMAIN request[t] = DOMAIN Idle
    BY DEF AutosaveInv, CardInv, TypeOK, RequestTypeOK, Tabs
<1>3. version[Week] \in 0..MaxVersion
    BY PoolAutosaveAssumption DEF AutosaveInv, CardInv, TypeOK
<1>4. TabTypeOK(b) /\ b.latest = tab[t].latest /\ b.state = tab[t].state /\ b.dirty = tab[t].dirty
    <2>1. Savable \in BOOLEAN
        BY DEF Savable
    <2>. QED
        BY <1>2, <1>3, <2>1 DEF TabFits, TabTypeOK, NewTab
<1>5. /\ q.pc = "read" /\ q.outcome = request[t].outcome /\ q.week = request[t].week
      /\ q.card = request[t].card /\ q.shown = CardOf(picks, Week)
    BY <1>1, <1>2 DEF TabFits, Idle
<1>6. TabFits(b, q, rules, accepted)
    <2>. HIDE DEF b, q
    <2>. QED
        BY <1>1, <1>2, <1>4, <1>5, StoredAccepted DEF TabFits
<1>. QED
    BY <1>1, <1>6, OneTab DEF AutosaveInv

(* After a reply nothing is under way.                                     *)
LEMMA FitsIdle ==
    ASSUME NEW b, TabTypeOK(b), NEW rule, NEW cards,
           b.state = "saved" => DraftOf(rule, b.latest) \in cards
    PROVE  TabFits(b, Idle, rule, cards)
BY DEF TabFits, Idle

(* A tab that follows the page has its own card, or that of the reply.     *)
LEMMA FollowedFits ==
    ASSUME AutosaveInv, NEW old, TabTypeOK(old), NEW card \in SUBSET Picks,
           DraftOf(rules, card) \in accepted, NEW v \in 0..MaxVersion,
           old.state = "saved" => DraftOf(rules, old.latest) \in accepted
    PROVE  TabFits(Followed(old, card, v), Idle, rules, accepted)
<1>1. DraftOf(rules, card) \subseteq Requested /\ Draft(card) = DraftOf(rules, card)
    BY DraftTyped, DraftIsDraftOf DEF AutosaveInv, CardInv
<1>2. DraftOf(rules, DraftOf(rules, card)) = DraftOf(rules, card)
    BY DraftOfDraft
<1>. DEFINE b == Followed(old, card, v)
<1>3. TabTypeOK(b)
    BY <1>1 DEF TabTypeOK, NewTab, Followed
<1>4. b.state = old.state /\ (b.latest = old.latest \/ b.latest = DraftOf(rules, card))
    BY <1>1 DEF TabTypeOK, NewTab, Followed
<1>5. b.state = "saved" => DraftOf(rules, b.latest) \in accepted
    <2>. HIDE DEF b
    <2>. QED
        BY <1>2, <1>4
<1>. HIDE DEF b
<1>6. TabFits(b, Idle, rules, accepted)
    BY <1>3, <1>5, FitsIdle
<1>. QED
    BY <1>6 DEF b

(* After an error the draft is dirty.                                      *)
LEMMA FailedFits ==
    ASSUME AutosaveInv, NEW t \in Tabs
    PROVE  TabFits(Failed(t), Idle, rules, accepted)
<1>1. TabTypeOK(tab[t])
    BY DEF AutosaveInv, TabFits
<1>2. TabTypeOK(Failed(t)) /\ Failed(t).state = "error"
    BY <1>1 DEF TabTypeOK, Failed, NewTab, States
<1>. QED
    BY <1>2, FitsIdle

(* A save that succeeded, by its commit or because another's was the same  *)
(* card, is on the screen as it is stored, unless it was edited since.     *)
LEMMA ReplyFits ==
    ASSUME AutosaveInv, NEW t \in Tabs, request[t].pc = "read"
    PROVE  LET b == CASE Status(t) = "read" -> Loaded(t, version[Week])
                      [] Status(t) = "ok" -> Saved(t, version[Week])
                      [] Status(t) = "conflict" -> Refused(t, version[Week])
                      [] Status(t) = "invalid" -> Failed(t)
           IN  TabFits(b, Idle, rules, accepted)
<1>. DEFINE v == version[Week]
            shown == request[t].shown
<1>1. /\ TabFits(tab[t], request[t], rules, accepted) /\ TabTypeOK(tab[t])
      /\ shown \in SUBSET Picks /\ DraftOf(rules, shown) \in accepted
      /\ request[t].outcome \in Outcomes /\ request[t].outcome # "none"
    BY DEF AutosaveInv, TabFits, CardInv, TypeOK, RequestTypeOK, Tabs
<1>2. v \in 0..MaxVersion
    BY PoolAutosaveAssumption DEF AutosaveInv, CardInv, TypeOK
<1>3. Status(t) \in {"read", "ok", "conflict", "invalid"}
    BY <1>1 DEF Status, Outcomes
<1>4. TabFits(Loaded(t, v), Idle, rules, accepted)
    <2>. DEFINE old == [tab[t] EXCEPT !.enabled = tab[t].readEnabled]
    <2>1. TabTypeOK(old) /\ old.state = tab[t].state /\ old.latest = tab[t].latest
        BY <1>1 DEF TabTypeOK, NewTab
    <2>2. old.state = "saved" => DraftOf(rules, old.latest) \in accepted
        BY <1>1, <2>1 DEF TabFits
    <2>. HIDE DEF old
    <2>3. TabFits(Followed(old, shown, v), Idle, rules, accepted)
        BY <1>1, <1>2, <2>1, <2>2, FollowedFits
    <2>. QED
        BY <2>3 DEF Loaded, old
<1>5. ASSUME Status(t) = "ok"
      PROVE  TabFits(Saved(t, v), Idle, rules, accepted)
    <2>. DEFINE old == [tab[t] EXCEPT !.version = v,
                                      !.state = IF tab[t].dirty THEN "waiting" ELSE "saved",
                                      !.timer = @ \/ tab[t].dirty]
    <2>1. ~tab[t].dirty => DraftOf(rules, tab[t].latest) \in accepted
        <3>1. \/ request[t].outcome = "ok"
              \/ /\ request[t].outcome = "lost_claim"
                 /\ Normalized(request[t].card) = Normalized(shown)
            BY <1>5 DEF Status
        <3>2. CASE request[t].outcome = "ok"
            BY <1>1, <3>2 DEF TabFits
        <3>3. CASE /\ request[t].outcome = "lost_claim"
                   /\ Normalized(request[t].card) = Normalized(shown)
            <4>1. DraftOf(rules, request[t].card) = DraftOf(rules, shown)
                BY <3>3, DraftIsDraftOf DEF Draft
            <4>. QED
                BY <1>1, <3>3, <4>1 DEF TabFits
        <3>. QED
            BY <3>1, <3>2, <3>3
    <2>2. /\ DOMAIN old = DOMAIN NewTab /\ old.version = v /\ old.latest = tab[t].latest
          /\ old.state = IF tab[t].dirty THEN "waiting" ELSE "saved"
        BY <1>1 DEF TabTypeOK, NewTab
    <2>3. TabTypeOK(old)
        BY <1>1, <1>2 DEF TabTypeOK, NewTab, States
    <2>. HIDE DEF old
    <2>4. TabFits(Followed(old, shown, v), Idle, rules, accepted)
        BY <1>1, <1>2, <2>1, <2>2, <2>3, FollowedFits
    <2>. QED
        BY <2>4 DEF Saved, old
<1>6. TabFits(Refused(t, v), Idle, rules, accepted)
    <2>1. Draft(shown) \subseteq Requested
        BY <1>1, DraftTyped, DraftIsDraftOf DEF AutosaveInv, CardInv
    <2>2. TabTypeOK(Refused(t, v)) /\ Refused(t, v).state = "conflict"
        BY <1>1, <1>2, <2>1 DEF TabTypeOK, Refused, NewTab, States
    <2>. QED
        BY <2>2, FitsIdle
<1>. HIDE DEF v, shown
<1>7. TabFits(Failed(t), Idle, rules, accepted)
    BY FailedFits
<1>. QED
    BY <1>3, <1>4, <1>5, <1>6, <1>7 DEF v, shown

(* A reply of any kind, or its loss, ends the request.                     *)
LEMMA ReplyKeeps ==
    ASSUME AutosaveInv, [AutosaveNext]_autosaveVars, NEW t \in Tabs,
           Reply(t) \/ ReplyEliminated(t) \/ ReplyLost(t)
    PROVE  AutosaveInv'
<1>1. /\ request' = [request EXCEPT ![t] = Idle]
      /\ UNCHANGED <<version, saved, history, edits>>
    BY DEF Reply, ReadVersion, ReplyEliminated, RejectEliminated, ReplyLost, Fail
<1>2. failures' \in 0..MaxFailures /\ edits' \in 0..MaxEdits
    <2>1. failures \in 0..MaxFailures /\ edits \in 0..MaxEdits
        BY DEF AutosaveInv
    <2>2. \/ failures' = failures
          \/ failures < MaxFailures /\ failures' = failures + 1
        BY DEF Reply, ReplyEliminated, ReplyLost
    <2>. QED
        BY <1>1, <2>1, <2>2, PoolAutosaveAssumption
<1>3. TabFits(tab[t], request[t], rules, accepted)
    BY DEF AutosaveInv
<1>4. ASSUME Reply(t) PROVE AutosaveInv'
    <2>1. request[t].pc = "read"
        BY <1>4 DEF Reply, ReadVersion
    <2>. DEFINE b == CASE Status(t) = "read" -> Loaded(t, version[Week])
                       [] Status(t) = "ok" -> Saved(t, version[Week])
                       [] Status(t) = "conflict" -> Refused(t, version[Week])
                       [] Status(t) = "invalid" -> Failed(t)
    <2>2. tab' = [tab EXCEPT ![t] = b]
        BY <1>4 DEF Reply
    <2>3. TabFits(b, Idle, rules, accepted)
        BY <2>1, ReplyFits
    <2>. HIDE DEF b
    <2>. QED
        BY <1>1, <1>2, <2>2, <2>3, OneTab
<1>5. ASSUME ReplyEliminated(t) PROVE AutosaveInv'
    <2>1. tab' = [tab EXCEPT ![t] = Failed(t)]
        BY <1>5 DEF ReplyEliminated
    <2>. QED
        BY <1>1, <1>2, <2>1, FailedFits, OneTab
<1>6. ASSUME ReplyLost(t) PROVE AutosaveInv'
    <2>. DEFINE b == IF request[t].outcome = "read" THEN tab[t] ELSE Failed(t)
    <2>1. tab' = [tab EXCEPT ![t] = b]
        BY <1>6 DEF ReplyLost
    <2>2. TabFits(tab[t], Idle, rules, accepted)
        BY <1>3, FitsIdle DEF TabFits
    <2>3. TabFits(b, Idle, rules, accepted)
        BY <2>2, FailedFits
    <2>. HIDE DEF b
    <2>. QED
        BY <1>1, <1>2, <2>1, <2>3, OneTab
<1>. QED
    BY <1>4, <1>5, <1>6

(* Every step of a tab, the server or the world keeps the invariant.       *)
LEMMA AutosaveInvKept == AutosaveInv /\ [AutosaveNext]_autosaveVars => AutosaveInv'
<1>. SUFFICES ASSUME AutosaveInv, [AutosaveNext]_autosaveVars PROVE AutosaveInv'
    OBVIOUS
<1>1. CardInv'
    BY AutosaveIsEntryStep, CardInvKept DEF AutosaveInv
<1>2. CASE UNCHANGED <<rules, version, request, saved, tab, history, edits, failures>>
    BY <1>1, <1>2 DEF AutosaveInv, history
<1>3. CASE World /\ UNCHANGED <<tab, history, edits, failures>>
    BY <1>2, <1>3 DEF World, Tick, SyncSchedule, ApplyScoreboard
<1>4. CASE UNCHANGED autosaveVars
    BY <1>2, <1>4 DEF autosaveVars, vars
<1>5. ASSUME NEW t \in Tabs, Fetch(t) \/ \E card \in Cards[Week] : Edit(t, card)
      PROVE  AutosaveInv'
    BY <1>5, FetchKeeps, EditKeeps
<1>6. ASSUME NEW t \in Tabs,
             PumpOnRetry(t) \/ PumpOnTimer(t) \/ PumpInVain(t) \/ RetryInVain(t)
      PROVE  AutosaveInv'
    BY <1>6, SendKeeps, PumpInVainKeeps, RetryInVainKeeps DEF PumpOnRetry, PumpOnTimer
<1>7. ASSUME NEW t \in Tabs, ServeCommit(t) \/ ServeRefusal(t) \/ ServeRead(t)
      PROVE  AutosaveInv'
    BY <1>7, ServeCommitKeeps, ServeRefusalKeeps, ServeReadKeeps
<1>8. ASSUME NEW t \in Tabs, Reply(t) \/ ReplyEliminated(t) \/ ReplyLost(t)
      PROVE  AutosaveInv'
    BY <1>8, ReplyKeeps
<1>. QED
    BY <1>3, <1>4, <1>5, <1>6, <1>7, <1>8 DEF AutosaveNext, Progress

(* The invariant holds whatever the tabs do.                               *)
LEMMA AutosaveInvHolds == AutosaveSpec => []AutosaveInv
BY AutosaveInitially, AutosaveInvKept, PTL DEF AutosaveSpec

(* A tab that says "saved" shows a card the server has accepted at some    *)
(* time, whatever was edited, lost or retried meanwhile.                   *)
THEOREM SavedCardsWereAccepted == AutosaveSpec => []SavedMeansAccepted
<1>1. AutosaveInv => SavedMeansAccepted
    <2>. SUFFICES ASSUME AutosaveInv PROVE SavedMeansAccepted
        OBVIOUS
    <2>1. AutosaveTypeOK
        BY DEF AutosaveInv, AutosaveTypeOK, CardInv, TabFits, TabTypeOK
    <2>2. \A t \in Tabs : tab[t].state = "saved" => Draft(tab[t].latest) \in accepted
        BY DraftIsDraftOf DEF AutosaveInv, TabFits
    <2>. QED
        BY <2>1, <2>2 DEF SavedMeansAccepted
<1>. QED
    BY <1>1, AutosaveInvHolds, PTL

(* What PoolWeek promises of claims and stored cards holds of the tabs'    *)
(* saves too, which send whatever is on the screen.                        *)
THEOREM TabsKeepCardsSound ==
    AutosaveSpec => [](ClaimSeesItsCard /\ StoredCardIsTheOneAccepted /\ CardsHaveNoRepeats)
<1>1. AutosaveInv => ClaimSeesItsCard /\ StoredCardIsTheOneAccepted /\ CardsHaveNoRepeats
    BY DEF AutosaveInv, CardInv, ClaimsAreFresh, ClaimSeesItsCard
<1>. QED
    BY <1>1, AutosaveInvHolds, PTL

=============================================================================
