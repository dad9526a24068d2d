---------------------------- MODULE PoolAutosave ----------------------------
(***************************************************************************)
(* Browser tabs on one week of one entry: the autosave pump of             *)
(* useLatestCardAutosave.ts on top of PoolWeek.  A tab has one request at  *)
(* a time, so a request is named by its tab: a save that is due while the  *)
(* page is fetched again goes out after the fetch.  A tab stays on its     *)
(* week.                                                                   *)
(***************************************************************************)
EXTENDS PoolWeek, Sequences

CONSTANTS Week,         \* the week the tabs show
          MaxEdits,     \* bounds on the edits and on the requests that end
          MaxFailures   \* in an error

(* A confidence card has no slots, which is the slot 0.                    *)
ASSUME PoolAutosaveAssumption ==
    /\ Week \in Weeks /\ MaxEdits \in Nat /\ MaxFailures \in Nat
    /\ 0 \in Slots \/ \A rule \in RuleSets : rule.type = "survivor"

Tabs == Requests

VARIABLES
    tab,        \* each tab's refs and state
    authors,    \* history: which tab saved each version of the week
    accepted,   \* history: the cards that were ever the stored card
    edits, failures         \* what the bounds count

history == <<authors, accepted>>
autosaveVars == <<vars, tab, history, edits, failures>>

(* A tab's fields are the hook's refs (versionRef, latestRef, dirtyRef,    *)
(* timerRef), its state and the page's version; and as history the true    *)
(* version of the card that the draft on the screen was made from and the  *)
(* version at which the card of a reply under way was read.  "open" is     *)
(* whether the page has loaded, "enabled" whether its card may be saved,   *)
(* which only a page load finds out, and readEnabled what the load under   *)
(* way has found.                                                          *)
NewTab == [open |-> FALSE, version |-> 0, latest |-> {}, dirty |-> FALSE,
           timer |-> FALSE, state |-> "idle", page |-> 0, basis |-> 0, readAt |-> 0,
           enabled |-> FALSE, readEnabled |-> FALSE]

States == {"idle", "waiting", "saving", "saved", "error", "conflict"}

AutosaveTypeOK ==
    /\ TypeOK
    /\ DOMAIN tab = Tabs
    /\ \A t \in Tabs :
        /\ tab[t].version \in 0..MaxVersion /\ tab[t].page \in 0..MaxVersion
        /\ tab[t].basis \in 0..MaxVersion /\ tab[t].readAt \in 0..MaxVersion
        /\ tab[t].latest \subseteq Requested
        /\ tab[t].dirty \in BOOLEAN /\ tab[t].timer \in BOOLEAN /\ tab[t].open \in BOOLEAN
        /\ tab[t].enabled \in BOOLEAN /\ tab[t].readEnabled \in BOOLEAN
        /\ tab[t].state \in States
    /\ authors \in Seq(Tabs) /\ Len(authors) = version[Week]
    /\ edits \in 0..MaxEdits /\ failures \in 0..MaxFailures

AutosaveInit ==
    /\ Init
    /\ tab = [t \in Tabs |-> NewTab]
    /\ authors = <<>>
    /\ accepted = {{}}
    /\ edits = 0 /\ failures = 0

(* inFlightRef: a save is under way; a page being fetched does not count.  *)
InFlight(t) == request[t].pc # "idle" /\ request[t].outcome # "read"

(* toDraft: what a card of the server is as a draft.                       *)
Draft(card) == Normalized(card)

(* Neither read_only nor configuration_errors of a week that is read now;  *)
(* the entry is an active one.                                             *)
Savable ==
    /\ ~Eliminated(rules, games, picks, Week + 1)
    /\ ~WeightCountMismatch(rules, games, Week)

-----------------------------------------------------------------------------
(* The page is loaded again when no save is pending (PoolAssistant.tsx),   *)
(* and by a reconnection or a Sleeper refresh also after a failed save.    *)
Fetch(t) ==
    /\ ~tab[t].dirty \/ tab[t].state = "error"
    /\ Get(t, Week)
    /\ UNCHANGED <<tab, history, edits, failures>>

(* queue: the owner edits the draft, in flight or not, and the debounce    *)
(* timer starts again.  A page that is not enabled has its fields disabled *)
(* but still offers to reapply what a conflict took.                       *)
Edit(t, card) ==
    /\ tab[t].open
    /\ tab[t].enabled \/ tab[t].state = "conflict"
    /\ edits < MaxEdits
    /\ edits' = edits + 1
    /\ \A q \in card : (q.slot # 0) = (rules.type = "survivor")
    /\ tab' = [tab EXCEPT ![t].latest = card, ![t].dirty = TRUE, ![t].timer = TRUE,
                          ![t].state = "waiting"]
    /\ UNCHANGED <<vars, history, failures>>

(* pump, when it is enabled, has something to send and nothing in flight.  *)
Send(t) ==
    /\ tab[t].enabled /\ tab[t].dirty
    /\ Put(t, Week, tab[t].version, tab[t].latest)
    /\ tab' = [tab EXCEPT ![t].dirty = FALSE, ![t].timer = FALSE, ![t].state = "saving"]
    /\ UNCHANGED <<history, edits, failures>>

PumpOnTimer(t) == tab[t].timer /\ Send(t)

PumpOnRetry(t) == tab[t].state = "error" /\ ~tab[t].timer /\ Send(t)

(* The timer goes off while a save is in flight, after a conflict took the *)
(* draft, or when the page is not enabled any more: the draft stays dirty  *)
(* and nothing will send it.                                               *)
PumpInVain(t) ==
    /\ tab[t].timer
    /\ InFlight(t) \/ ~tab[t].dirty \/ ~tab[t].enabled
    /\ tab' = [tab EXCEPT ![t].timer = FALSE]
    /\ UNCHANGED <<vars, history, edits, failures>>

(* retry on such a page says "waiting" and sends nothing.                  *)
RetryInVain(t) ==
    /\ tab[t].state = "error" /\ tab[t].dirty /\ ~tab[t].enabled
    /\ tab' = [tab EXCEPT ![t].state = "waiting"]
    /\ UNCHANGED <<vars, history, edits, failures>>

(* The page has new data.  The hook and the draft follow a new version     *)
(* number, unless a change is pending.                                     *)
Followed(old, card, shownVersion) ==
    IF old.dirty \/ (old.open /\ old.page = shownVersion)
    THEN [old EXCEPT !.open = TRUE, !.page = shownVersion]
    ELSE [old EXCEPT !.open = TRUE, !.page = shownVersion, !.version = shownVersion,
                     !.latest = Draft(card), !.basis = old.readAt]

(* The reply to a page load: only it says whether the page is enabled, for *)
(* the other replies replace the card and leave the rest of the page.      *)
Loaded(t, shownVersion) ==
    Followed([tab[t] EXCEPT !.enabled = tab[t].readEnabled], request[t].shown, shownVersion)

(* Mutant: an accepted save is shown as "saved" whatever is pending. *)
SavedWhatever(t, shownVersion) ==
    Followed([tab[t] EXCEPT !.version = shownVersion, !.state = "saved",
                            !.timer = @ \/ tab[t].dirty],
             request[t].shown, shownVersion)

(* Mutant: nothing sends what was edited while the save was in flight. *)
SavedAndStopped(t, shownVersion) ==
    Followed([tab[t] EXCEPT !.version = shownVersion,
                            !.state = IF tab[t].dirty THEN "waiting" ELSE "saved"],
             request[t].shown, shownVersion)

(* The reply to a save that was accepted: newer changes are sent at once.  *)
Saved(t, shownVersion) ==
    Followed([tab[t] EXCEPT !.version = shownVersion,
                            !.state = IF tab[t].dirty THEN "waiting" ELSE "saved",
                            !.timer = @ \/ tab[t].dirty],
             request[t].shown, shownVersion)

(* The reply 409 with a card: the card replaces the draft.                 *)
Refused(t, shownVersion) ==
    [tab[t] EXCEPT !.version = shownVersion, !.latest = Draft(request[t].shown),
                   !.dirty = FALSE, !.state = "conflict", !.page = shownVersion,
                   !.basis = tab[t].readAt]

Failed(t) == [tab[t] EXCEPT !.dirty = TRUE, !.state = "error"]

(* A reply with a card arrives.                                            *)
Reply(t) ==
    /\ ReadVersion(t)
    /\ tab' = [tab EXCEPT ![t] =
            CASE Status(t) = "read" -> Loaded(t, version[Week])
              [] Status(t) = "ok" -> Saved(t, version[Week])
              [] Status(t) = "conflict" -> Refused(t, version[Week])
              [] Status(t) = "invalid" -> Failed(t)]
    /\ UNCHANGED <<history, edits, failures>>

ReplyEliminated(t) ==
    /\ RejectEliminated(t)
    /\ tab' = [tab EXCEPT ![t] = Failed(t)]
    /\ UNCHANGED <<history, edits, failures>>

(* An error or a lost reply; a failed page load leaves the tab as it was.  *)
ReplyLost(t) ==
    /\ failures < MaxFailures
    /\ failures' = failures + 1
    /\ Fail(t)
    /\ tab' = [tab EXCEPT ![t] = IF request[t].outcome = "read" THEN @ ELSE Failed(t)]
    /\ UNCHANGED <<history, edits>>

(* The server's steps on a tab's request.                                  *)
ServeCommit(t) ==
    /\ Commit(t)
    /\ authors' = Append(authors, t)
    /\ accepted' = accepted \union {Normalized(request[t].card)}
    /\ UNCHANGED <<tab, edits, failures>>

ServeRead(t) ==
    /\ ReadPicks(t)
    /\ tab' = [tab EXCEPT ![t].readAt = version[Week], ![t].readEnabled = Savable]
    /\ UNCHANGED <<history, edits, failures>>

ServeRefusal(t) ==
    /\ LoseClaim(t) \/ RejectCard(t)
    /\ UNCHANGED <<tab, history, edits, failures>>

Progress(t) ==
    \/ PumpOnTimer(t) \/ PumpInVain(t)
    \/ ServeCommit(t) \/ ServeRefusal(t) \/ ServeRead(t)
    \/ Reply(t) \/ ReplyEliminated(t)

AutosaveNext ==
    \/ \E t \in Tabs :
        \/ Fetch(t) \/ \E card \in Cards[Week] : Edit(t, card)
        \/ PumpOnRetry(t) \/ RetryInVain(t) \/ ReplyLost(t) \/ Progress(t)
    \/ World /\ UNCHANGED <<tab, history, edits, failures>>

AutosaveSpec == AutosaveInit /\ [][AutosaveNext]_autosaveVars

(* A timer goes off, a request sent is served and its reply arrives or is  *)
(* lost; the owner need not edit, retry or open a page.                    *)
FairAutosaveSpec == AutosaveSpec /\ \A t \in Tabs : WF_autosaveVars(Progress(t))

-----------------------------------------------------------------------------
(* Properties.                                                             *)

(* A tab that says "saved" has on its screen a card that the server has    *)
(* accepted at some time, whatever was edited, lost or retried meanwhile;  *)
(* a server that has taken a card, and a tab that has not heard of it,     *)
(* stay of their types.                                                    *)
SavedMeansAccepted ==
    /\ AutosaveTypeOK
    /\ \A t \in Tabs :
        tab[t].state = "saved" => Draft(tab[t].latest) \in accepted

(* Changes queued in a tab, also while a save is in flight, are in the end *)
(* saved, or the tab shows a conflict or an error.  The exception is a     *)
(* page that a load has found read-only after the edit: the pump returns,  *)
(* and the tab says that its changes are queued for as long as it is open. *)
QueuedChangesSettle ==
    \A t \in Tabs :
        tab[t].state \in {"waiting", "saving"}
            ~> tab[t].state \in {"saved", "conflict", "error"} \/ ~tab[t].enabled

(* docs/designs/pool-week-workspace.md: two tabs cannot overwrite the same *)
(* entry/week card.  A save replaces only versions that its author saved   *)
(* or that its draft was made from.                                        *)
TabsDoNotOverwrite ==
    [][\A t \in Tabs :
        authors' = Append(authors, t) =>
            \A k \in (tab[t].basis + 1)..Len(authors) : authors[k] = t]_autosaveVars

=============================================================================
