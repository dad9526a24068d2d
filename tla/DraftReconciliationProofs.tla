---------------------- MODULE DraftReconciliationProofs ----------------------
(***************************************************************************)
(* Proofs that a draft session that also follows Yahoo keeps a sound log:  *)
(* what a sync applies, confirms and proposes, what the owner resolves and *)
(* what is entered by hand together leave a board without gaps that the    *)
(* log reduces to, and never use an idempotency key twice; that a sync     *)
(* applies safe picks only, loses no report, and done again does nothing.  *)
(***************************************************************************)
EXTENDS DraftReconciliation, DraftReplayProofs

----------------------------------------------------------------------------
(* Sequences.                                                              *)

(* Two sequences make one as long as both. *)
LEMMA ConcatType ==
  ASSUME NEW S, NEW r \in Seq(S), NEW s \in Seq(S)
  PROVE  r \o s \in Seq(S) /\ Len(r \o s) = Len(r) + Len(s)
  BY ConcatProperties

(* Its first elements are those of the one, then come those of the other. *)
LEMMA ConcatElements ==
  ASSUME NEW S, NEW r \in Seq(S), NEW s \in Seq(S), NEW both, both = r \o s
  PROVE  /\ both \in Seq(S) /\ Len(both) = Len(r) + Len(s)
         /\ \A i \in 1..Len(both) : \/ i \in 1..Len(r) /\ both[i] = r[i]
                                    \/ /\ i - Len(r) \in 1..Len(s)
                                       /\ both[i] = s[i - Len(r)]
<1>1. /\ both \in Seq(S) /\ Len(both) = Len(r) + Len(s)
      /\ \A i \in 1..Len(r) + Len(s) : both[i] = IF i <= Len(r) THEN r[i] ELSE s[i - Len(r)]
  BY ConcatProperties
<1>2. Len(r) \in Nat /\ Len(s) \in Nat
  BY LenProperties
<1> QED
  BY <1>1, <1>2

(* Three sequences make one whichever two are joined first. *)
LEMMA ConcatOnce ==
  ASSUME NEW S, NEW r \in Seq(S), NEW s \in Seq(S), NEW t \in Seq(S),
         NEW both, both = s \o t, NEW all, all = r \o s \o t
  PROVE  all = r \o both
  BY ConcatAssociative

(* Appending to the second of two sequences appends to their concatenation. *)
LEMMA ConcatAppend ==
  ASSUME NEW S, NEW r \in Seq(S), NEW s \in Seq(S), NEW e \in S
  PROVE  r \o Append(s, e) = Append(r \o s, e)
<1>1. Append(s, e) = s \o <<e>> /\ <<e>> \in Seq(S)
  OBVIOUS
<1>2. r \o (s \o <<e>>) = (r \o s) \o <<e>>
  BY <1>1, ConcatAssociative
<1>3. r \o s \in Seq(S)
  BY ConcatProperties
<1>4. (r \o s) \o <<e>> = Append(r \o s, e)
  BY <1>3
<1> QED
  BY <1>1, <1>2, <1>4

(* A function of the first numbers is a sequence. *)
LEMMA CountedType ==
  ASSUME NEW S, NEW count \in Nat, NEW f \in [ 1..count -> S ]
  PROVE  f \in Seq(S) /\ Len(f) = count
<1>1. f \in Seq(S)
  BY SeqDef
<1>2. Len(f) \in Nat /\ DOMAIN f = 1..Len(f) /\ DOMAIN f = 1..count
  BY <1>1, LenProperties
<1> QED
  BY <1>1, <1>2

----------------------------------------------------------------------------
(* The invariant.                                                          *)

Resolutions == { "resolve", "resolve_reverse" }

(* The key of a client or a mode change is of its own position, that of a  *)
(* completion or a resolution of an earlier one.                           *)
KeysPlaced ==
  \A i \in 1..Len(keys) :
    /\ keys[i].kind \in { "client", "mode" } => keys[i].at = i
    /\ keys[i].kind \in Resolutions \cup { "complete" } => keys[i].at < i

(* An open conflict was detected after every earlier resolution of its     *)
(* report.                                                                 *)
ResolutionOf(i, report) ==
  /\ keys[i].kind \in Resolutions
  /\ keys[i].overall = report.overall /\ keys[i].player = report.player

ConflictsAreNew ==
  \A report \in Reports :
    conflicts[report].status = "unresolved" =>
      /\ conflicts[report].detected <= Len(log)
      /\ \A i \in 1..Len(keys) :
           ResolutionOf(i, report) => keys[i].at < conflicts[report].detected

ReportAt(n) == [ overall |-> n, player |-> feed[n] ]

(* What Yahoo shows are reports. *)
FeedReported == \A n \in PickNumbers : feed[n] # NoPlayer => ReportAt(n) \in Reports

RInv ==
  /\ PlaySound
  /\ ReconciliationTypeOK
  /\ FeedReported
  /\ KeysPlaced
  /\ KeysDistinct
  /\ ConflictsAreNew

----------------------------------------------------------------------------
(* A batch.                                                                *)

Batches ==
  [ events : Seq(Event), keys : Seq(Keys), board : Boards, conflicts : [ Reports -> Conflict ],
    applied : Nat, touched : BOOLEAN ]

(* What a batch has appended so far extends the log soundly, under keys    *)
(* that no event of the log or the batch has; the conflicts it opens are   *)
(* detected at its own events, and it reopens none that was dismissed.     *)
BatchSound(batch) ==
  /\ batch \in Batches
  /\ Len(batch.keys) = Len(batch.events)
  /\ HasNoGaps(batch.board)
  /\ LogSound(LogWith(batch), batch.board, status)
  /\ \A i \in 1..Len(batch.keys) :
       /\ batch.keys[i].kind = "yahoo"
       /\ \A j \in 1..Len(keys) : keys[j] # batch.keys[i]
       /\ \A j \in 1..Len(batch.keys) : batch.keys[j] = batch.keys[i] => i = j
  /\ batch.applied = 0 \/ batch.applied \in (Len(log) + 1)..LastEvent(batch)
  /\ \A report \in Reports :
       /\ batch.conflicts[report].status = "unresolved" =>
            \/ batch.conflicts[report] = conflicts[report]
            \/ batch.conflicts[report].detected \in Len(log)..LastEvent(batch)
       /\ conflicts[report].status = "dismissed" => batch.conflicts[report] = conflicts[report]

(* What a proposal and a confirmation do to a batch, field by field. *)
LEMMA ProposeFields ==
  ASSUME NEW batch \in Batches, NEW report \in Reports
  PROVE  /\ Propose(batch, report).events = batch.events
         /\ Propose(batch, report).keys = batch.keys
         /\ Propose(batch, report).board = batch.board
         /\ Propose(batch, report).conflicts = [ batch.conflicts EXCEPT
               ![report] = Proposed(batch.conflicts[report], LastEvent(batch)) ]
         /\ Propose(batch, report).applied = batch.applied
         /\ Propose(batch, report).touched = batch.touched
  BY DEF Propose, Batches

(* A confirmation appends its event under the report's key, unless that    *)
(* key is used already.                                                    *)
LEMMA ConfirmFields ==
  ASSUME NEW batch \in Batches, NEW report
  PROVE  /\ Confirm(batch, report).board = batch.board
         /\ Confirm(batch, report).conflicts = batch.conflicts
         /\ Confirm(batch, report).applied = batch.applied
         /\ KeyUsed(batch, YahooKey(report)) =>
              /\ Confirm(batch, report).events = batch.events
              /\ Confirm(batch, report).keys = batch.keys
         /\ ~ KeyUsed(batch, YahooKey(report)) =>
              /\ Confirm(batch, report).events = Append(batch.events,
                   PickEvent("provider_confirmed", report.overall,
                             batch.board[report.overall].team, report.player, 0, 0))
              /\ Confirm(batch, report).keys = Append(batch.keys, YahooKey(report))
<1> DEFINE event == PickEvent("provider_confirmed", report.overall,
                              batch.board[report.overall].team, report.player, 0, 0)
           key == YahooKey(report)
           used == KeyUsed(batch, key)
           after == Confirm(batch, report)
<1>1. after = IF used THEN [ batch EXCEPT !.touched = TRUE ]
              ELSE [ batch EXCEPT !.events = Append(batch.events, event),
                                  !.keys = Append(batch.keys, key), !.touched = TRUE ]
  BY DEF Confirm
<1> HIDE DEF event, key, used, after
<1>2. CASE used
  BY <1>1, <1>2 DEF Batches, used, event, key, after
<1>3. CASE ~ used
  BY <1>1, <1>3 DEF Batches, used, event, key, after
<1> QED
  BY <1>2, <1>3

(* A report at pick n is confirmed, replaces a placeholder, is the next    *)
(* pick, or is proposed.                                                   *)
Agrees(batch, n) == n <= Total /\ batch.board[n].player = feed[n]
Upgrades(batch, n) == n <= Total /\ SafeIdentityUpgrade(batch, ReportAt(n))
Extends(batch, n) == n <= Total /\ SafeNewPick(batch, ReportAt(n))

UpgradeEvent(batch, n) ==
  PickEvent("pick_replaced", n, TeamOf(n), feed[n], batch.board[n].event,
            LogWith(batch)[batch.board[n].event].advice)
NewPickEvent(batch, n) ==
  PickEvent("pick_recorded", n, TeamOf(n), feed[n], 0, OwnerAdvice(batch, TeamOf(n)))

(* Reconciling a report does one of the four. *)
LEMMA ReconcileCases ==
  ASSUME NEW batch, NEW n, NEW after, after = Reconcile(batch, ReportAt(n))
  PROVE  \/ Agrees(batch, n) /\ after = Confirm(batch, ReportAt(n))
         \/ Upgrades(batch, n) /\ after = Apply(batch, ReportAt(n), UpgradeEvent(batch, n))
         \/ Extends(batch, n) /\ after = Apply(batch, ReportAt(n), NewPickEvent(batch, n))
         \/ /\ ~ Agrees(batch, n) /\ ~ Upgrades(batch, n) /\ ~ Extends(batch, n)
            /\ after = Propose(batch, ReportAt(n))
<1>1. ReportAt(n).overall = n /\ ReportAt(n).player = feed[n]
  BY DEF ReportAt
<1> QED
  BY <1>1 DEF Reconcile, Agrees, Upgrades, Extends, UpgradeEvent, NewPickEvent

(* The key of a report is a key. *)
LEMMA YahooKeyType ==
  ASSUME RInv, NEW report \in Reports
  PROVE  YahooKey(report) \in Keys /\ YahooKey(report).kind = "yahoo"
<1>1. report.overall \in PickNumbers /\ report.player \in Players
  BY ReportsAssumption
<1>2. report.overall \in 0..MaxPicks /\ sourceMode \in SourceModes
  BY <1>1, MaxPicksAssumption DEF PickNumbers, RInv, PlaySound, TypeOK
<1> QED
  BY <1>1, <1>2 DEF YahooKey, ReportKey, Keys, KeyKinds

(* A batch goes on soundly with an event under a key not used yet. *)
LEMMA BatchAppended ==
  ASSUME RInv, NEW batch, BatchSound(batch), NEW r \in Reports,
         ~ KeyUsed(batch, YahooKey(r)), NEW e \in Event,
         NEW after \in Batches, HasNoGaps(after.board),
         after.events = Append(batch.events, e), after.keys = Append(batch.keys, YahooKey(r)),
         LogSound(Append(LogWith(batch), e), after.board, status),
         after.applied \in {batch.applied, LastEvent(batch) + 1},
         \A report \in Reports :
           after.conflicts[report] \in {batch.conflicts[report], AutoApplied(batch.conflicts[report])}
  PROVE  BatchSound(after)
<1> DEFINE key == YahooKey(r)
           count == Len(batch.keys)
<1>1. /\ log \in Seq(Event) /\ keys \in Seq(Keys) /\ batch.events \in Seq(Event)
      /\ batch.keys \in Seq(Keys) /\ batch.applied \in Nat
      /\ count = Len(batch.events)
  BY DEF RInv, PlaySound, TypeOK, ReconciliationTypeOK, BatchSound, Batches
<1>2. count \in Nat /\ Len(log) \in Nat /\ key \in Keys /\ key.kind = "yahoo"
  BY <1>1, LenProperties, YahooKeyType
<1>3. /\ Len(after.events) = count + 1 /\ Len(after.keys) = count + 1
      /\ after.keys[count + 1] = key /\ \A i \in 1..count : after.keys[i] = batch.keys[i]
  <2>1. Len(after.events) = count + 1
    BY <1>1, AppendProperties
  <2> HIDE DEF key
  <2>2. after.keys = Append(batch.keys, key)
    BY DEF key
  <2>3. /\ Len(after.keys) = count + 1
        /\ after.keys[count + 1] = key /\ \A i \in 1..count : after.keys[i] = batch.keys[i]
    BY <1>1, <1>2, <2>2, AppendProperties
  <2> QED
    BY <2>1, <2>3
<1>4. LogWith(after) = Append(LogWith(batch), e)
  <2>1. log \o Append(batch.events, e) = Append(log \o batch.events, e)
    BY <1>1, ConcatAppend, SMTT(30)
  <2> QED
    BY <2>1 DEF LogWith
<1>5. LastEvent(after) = LastEvent(batch) + 1 /\ LastEvent(batch) = Len(log) + count
  BY <1>1, <1>2, <1>3 DEF LastEvent
<1>6. \A j \in 1..Len(keys) : keys[j] # key
  <2>1. SUFFICES ASSUME NEW j \in 1..Len(keys), keys[j] = key PROVE FALSE
    OBVIOUS
  <2>2. j \in 1..Len(keys \o batch.keys) /\ (keys \o batch.keys)[j] = key
    BY <1>1, <2>1, ConcatProperties, LenProperties
  <2> QED
    BY <2>2 DEF KeyUsed
<1>7. \A j \in 1..count : batch.keys[j] # key
  <2>1. SUFFICES ASSUME NEW j \in 1..count, batch.keys[j] = key PROVE FALSE
    OBVIOUS
  <2>2. Len(keys) \in Nat
    BY <1>1, LenProperties
  <2>3. /\ Len(keys) + j \in 1..Len(keys \o batch.keys)
        /\ (keys \o batch.keys)[Len(keys) + j] = batch.keys[j]
    BY <1>1, <1>2, <2>2, ConcatProperties
  <2> QED
    BY <2>1, <2>3 DEF KeyUsed
<1> HIDE DEF key, count
<1>8. \A i \in 1..Len(after.keys) :
        /\ after.keys[i].kind = "yahoo"
        /\ \A j \in 1..Len(keys) : keys[j] # after.keys[i]
        /\ \A j \in 1..Len(after.keys) : after.keys[j] = after.keys[i] => i = j
  <2>1. \A i \in 1..count :
          /\ batch.keys[i].kind = "yahoo"
          /\ \A j \in 1..Len(keys) : keys[j] # batch.keys[i]
          /\ \A j \in 1..count : batch.keys[j] = batch.keys[i] => i = j
    BY DEF BatchSound, count
  <2>2. \A i \in 1..Len(after.keys) : i \in 1..count \/ i = count + 1
    BY <1>2, <1>3
  <2> QED
    BY <1>2, <1>3, <1>6, <1>7, <2>1, <2>2
<1>9. after.applied = 0 \/ after.applied \in (Len(log) + 1)..LastEvent(after)
  BY <1>1, <1>2, <1>5 DEF BatchSound
<1>10. ASSUME NEW report \in Reports
       PROVE  /\ after.conflicts[report].status = "unresolved" =>
                   \/ after.conflicts[report] = conflicts[report]
                   \/ after.conflicts[report].detected \in Len(log)..LastEvent(after)
              /\ conflicts[report].status = "dismissed" => after.conflicts[report] = conflicts[report]
  <2>1. after.conflicts[report] = batch.conflicts[report]
        \/ (batch.conflicts[report].status = "unresolved" /\ after.conflicts[report].status = "accepted")
    BY DEF AutoApplied, Settled
  <2>2. /\ batch.conflicts[report].status = "unresolved" =>
            \/ batch.conflicts[report] = conflicts[report]
            \/ batch.conflicts[report].detected \in Len(log)..LastEvent(batch)
        /\ conflicts[report].status = "dismissed" => batch.conflicts[report] = conflicts[report]
    BY DEF BatchSound
  <2>3. \A d \in Len(log)..LastEvent(batch) : d \in Len(log)..LastEvent(after)
    BY <1>2, <1>5
  <2> QED
    BY <2>1, <2>2, <2>3
<1> QED
  BY <1>3, <1>4, <1>8, <1>9, <1>10, Zenon DEF BatchSound

(* Confirming gives a batch again. *)
LEMMA ConfirmType ==
  ASSUME NEW batch \in Batches, NEW report, YahooKey(report) \in Keys,
         PickEvent("provider_confirmed", report.overall, batch.board[report.overall].team,
                   report.player, 0, 0) \in Event
  PROVE  Confirm(batch, report) \in Batches
<1> DEFINE event == PickEvent("provider_confirmed", report.overall,
                              batch.board[report.overall].team, report.player, 0, 0)
           key == YahooKey(report)
           used == KeyUsed(batch, key)
           after == Confirm(batch, report)
<1>1. after = IF used THEN [ batch EXCEPT !.touched = TRUE ]
              ELSE [ batch EXCEPT !.events = Append(batch.events, event),
                                  !.keys = Append(batch.keys, key), !.touched = TRUE ]
  BY DEF Confirm
<1>2. event \in Event /\ key \in Keys
  OBVIOUS
<1> SUFFICES after \in Batches
  OBVIOUS
<1> HIDE DEF event, key, used, after
<1>3. CASE used
  BY <1>1, <1>3 DEF Batches
<1>4. CASE ~ used
  <2>1. Append(batch.events, event) \in Seq(Event) /\ Append(batch.keys, key) \in Seq(Keys)
    BY <1>2 DEF Batches
  <2> QED
    BY <1>1, <1>4, <2>1 DEF Batches
<1> QED
  BY <1>3, <1>4

(* Proposing gives a batch again. *)
LEMMA ProposeType ==
  ASSUME NEW batch \in Batches, NEW report \in Reports, LastEvent(batch) \in Nat
  PROVE  Propose(batch, report) \in Batches
<1>1. Proposed(batch.conflicts[report], LastEvent(batch)) \in Conflict
  BY DEF Batches, Proposed, Unresolved, Conflict, ConflictStatuses
<1>2. [ batch.conflicts EXCEPT ![report] = Proposed(batch.conflicts[report], LastEvent(batch)) ]
        \in [ Reports -> Conflict ]
  BY <1>1 DEF Batches
<1>3. Propose(batch, report) =
        [ batch EXCEPT !.conflicts =
            [ batch.conflicts EXCEPT ![report] = Proposed(batch.conflicts[report], LastEvent(batch)) ] ]
  BY DEF Propose
<1> QED
  BY <1>2, <1>3 DEF Batches

(* Applying an event gives a batch again. *)
LEMMA ApplyType ==
  ASSUME NEW batch \in Batches, NEW report \in Reports, NEW event \in Event,
         YahooKey(report) \in Keys, LastEvent(batch) \in Nat,
         [ batch.board EXCEPT ![report.overall] =
             Pick(LastEvent(batch) + 1, event.player, event.team) ] \in Boards
  PROVE  Apply(batch, report, event) \in Batches
<1>1. AutoApplied(batch.conflicts[report]) \in Conflict
  BY DEF Batches, AutoApplied, Settled, Conflict, ConflictStatuses
<1>2. [ batch.conflicts EXCEPT ![report] = AutoApplied(batch.conflicts[report]) ]
        \in [ Reports -> Conflict ]
  BY <1>1 DEF Batches
<1>3. Append(batch.events, event) \in Seq(Event)
      /\ Append(batch.keys, YahooKey(report)) \in Seq(Keys)
  BY DEF Batches
<1> QED
  BY <1>2, <1>3 DEF Apply, Batches

(* A pick within the draft is on a team of the league. *)
LEMMA TeamOfPick ==
  ASSUME RInv, NEW n \in PickNumbers
  PROVE  TeamOf(n) \in Nat \ {0}
<1>1. setup \in Setups
  BY DEF RInv, PlaySound, TypeOK
<1>2. setup.teams \in Nat \ {0} /\ n \in Nat \ {0}
  BY <1>1, GeometryType, MaxPicksAssumption DEF PickNumbers
<1>3. SnakeTeam(n, setup.teams) \in 1..setup.teams
  BY <1>2, SnakeTeamType
<1> QED
  BY <1>2, <1>3 DEF TeamOf

(* What the steps of a batch need of it. *)
LEMMA BatchTypes ==
  ASSUME RInv, NEW batch, BatchSound(batch)
  PROVE  /\ batch \in Batches /\ batch.board \in Boards /\ batch.events \in Seq(Event)
         /\ batch.keys \in Seq(Keys) /\ Len(batch.keys) = Len(batch.events)
         /\ Len(log) \in Nat /\ LastEvent(batch) \in Nat
         /\ Len(LogWith(batch)) = LastEvent(batch) /\ LogWith(batch) \in Seq(Event)
         /\ Len(log) <= LastEvent(batch)
<1>1. /\ batch \in Batches /\ batch.board \in Boards /\ batch.events \in Seq(Event)
      /\ batch.keys \in Seq(Keys) /\ Len(batch.keys) = Len(batch.events)
  BY DEF BatchSound, Batches
<1>2. log \in Seq(Event)
  BY DEF RInv, PlaySound, TypeOK
<1>3. Len(log) \in Nat /\ Len(batch.events) \in Nat
  BY <1>1, <1>2, LenProperties
<1>4. log \o batch.events \in Seq(Event) /\ Len(log \o batch.events) = Len(log) + Len(batch.events)
  BY <1>1, <1>2, ConcatProperties
<1> QED
  BY <1>1, <1>3, <1>4 DEF LastEvent, LogWith

(* A report confirmed keeps the batch sound. *)
LEMMA ConfirmSound ==
  ASSUME RInv, NEW batch, BatchSound(batch), NEW n \in PickNumbers, feed[n] # NoPlayer,
         ReportAt(n) \in Reports
  PROVE  BatchSound(Confirm(batch, ReportAt(n)))
<1> DEFINE r == ReportAt(n)
           after == Confirm(batch, r)
           e == PickEvent("provider_confirmed", n, batch.board[n].team, feed[n], 0, 0)
<1>1. r.overall = n /\ r.player = feed[n] /\ r \in Reports
  BY DEF ReportAt
<1>2. batch \in Batches /\ LogSound(LogWith(batch), batch.board, status) /\ HasNoGaps(batch.board)
      /\ batch.board \in Boards
  BY BatchTypes DEF BatchSound
<1>3. e \in Event /\ e.type = "provider_confirmed"
  <2>1. "provider_confirmed" \in EventTypes /\ 0 \in Nat /\ feed[n] \in Players \cup {NoPlayer}
    BY DEF EventTypes, RInv, ReconciliationTypeOK
  <2>2. batch.board[n].team \in Nat
    BY <1>2 DEF Boards, ReducedPick, Open
  <2>3. e = PickEvent("provider_confirmed", n, batch.board[n].team, feed[n], 0, 0)
    OBVIOUS
  <2> HIDE DEF e
  <2> QED
    BY <2>1, <2>2, <2>3, PickEventType
<1>4. YahooKey(r) \in Keys
  BY <1>1, YahooKeyType
<1> HIDE DEF r
<1>5. after \in Batches
  BY <1>1, <1>2, <1>3, <1>4, ConfirmType
<1>6. /\ after.board = batch.board /\ after.conflicts = batch.conflicts
      /\ after.applied = batch.applied
      /\ KeyUsed(batch, YahooKey(r)) => after.events = batch.events /\ after.keys = batch.keys
      /\ ~ KeyUsed(batch, YahooKey(r)) =>
           after.events = Append(batch.events, e) /\ after.keys = Append(batch.keys, YahooKey(r))
  BY <1>1, <1>2, ConfirmFields
<1> SUFFICES BatchSound(after)
  BY DEF r
<1> HIDE DEF e, after
<1>7. CASE KeyUsed(batch, YahooKey(r))
  BY <1>5, <1>6, <1>7 DEF BatchSound, LogWith, LastEvent
<1>8. CASE ~ KeyUsed(batch, YahooKey(r))
  <2>1. LogSound(Append(LogWith(batch), e), batch.board, StatusAfter(e.type, status))
    BY <1>2, <1>3, QuietEventLogged
  <2>2. StatusAfter(e.type, status) = status
    BY <1>3 DEF StatusAfter, LifecycleStatus
  <2> QED
    BY <1>1, <1>2, <1>3, <1>5, <1>6, <1>8, <2>1, <2>2, BatchAppended
<1> QED
  BY <1>7, <1>8

(* A report proposed keeps the batch sound. *)
LEMMA ProposeSound ==
  ASSUME RInv, NEW batch, BatchSound(batch), NEW r \in Reports
  PROVE  BatchSound(Propose(batch, r))
<1> DEFINE after == Propose(batch, r)
<1>1. batch \in Batches /\ LastEvent(batch) \in Nat /\ Len(log) \in Nat /\ Len(log) <= LastEvent(batch)
  BY BatchTypes
<1>2. /\ after.events = batch.events /\ after.keys = batch.keys /\ after.board = batch.board
      /\ after.applied = batch.applied
      /\ after.conflicts = [ batch.conflicts EXCEPT
           ![r] = Proposed(batch.conflicts[r], LastEvent(batch)) ]
  BY <1>1, ProposeFields
<1>3. after \in Batches
  BY <1>1, ProposeType
<1> HIDE DEF after
<1>4. ASSUME NEW report \in Reports
      PROVE  /\ after.conflicts[report].status = "unresolved" =>
                  \/ after.conflicts[report] = conflicts[report]
                  \/ after.conflicts[report].detected \in Len(log)..LastEvent(batch)
             /\ conflicts[report].status = "dismissed" => after.conflicts[report] = conflicts[report]
  <2>1. /\ batch.conflicts[report].status = "unresolved" =>
            \/ batch.conflicts[report] = conflicts[report]
            \/ batch.conflicts[report].detected \in Len(log)..LastEvent(batch)
        /\ conflicts[report].status = "dismissed" => batch.conflicts[report] = conflicts[report]
    BY DEF BatchSound
  <2>2. after.conflicts[report] =
          IF report = r THEN Proposed(batch.conflicts[r], LastEvent(batch))
          ELSE batch.conflicts[report]
    BY <1>1, <1>2 DEF Batches
  <2>3. LastEvent(batch) \in Len(log)..LastEvent(batch)
    BY <1>1
  <2> QED
    BY <2>1, <2>2, <2>3 DEF Proposed, Unresolved
<1> QED
  BY <1>2, <1>3, <1>4 DEF BatchSound, LogWith, LastEvent, after

(* So do a placeholder replaced and a pick added. *)
LEMMA ApplySound ==
  ASSUME RInv, NEW batch, BatchSound(batch), NEW n \in PickNumbers, feed[n] # NoPlayer,
         ReportAt(n) \in Reports,
         NEW e, \/ Upgrades(batch, n) /\ e = UpgradeEvent(batch, n)
                \/ Extends(batch, n) /\ e = NewPickEvent(batch, n)
  PROVE  /\ BatchSound(Apply(batch, ReportAt(n), e))
         /\ e \in Event /\ e.player = feed[n] /\ e.team = TeamOf(n)
<1> DEFINE r == ReportAt(n)
           after == Apply(batch, r, e)
           pick == Pick(LastEvent(batch) + 1, e.player, e.team)
           b == [ batch.board EXCEPT ![n] = pick ]
<1>1. r.overall = n /\ r.player = feed[n] /\ r \in Reports
  BY DEF ReportAt
<1>2. /\ batch \in Batches /\ LogSound(LogWith(batch), batch.board, status)
      /\ HasNoGaps(batch.board) /\ batch.board \in Boards /\ LastEvent(batch) \in Nat
      /\ Len(LogWith(batch)) = LastEvent(batch) /\ LogWith(batch) \in Seq(Event)
  BY BatchTypes DEF BatchSound
<1>3. TeamOf(n) \in Nat \ {0} /\ feed[n] \in Players
  BY TeamOfPick DEF RInv, ReconciliationTypeOK
<1>4. /\ ~ KeyUsed(batch, YahooKey(r))
      /\ e \in Event /\ e.type \in {"pick_recorded", "pick_replaced"}
      /\ e.overall = n /\ e.player = feed[n] /\ e.team = TeamOf(n)
  <2>0. TeamOf(n) \in Nat /\ feed[n] \in Players \cup {NoPlayer} /\ 0 \in Nat
        /\ "pick_recorded" \in EventTypes /\ "pick_replaced" \in EventTypes
    BY <1>3 DEF EventTypes
  <2>1. CASE Upgrades(batch, n) /\ e = UpgradeEvent(batch, n)
    <3>1. ~ KeyUsed(batch, YahooKey(r)) /\ n \in Filled(batch.board)
      BY <1>1, <2>1 DEF Upgrades, SafeIdentityUpgrade, Filled
    <3>2. batch.board[n].event \in 1..Len(LogWith(batch)) /\ batch.board[n] \in ReducedPick
      BY <1>2, <3>1, FilledHoldsPick DEF LogSound, PicksAreEvents
    <3>3. LogWith(batch)[batch.board[n].event] \in Event /\ batch.board[n].event \in Nat
      BY <1>2, <3>2, ElementOfSeq
    <3>4. LogWith(batch)[batch.board[n].event].advice \in Nat
      BY <3>3 DEF Event
    <3>5. e \in Event /\ e.type = "pick_replaced" /\ e.overall = n /\ e.player = feed[n]
          /\ e.team = TeamOf(n)
      BY <2>0, <2>1, <3>3, <3>4, PickEventType DEF UpgradeEvent
    <3> QED
      BY <3>1, <3>5
  <2>2. CASE Extends(batch, n) /\ e = NewPickEvent(batch, n)
    <3>1. ~ KeyUsed(batch, YahooKey(r))
      BY <2>2 DEF Extends, SafeNewPick
    <3>2. OwnerAdvice(batch, TeamOf(n)) \in Nat
      BY <1>2 DEF OwnerAdvice, AdviceOf
    <3>3. e \in Event /\ e.type = "pick_recorded" /\ e.overall = n /\ e.player = feed[n]
          /\ e.team = TeamOf(n)
      BY <2>0, <2>2, <3>2, PickEventType DEF NewPickEvent
    <3> QED
      BY <3>1, <3>3
  <2> QED
    BY <2>1, <2>2
<1>5. pick \in ReducedPick
  BY <1>2, <1>3, <1>4 DEF Pick, ReducedPick
<1>6. LogSound(Append(LogWith(batch), e), b, status)
  BY <1>2, <1>4, PickLogged
<1> HIDE DEF pick
<1>7. b \in Boards /\ HasNoGaps(b)
  <2>1. CASE Upgrades(batch, n)
    <3>1. n \in Filled(batch.board)
      BY <1>1, <2>1 DEF Upgrades, SafeIdentityUpgrade, Filled
    <3> QED
      BY <1>2, <1>5, <3>1, PlacedAgain
  <2>2. CASE Extends(batch, n)
    <3>1. n = PickCount(batch.board) + 1
      BY <1>1, <2>2 DEF Extends, SafeNewPick
    <3> QED
      BY <1>2, <1>5, <3>1, PlacedNext
  <2> QED
    BY <2>1, <2>2
<1>8. YahooKey(r) \in Keys
  BY <1>1, YahooKeyType
<1> HIDE DEF r
<1>9. after \in Batches
  BY <1>1, <1>2, <1>4, <1>7, <1>8, ApplyType DEF pick
<1>10. /\ after.events = Append(batch.events, e) /\ after.keys = Append(batch.keys, YahooKey(r))
       /\ after.board = b /\ after.applied = LastEvent(batch) + 1
       /\ after.conflicts = [ batch.conflicts EXCEPT ![r] = AutoApplied(batch.conflicts[r]) ]
  <2>1. b = [ batch.board EXCEPT ![r.overall] = Pick(LastEvent(batch) + 1, e.player, e.team) ]
    BY <1>1 DEF pick
  <2> HIDE DEF b
  <2> QED
    BY <1>1, <2>1 DEF Apply
<1> HIDE DEF after, b
<1>11. \A report \in Reports :
         after.conflicts[report] \in {batch.conflicts[report], AutoApplied(batch.conflicts[report])}
  BY <1>1, <1>2, <1>10 DEF Batches
<1>12. BatchSound(after)
  BY <1>1, <1>4, <1>6, <1>7, <1>9, <1>10, <1>11, BatchAppended
<1> QED
  BY <1>4, <1>12 DEF after, r

(* Whatever a report does to it, a sound batch stays sound. *)
LEMMA ReportSound ==
  ASSUME RInv, NEW batch, BatchSound(batch), NEW n \in PickNumbers, feed[n] # NoPlayer
  PROVE  BatchSound(Reconcile(batch, ReportAt(n)))
<1>1. ReportAt(n) \in Reports
  BY DEF RInv, FeedReported
<1> DEFINE after == Reconcile(batch, ReportAt(n))
<1>2. \/ Agrees(batch, n) /\ after = Confirm(batch, ReportAt(n))
      \/ Upgrades(batch, n) /\ after = Apply(batch, ReportAt(n), UpgradeEvent(batch, n))
      \/ Extends(batch, n) /\ after = Apply(batch, ReportAt(n), NewPickEvent(batch, n))
      \/ after = Propose(batch, ReportAt(n))
  BY ReconcileCases
<1> HIDE DEF after
<1> QED
  BY <1>1, <1>2, ConfirmSound, ApplySound, ProposeSound DEF after

(* A key is used when an event of the log or of the batch has it. *)
LEMMA KeyUsedMeans ==
  ASSUME RInv, NEW batch, batch.keys \in Seq(Keys), NEW key
  PROVE  KeyUsed(batch, key) <=>
           \/ \E i \in 1..Len(keys) : keys[i] = key
           \/ \E i \in 1..Len(batch.keys) : batch.keys[i] = key
<1> DEFINE all == keys \o batch.keys
<1>1. keys \in Seq(Keys) /\ Len(keys) \in Nat /\ Len(batch.keys) \in Nat
  BY LenProperties DEF RInv, ReconciliationTypeOK
<1>2. /\ Len(all) = Len(keys) + Len(batch.keys)
      /\ \A i \in 1..Len(all) : all[i] = IF i <= Len(keys) THEN keys[i]
                                         ELSE batch.keys[i - Len(keys)]
  BY <1>1, ConcatProperties
<1> HIDE DEF all
<1>3. KeyUsed(batch, key) <=> \E i \in 1..Len(all) : all[i] = key
  BY DEF KeyUsed, all
<1>4. ASSUME NEW i \in 1..Len(all), all[i] = key
      PROVE  \/ \E j \in 1..Len(keys) : keys[j] = key
             \/ \E j \in 1..Len(batch.keys) : batch.keys[j] = key
  <2>1. CASE i <= Len(keys)
    BY <1>1, <1>2, <1>4, <2>1
  <2>2. CASE ~ (i <= Len(keys))
    <3>1. i - Len(keys) \in 1..Len(batch.keys) /\ batch.keys[i - Len(keys)] = key
      BY <1>1, <1>2, <1>4, <2>2
    <3> QED
      BY <3>1
  <2> QED
    BY <2>1, <2>2
<1>5. ASSUME NEW j \in 1..Len(keys), keys[j] = key PROVE \E i \in 1..Len(all) : all[i] = key
  BY <1>1, <1>2, <1>5
<1>6. ASSUME NEW j \in 1..Len(batch.keys), batch.keys[j] = key
      PROVE  \E i \in 1..Len(all) : all[i] = key
  <2>1. /\ Len(keys) + j \in 1..Len(all) /\ ~ (Len(keys) + j <= Len(keys))
        /\ (Len(keys) + j) - Len(keys) = j
    BY <1>1, <1>2
  <2>2. all[Len(keys) + j] = key
    BY <1>2, <1>6, <2>1
  <2> QED
    BY <2>1, <2>2
<1> QED
  BY <1>3, <1>4, <1>5, <1>6

(* What a report at pick n does at that pick, and leaves elsewhere. *)
Touched(batch, after, n) ==
  LET used(b) == KeyUsed(b, YahooKey(ReportAt(n)))
  IN  \/ Agrees(batch, n) /\ after.board = batch.board /\ used(after)
      \/ /\ Upgrades(batch, n) \/ Extends(batch, n)
         /\ after.board[n].player = feed[n] /\ after.board[n].team = TeamOf(n)
         /\ used(after)
      \/ /\ ~ Agrees(batch, n) /\ ~ Upgrades(batch, n) /\ ~ Extends(batch, n)
         /\ after.board = batch.board
         /\ after.conflicts[ReportAt(n)].status \in {"unresolved", "dismissed"}

Untouched(batch, after, n) ==
  /\ \A m \in PickNumbers \ {n} : after.board[m] = batch.board[m]
  /\ \A report \in Reports \ {ReportAt(n)} : after.conflicts[report] = batch.conflicts[report]
  /\ \A key : KeyUsed(batch, key) => KeyUsed(after, key)

(* A report changes at most its own pick and its own conflict, and forgets *)
(* no key.                                                                 *)
LEMMA ReportFrame ==
  ASSUME RInv, NEW batch, BatchSound(batch), NEW n \in PickNumbers, feed[n] # NoPlayer,
         NEW after, after = Reconcile(batch, ReportAt(n))
  PROVE  Touched(batch, after, n) /\ Untouched(batch, after, n)
<1> DEFINE r == ReportAt(n)
<1>1. r.overall = n /\ r.player = feed[n] /\ r \in Reports
  BY DEF ReportAt, RInv, FeedReported
<1>2. /\ batch \in Batches /\ batch.board \in Boards /\ batch.keys \in Seq(Keys)
      /\ batch.conflicts \in [ Reports -> Conflict ]
  BY BatchTypes DEF Batches
<1>3. BatchSound(after)
  BY ReportSound
<1>4. after.keys \in Seq(Keys) /\ after.keys \in {batch.keys, Append(batch.keys, YahooKey(r))} =>
        \A key : KeyUsed(batch, key) => KeyUsed(after, key)
  <2> SUFFICES ASSUME after.keys \in Seq(Keys),
                      after.keys \in {batch.keys, Append(batch.keys, YahooKey(r))},
                      NEW key, KeyUsed(batch, key)
               PROVE  KeyUsed(after, key)
    OBVIOUS
  <2>1. \A i \in 1..Len(batch.keys) : i \in 1..Len(after.keys) /\ after.keys[i] = batch.keys[i]
    BY <1>1, <1>2, YahooKeyType, AppendProperties, LenProperties
  <2> QED
    BY <1>2, <2>1, KeyUsedMeans
<1>5. after.keys \in Seq(Keys) /\ after.keys = Append(batch.keys, YahooKey(r)) =>
        KeyUsed(after, YahooKey(r))
  <2> SUFFICES ASSUME after.keys \in Seq(Keys), after.keys = Append(batch.keys, YahooKey(r))
               PROVE  KeyUsed(after, YahooKey(r))
    OBVIOUS
  <2>1. Len(batch.keys) + 1 \in 1..Len(after.keys) /\ after.keys[Len(batch.keys) + 1] = YahooKey(r)
    BY <1>1, <1>2, YahooKeyType, AppendProperties, LenProperties
  <2> QED
    BY <2>1, KeyUsedMeans
<1>6. after.keys \in Seq(Keys)
  BY <1>3, BatchTypes
<1> HIDE DEF r
<1>7. CASE Agrees(batch, n) /\ after = Confirm(batch, r)
  <2>1. /\ after.board = batch.board /\ after.conflicts = batch.conflicts
        /\ KeyUsed(batch, YahooKey(r)) => after.keys = batch.keys
        /\ ~ KeyUsed(batch, YahooKey(r)) => after.keys = Append(batch.keys, YahooKey(r))
    BY <1>2, <1>7, ConfirmFields
  <2>2. \A key : KeyUsed(batch, key) => KeyUsed(after, key)
    BY <1>4, <1>6, <2>1
  <2>3. KeyUsed(after, YahooKey(r))
    BY <1>5, <1>6, <2>1, <2>2
  <2> QED
    BY <1>7, <2>1, <2>2, <2>3 DEF Touched, Untouched, r
<1>8. ASSUME NEW e, after = Apply(batch, r, e),
             \/ Upgrades(batch, n) /\ e = UpgradeEvent(batch, n)
             \/ Extends(batch, n) /\ e = NewPickEvent(batch, n)
      PROVE  Touched(batch, after, n) /\ Untouched(batch, after, n)
  <2>1. e.player = feed[n] /\ e.team = TeamOf(n)
    BY <1>1, <1>8, ApplySound DEF r
  <2>2. /\ after.keys = Append(batch.keys, YahooKey(r))
        /\ after.board = [ batch.board EXCEPT ![n] = Pick(LastEvent(batch) + 1, e.player, e.team) ]
        /\ after.conflicts = [ batch.conflicts EXCEPT ![r] = AutoApplied(batch.conflicts[r]) ]
    BY <1>1, <1>8 DEF Apply
  <2>3. after.board[n].player = feed[n] /\ after.board[n].team = TeamOf(n)
        /\ \A m \in PickNumbers \ {n} : after.board[m] = batch.board[m]
    BY <1>2, <2>1, <2>2 DEF Boards, Pick
  <2>4. \A report \in Reports \ {r} : after.conflicts[report] = batch.conflicts[report]
    BY <1>2, <2>2
  <2>5. KeyUsed(after, YahooKey(r)) /\ \A key : KeyUsed(batch, key) => KeyUsed(after, key)
    BY <1>4, <1>5, <1>6, <2>2
  <2>6. Upgrades(batch, n) \/ Extends(batch, n)
    BY <1>8
  <2> QED
    BY <2>3, <2>4, <2>5, <2>6 DEF Touched, Untouched, r
<1>9. CASE /\ ~ Agrees(batch, n) /\ ~ Upgrades(batch, n) /\ ~ Extends(batch, n)
           /\ after = Propose(batch, r)
  <2>1. /\ after.keys = batch.keys /\ after.board = batch.board
        /\ after.conflicts = [ batch.conflicts EXCEPT
             ![r] = Proposed(batch.conflicts[r], LastEvent(batch)) ]
    BY <1>1, <1>2, <1>9, ProposeFields
  <2>2. \A report \in Reports \ {r} : after.conflicts[report] = batch.conflicts[report]
    BY <1>2, <2>1
  <2>3. after.conflicts[r].status \in {"unresolved", "dismissed"}
    BY <1>1, <1>2, <2>1 DEF Proposed, Unresolved, Conflict, ConflictStatuses
  <2>4. \A key : KeyUsed(batch, key) => KeyUsed(after, key)
    BY <1>4, <1>6, <2>1
  <2> QED
    BY <1>9, <2>1, <2>2, <2>3, <2>4 DEF Touched, Untouched, r
<1>10. \/ Agrees(batch, n) /\ after = Confirm(batch, r)
       \/ Upgrades(batch, n) /\ after = Apply(batch, r, UpgradeEvent(batch, n))
       \/ Extends(batch, n) /\ after = Apply(batch, r, NewPickEvent(batch, n))
       \/ /\ ~ Agrees(batch, n) /\ ~ Upgrades(batch, n) /\ ~ Extends(batch, n)
          /\ after = Propose(batch, r)
  BY ReconcileCases DEF r
<1> QED
  BY <1>7, <1>8, <1>9, <1>10

----------------------------------------------------------------------------
(* A pass over the reports.                                                *)

(* The batches that a pass goes through, one per pick up to a last one. *)
Passes(start, last, f) ==
  f = [ n \in 0..last |->
          IF n = 0 THEN start
          ELSE IF feed[n] = NoPlayer THEN f[n - 1] ELSE Reconcile(f[n - 1], ReportAt(n)) ]

(* Every start has a pass, of any length: the recursion is over the picks. *)
LEMMA PassExists ==
  ASSUME NEW start, NEW last \in Nat
  PROVE  \E f : Passes(start, last, f)
<1> DEFINE S == { n \in Nat : \E f : Passes(start, n, f) }
           step(n, batch) == IF feed[n] = NoPlayer THEN batch ELSE Reconcile(batch, ReportAt(n))
<1> HIDE DEF step
<1>0. \A n \in Nat : \A f : Passes(start, n, f) <=>
        f = [ i \in 0..n |-> IF i = 0 THEN start ELSE step(i, f[i - 1]) ]
  BY Zenon DEF Passes, step
<1>1. 0 \in S
  <2> DEFINE f == [ n \in 0..0 |-> start ]
  <2>1. f = [ n \in 0..0 |-> IF n = 0 THEN start ELSE step(n, f[n - 1]) ]
    BY SMT
  <2> HIDE DEF f
  <2> QED
    BY <1>0, <2>1
<1>2. ASSUME NEW n \in Nat, n \in S PROVE n + 1 \in S
  <2>1. PICK f : Passes(start, n, f)
    BY <1>2
  <2>2. \A i \in 0..n : f[i] = IF i = 0 THEN start ELSE step(i, f[i - 1])
    BY <1>0, <2>1, Zenon
  <2> DEFINE g == [ i \in 0..(n + 1) |-> IF i <= n THEN f[i] ELSE step(n + 1, f[n]) ]
  <2>3. ASSUME NEW i \in 0..(n + 1)
        PROVE  g[i] = IF i = 0 THEN start ELSE step(i, g[i - 1])
    <3>1. CASE i = 0
      BY <2>2, <3>1
    <3>2. CASE i \in 1..n
      <4>1. g[i] = f[i] /\ g[i - 1] = f[i - 1] /\ i # 0 /\ i \in 0..n
        BY <3>2
      <4> QED
        BY <2>2, <4>1
    <3>3. CASE i = n + 1
      <4>1. g[i] = step(n + 1, f[n]) /\ g[i - 1] = f[n] /\ i # 0
        BY <3>3
      <4> QED
        BY <3>3, <4>1
    <3> QED
      BY <3>1, <3>2, <3>3
  <2>4. g = [ i \in 0..(n + 1) |-> g[i] ]
    BY Zenon
  <2> HIDE DEF g
  <2>5. [ i \in 0..(n + 1) |-> g[i] ] =
          [ i \in 0..(n + 1) |-> IF i = 0 THEN start ELSE step(i, g[i - 1]) ]
    BY <2>3
  <2>6. g = [ i \in 0..(n + 1) |-> IF i = 0 THEN start ELSE step(i, g[i - 1]) ]
    BY <2>4, <2>5
  <2>7. n + 1 \in Nat
    OBVIOUS
  <2>8. Passes(start, n + 1, g)
    BY <1>0, <2>6, <2>7, Zenon
  <2> QED
    BY <2>7, <2>8
<1> HIDE DEF S
<1>3. Nat \subseteq S
  BY <1>1, <1>2, CountingUp
<1> QED
  BY <1>3 DEF S

(* The batches of a pass, one by one. *)
LEMMA PassSteps ==
  ASSUME NEW start, NEW f, Passes(start, MaxPicks, f)
  PROVE  /\ f[0] = start
         /\ \A n \in PickNumbers :
              f[n] = IF feed[n] = NoPlayer THEN f[n - 1] ELSE Reconcile(f[n - 1], ReportAt(n))
<1>1. \A n \in 0..MaxPicks :
        f[n] = IF n = 0 THEN start
               ELSE IF feed[n] = NoPlayer THEN f[n - 1] ELSE Reconcile(f[n - 1], ReportAt(n))
  BY Zenon DEF Passes
<1>2. 0 \in 0..MaxPicks /\ \A n \in PickNumbers : n \in 0..MaxPicks /\ n # 0
  BY MaxPicksAssumption DEF PickNumbers
<1> QED
  BY <1>1, <1>2

(* A sync ends in the last batch of its pass. *)
LEMMA BatchOfPass ==
  ASSUME NEW start
  PROVE  \E f : Passes(start, MaxPicks, f) /\ BatchFrom(start) = f[MaxPicks]
<1>1. BatchFrom(start) = (CHOOSE f : Passes(start, MaxPicks, f))[MaxPicks]
  BY Zenon DEF BatchFrom, Passes, ReportAt
<1>2. Passes(start, MaxPicks, CHOOSE f : Passes(start, MaxPicks, f))
  BY PassExists, MaxPicksAssumption
<1> QED
  BY <1>1, <1>2

(* Induction over the picks of a pass. *)
LEMMA CountingPicks ==
  ASSUME NEW S, 0 \in S, \A n \in PickNumbers : n - 1 \in S => n \in S
  PROVE  \A n \in 0..MaxPicks : n \in S
<1> DEFINE T == { n \in Nat : n <= MaxPicks => n \in S }
<1>1. 0 \in T
  OBVIOUS
<1>2. ASSUME NEW n \in Nat, n \in T PROVE n + 1 \in T
  <2>1. CASE n + 1 <= MaxPicks
    <3>1. n + 1 \in PickNumbers /\ (n + 1) - 1 = n /\ n \in S
      BY <1>2, <2>1, MaxPicksAssumption DEF PickNumbers
    <3> QED
      BY <3>1
  <2>2. CASE ~ (n + 1 <= MaxPicks)
    BY <2>2
  <2> QED
    BY <2>1, <2>2
<1> HIDE DEF T
<1>3. Nat \subseteq T
  BY <1>1, <1>2, CountingUp
<1> QED
  BY <1>3, MaxPicksAssumption DEF T

(* Every batch of a pass that starts soundly is sound. *)
LEMMA PassSound ==
  ASSUME RInv, NEW start, BatchSound(start), NEW f, Passes(start, MaxPicks, f)
  PROVE  \A n \in 0..MaxPicks : BatchSound(f[n])
<1> DEFINE S == { n \in 0..MaxPicks : BatchSound(f[n]) }
<1>1. 0 \in S
  BY PassSteps, MaxPicksAssumption
<1>2. ASSUME NEW n \in PickNumbers, n - 1 \in S PROVE n \in S
  <2>1. f[n] = IF feed[n] = NoPlayer THEN f[n - 1] ELSE Reconcile(f[n - 1], ReportAt(n))
    BY PassSteps
  <2>2. BatchSound(f[n])
    BY <1>2, <2>1, ReportSound
  <2>3. n \in 0..MaxPicks
    BY MaxPicksAssumption DEF PickNumbers
  <2> QED
    BY <2>2, <2>3
<1> HIDE DEF S
<1>3. \A n \in 0..MaxPicks : n \in S
  BY <1>1, <1>2, CountingPicks
<1> QED
  BY <1>3 DEF S

(* A batch starts soundly, with nothing appended. *)
LEMMA EmptyBatchSound == RInv => BatchSound(EmptyBatch)
<1> SUFFICES ASSUME RInv PROVE BatchSound(EmptyBatch)
  OBVIOUS
<1> DEFINE batch == EmptyBatch
<1>1. /\ batch.events = <<>> /\ batch.keys = <<>> /\ batch.board = board
      /\ batch.conflicts = conflicts /\ batch.applied = 0 /\ batch.touched = FALSE
  BY DEF EmptyBatch
<1>2. log \in Seq(Event) /\ board \in Boards /\ conflicts \in [ Reports -> Conflict ]
  BY DEF RInv, PlaySound, TypeOK, ReconciliationTypeOK, Boards
<1>3. batch \in Batches
  BY <1>2 DEF EmptyBatch, Batches
<1> HIDE DEF batch
<1>4. LogWith(batch) = log /\ Len(batch.keys) = Len(batch.events) /\ Len(batch.keys) = 0
  BY <1>1, <1>2 DEF LogWith
<1>5. LogSound(LogWith(batch), batch.board, status) /\ HasNoGaps(batch.board)
  BY <1>1, <1>4 DEF RInv, PlaySound
<1> QED
  BY <1>1, <1>3, <1>4, <1>5 DEF BatchSound, batch

(* So the batch of a sync, when one runs, is sound. *)
LEMMA SyncSound == RInv => BatchSound(Batch)
<1> SUFFICES ASSUME RInv PROVE BatchSound(Batch)
  OBVIOUS
<1>1. PICK f : Passes(EmptyBatch, MaxPicks, f) /\ BatchFrom(EmptyBatch) = f[MaxPicks]
  BY BatchOfPass
<1>2. \A n \in 0..MaxPicks : BatchSound(f[n])
  BY <1>1, EmptyBatchSound, PassSound
<1> QED
  BY <1>1, <1>2, MaxPicksAssumption DEF Batch

----------------------------------------------------------------------------
(* The invariant is inductive.                                             *)

(* The new keys follow the old ones. *)
LEMMA KeysAppended ==
  ASSUME RInv, NEW new \in Seq(Keys), keys' = keys \o new
  PROVE  /\ keys' \in Seq(Keys) /\ Len(keys') = Len(keys) + Len(new)
         /\ \A i \in 1..Len(keys') : \/ i \in 1..Len(keys) /\ keys'[i] = keys[i]
                                     \/ /\ i - Len(keys) \in 1..Len(new)
                                        /\ keys'[i] = new[i - Len(keys)]
<1>1. keys \in Seq(Keys)
  BY DEF RInv, ReconciliationTypeOK
<1> QED
  BY <1>1, ConcatElements

(* Keys that are placed as theirs should be, and that no event has, keep   *)
(* the keys distinct and every open conflict newer than its resolutions.   *)
LEMMA KeysGoOn ==
  ASSUME RInv, NEW new \in Seq(Keys), keys' = keys \o new,
         Len(log') \in Nat, Len(log) <= Len(log'),
         \A i \in 1..Len(new) :
           /\ new[i].kind \in { "client", "mode" } => new[i].at = Len(keys) + i
           /\ new[i].kind \in Resolutions \cup { "complete" } => new[i].at < Len(keys) + i
           /\ \A j \in 1..Len(keys) : keys[j] # new[i]
           /\ \A j \in 1..Len(new) : new[j] = new[i] => i = j
           /\ \A report \in Reports :
                /\ new[i].kind \in Resolutions
                /\ new[i].overall = report.overall /\ new[i].player = report.player
                => conflicts'[report].status # "unresolved",
         \A report \in Reports :
           conflicts'[report].status = "unresolved" =>
             \/ conflicts'[report] = conflicts[report]
             \/ conflicts'[report].detected \in Len(log)..Len(log')
  PROVE  KeysPlaced' /\ KeysDistinct' /\ ConflictsAreNew'
<1> DEFINE old == Len(keys)
<1>1. keys \in Seq(Keys) /\ old \in Nat /\ old = Len(log) /\ Len(new) \in Nat
  BY LenProperties DEF RInv, ReconciliationTypeOK
<1>2. /\ Len(keys') = old + Len(new)
      /\ \A i \in 1..Len(keys') : \/ i \in 1..old /\ keys'[i] = keys[i]
                                  \/ i - old \in 1..Len(new) /\ keys'[i] = new[i - old]
  BY KeysAppended
<1>3. \A i \in 1..old :
        /\ keys[i].kind \in { "client", "mode" } => keys[i].at = i
        /\ keys[i].kind \in Resolutions \cup { "complete" } => keys[i].at < i
        /\ \A j \in 1..old : keys[i] = keys[j] => i = j
        /\ keys[i].at \in Nat
  <2>1. \A i \in 1..old : keys[i] \in Keys
    BY <1>1, ElementOfSeq
  <2>2. \A key \in Keys : key.at \in Nat
    BY DEF Keys
  <2>3. KeysPlaced /\ KeysDistinct
    BY DEF RInv
  <2> QED
    BY <2>1, <2>2, <2>3 DEF KeysPlaced, KeysDistinct
<1>4. \A i \in 1..Len(new) : new[i].at \in Nat
  <2>1. \A i \in 1..Len(new) : new[i] \in Keys
    BY ElementOfSeq
  <2>2. \A key \in Keys : key.at \in Nat
    BY DEF Keys
  <2> QED
    BY <2>1, <2>2
<1> HIDE DEF old
<1>5. KeysPlaced'
  <2> SUFFICES ASSUME NEW i \in 1..Len(keys')
               PROVE  /\ keys'[i].kind \in { "client", "mode" } => keys'[i].at = i
                      /\ keys'[i].kind \in Resolutions \cup { "complete" } => keys'[i].at < i
    BY DEF KeysPlaced
  <2>1. CASE i \in 1..old /\ keys'[i] = keys[i]
    BY <1>3, <2>1
  <2>2. CASE i - old \in 1..Len(new) /\ keys'[i] = new[i - old]
    <3>1. old + (i - old) = i
      BY <1>1
    <3> QED
      BY <2>2, <3>1 DEF old
  <2> QED
    BY <1>2, <2>1, <2>2
<1>6. KeysDistinct'
  <2> SUFFICES ASSUME NEW i \in 1..Len(keys'), NEW j \in 1..Len(keys'), keys'[i] = keys'[j]
               PROVE  i = j
    BY DEF KeysDistinct
  <2>1. CASE i \in 1..old /\ keys'[i] = keys[i] /\ j \in 1..old /\ keys'[j] = keys[j]
    BY <1>3, <2>1
  <2>2. CASE /\ i - old \in 1..Len(new) /\ keys'[i] = new[i - old]
             /\ j - old \in 1..Len(new) /\ keys'[j] = new[j - old]
    <3>1. i - old = j - old
      BY <2>2
    <3> QED
      BY <1>1, <3>1
  <2>3. CASE i \in 1..old /\ keys'[i] = keys[i] /\ j - old \in 1..Len(new) /\ keys'[j] = new[j - old]
    BY <2>3 DEF old
  <2>4. CASE j \in 1..old /\ keys'[j] = keys[j] /\ i - old \in 1..Len(new) /\ keys'[i] = new[i - old]
    BY <2>4 DEF old
  <2> QED
    BY <1>2, <2>1, <2>2, <2>3, <2>4
<1>7. ConflictsAreNew'
  <2> SUFFICES ASSUME NEW report \in Reports, conflicts'[report].status = "unresolved"
               PROVE  /\ conflicts'[report].detected <= Len(log')
                      /\ \A i \in 1..Len(keys') :
                           /\ keys'[i].kind \in Resolutions
                           /\ keys'[i].overall = report.overall /\ keys'[i].player = report.player
                           => keys'[i].at < conflicts'[report].detected
    BY Zenon DEF ConflictsAreNew, ResolutionOf
  <2>1. ASSUME NEW i \in 1..Len(keys'), keys'[i].kind \in Resolutions,
               keys'[i].overall = report.overall, keys'[i].player = report.player
        PROVE  i \in 1..old /\ keys'[i] = keys[i]
    <3>1. CASE i - old \in 1..Len(new) /\ keys'[i] = new[i - old]
      BY <2>1, <3>1
    <3> QED
      BY <1>2, <3>1
  <2>2. CASE conflicts'[report] = conflicts[report]
    <3>1. conflicts[report] \in Conflict /\ conflicts[report].detected \in Nat
      BY DEF RInv, ReconciliationTypeOK, Conflict
    <3>2. /\ conflicts[report].detected <= Len(log)
          /\ \A i \in 1..old : /\ keys[i].kind \in Resolutions
                              /\ keys[i].overall = report.overall /\ keys[i].player = report.player
                              => keys[i].at < conflicts[report].detected
      BY <2>2 DEF RInv, ConflictsAreNew, ResolutionOf, old
    <3>3. conflicts'[report].detected <= Len(log')
      BY <1>1, <2>2, <3>1, <3>2
    <3> QED
      BY <2>1, <2>2, <3>2, <3>3
  <2>3. CASE conflicts'[report].detected \in Len(log)..Len(log')
    <3>1. \A i \in 1..old : keys[i].kind \in Resolutions => keys[i].at < conflicts'[report].detected
      BY <1>1, <1>3, <2>3
    <3> QED
      BY <1>1, <2>1, <2>3, <3>1
  <2> QED
    BY <2>2, <2>3
<1> QED
  BY <1>5, <1>6, <1>7

(* What an operation needs of its keys and conflicts to keep the whole     *)
(* invariant.                                                              *)
LEMMA InvariantGoesOn ==
  ASSUME RInv, PlayGoesOn, NEW new \in Seq(Keys), keys' = keys \o new,
         Len(log') = Len(log) + Len(new), conflicts' \in [ Reports -> Conflict ], feed' = feed,
         \A i \in 1..Len(new) :
           /\ new[i].kind \in { "client", "mode" } => new[i].at = Len(keys) + i
           /\ new[i].kind \in Resolutions \cup { "complete" } => new[i].at < Len(keys) + i
           /\ \A j \in 1..Len(keys) : keys[j] # new[i]
           /\ \A j \in 1..Len(new) : new[j] = new[i] => i = j
           /\ \A report \in Reports :
                /\ new[i].kind \in Resolutions
                /\ new[i].overall = report.overall /\ new[i].player = report.player
                => conflicts'[report].status # "unresolved",
         \A report \in Reports :
           conflicts'[report].status = "unresolved" =>
             \/ conflicts'[report] = conflicts[report]
             \/ conflicts'[report].detected \in Len(log)..Len(log')
  PROVE  RInv'
<1>1. log' \in Seq(Event) /\ Len(log') \in Nat /\ Len(log) <= Len(log')
  BY LenProperties DEF PlayGoesOn, PlaySound, TypeOK
<1>2. keys \in Seq(Keys) /\ Len(keys) = Len(log) /\ Len(keys) \in Nat
  BY LenProperties DEF RInv, ReconciliationTypeOK
<1>3. keys' \in Seq(Keys) /\ Len(keys') = Len(log')
  <2>1. keys' \in Seq(Keys) /\ Len(keys') = Len(keys) + Len(new)
    BY KeysAppended
  <2> QED
    BY <1>2, <2>1
<1>4. KeysPlaced' /\ KeysDistinct' /\ ConflictsAreNew'
  BY <1>1, KeysGoOn
<1>5. feed' \in [ PickNumbers -> Players \cup {NoPlayer} ] /\ FeedReported'
  BY DEF RInv, ReconciliationTypeOK, FeedReported, ReportAt
<1>6. ReconciliationTypeOK' /\ PlaySound'
  BY <1>3, <1>5 DEF PlayGoesOn, PlaySound, ReconciliationTypeOK
<1> QED
  BY <1>4, <1>5, <1>6 DEF RInv

(* The keys an operation of the session uses are of the positions of its   *)
(* events.                                                                 *)
LEMMA SessionOperationKept ==
  ASSUME RInv, SessionOperation
  PROVE  RInv'
<1> DEFINE count == Len(log') - Len(log)
           new == [ i \in 1..count |-> Key("client", Len(log) + i) ]
<1>1. PlayGoesOn /\ keys' = keys \o new /\ conflicts' = conflicts /\ feed' = feed
  BY SoundPreserved DEF RInv, SessionOperation
<1>2. /\ keys \in Seq(Keys) /\ Len(keys) = Len(log) /\ Len(log) \in Nat
      /\ conflicts \in [ Reports -> Conflict ]
  BY LenProperties DEF RInv, ReconciliationTypeOK, PlaySound, TypeOK
<1>3. Len(log') \in Nat /\ count \in Nat
  BY <1>1, <1>2, LenProperties DEF PlayGoesOn, PlaySound, TypeOK
<1>4. \A i \in 1..count : Key("client", Len(log) + i) \in Keys
                         /\ Key("client", Len(log) + i).kind = "client"
                         /\ Key("client", Len(log) + i).at = Len(log) + i
  BY <1>2, <1>3, MaxPicksAssumption DEF Key, Keys, KeyKinds, SourceModes
<1> HIDE DEF count
<1>5. new \in [ 1..count -> Keys ]
  BY <1>4
<1>6. new \in Seq(Keys) /\ Len(new) = count
  BY <1>3, <1>5, CountedType, Zenon
<1>7. \A i \in 1..Len(new) : new[i].kind = "client" /\ new[i].at = Len(keys) + i
  BY <1>2, <1>4, <1>6
<1> HIDE DEF new
<1>8. ASSUME NEW i \in 1..Len(new)
      PROVE  /\ \A j \in 1..Len(keys) : keys[j] # new[i]
             /\ \A j \in 1..Len(new) : new[j] = new[i] => i = j
  <2>1. \A j \in 1..Len(keys) : keys[j].kind = "client" => keys[j].at = j
    BY DEF RInv, KeysPlaced
  <2>2. Len(new) \in Nat /\ new[i].kind = "client" /\ new[i].at = Len(keys) + i
    BY <1>3, <1>6, <1>7
  <2>3. \A j \in 1..Len(keys) : keys[j] # new[i]
    <3> SUFFICES ASSUME NEW j \in 1..Len(keys), keys[j] = new[i] PROVE FALSE
      OBVIOUS
    <3>1. new[i].at = j
      BY <2>1, <2>2
    <3> QED
      BY <1>2, <2>2, <3>1
  <2>4. \A j \in 1..Len(new) : new[j] = new[i] => i = j
    <3> SUFFICES ASSUME NEW j \in 1..Len(new), new[j] = new[i] PROVE i = j
      OBVIOUS
    <3>1. new[j].at = Len(keys) + j
      BY <1>7
    <3>2. Len(keys) + j = Len(keys) + i
      BY <2>2, <3>1
    <3> QED
      BY <1>2, <2>2, <3>2
  <2> QED
    BY <2>3, <2>4
<1>9. "client" \notin Resolutions /\ "client" # "complete"
  BY DEF Resolutions
<1>10. Len(log') = Len(log) + Len(new)
  BY <1>2, <1>3, <1>6 DEF count
<1> QED
  BY <1>1, <1>2, <1>6, <1>7, <1>8, <1>9, <1>10, InvariantGoesOn

(* What Yahoo shows stays a report. *)
LEMMA ScrapeKept ==
  ASSUME RInv, ScrapeDraftResult
  PROVE  RInv'
<1>1. PICK report \in Reports : feed' = [ feed EXCEPT ![report.overall] = report.player ]
  BY DEF ScrapeDraftResult
<1>2. /\ log' = log /\ board' = board /\ status' = status /\ setup' = setup
      /\ sourceMode' = sourceMode /\ inputs' = inputs /\ advice' = advice /\ roster' = roster
      /\ keys' = keys /\ conflicts' = conflicts
  BY DEF ScrapeDraftResult
<1>3. report \in [ overall : PickNumbers, player : Players ]
  BY ReportsAssumption
<1>4. feed \in [ PickNumbers -> Players \cup {NoPlayer} ]
  BY DEF RInv, ReconciliationTypeOK
<1>5. feed' \in [ PickNumbers -> Players \cup {NoPlayer} ]
  BY <1>1, <1>3, <1>4
<1>6. FeedReported'
  <2> SUFFICES ASSUME NEW n \in PickNumbers, feed'[n] # NoPlayer
               PROVE  [ overall |-> n, player |-> feed'[n] ] \in Reports
    BY DEF FeedReported, ReportAt
  <2>1. CASE n = report.overall
    <3>1. [ overall |-> n, player |-> feed'[n] ] = report
      BY <1>1, <1>3, <1>4, <2>1
    <3> QED
      BY <3>1
  <2>2. CASE n # report.overall
    BY <1>1, <1>3, <1>4, <2>2 DEF RInv, FeedReported, ReportAt
  <2> QED
    BY <2>1, <2>2
<1>7. PlaySound' /\ ReconciliationTypeOK'
  BY <1>2, <1>5 DEF RInv, PlaySound, ReconciliationTypeOK, TypeOK
<1>8. KeysPlaced' /\ KeysDistinct' /\ ConflictsAreNew'
  BY <1>2 DEF RInv, KeysPlaced, KeysDistinct, ConflictsAreNew, ResolutionOf
<1> QED
  BY <1>6, <1>7, <1>8 DEF RInv

(* So does the invariant when the owner dismisses a conflict. *)
LEMMA DismissKept ==
  ASSUME RInv, DismissConflict
  PROVE  RInv'
<1>1. PICK report \in Reports :
        conflicts' = [ conflicts EXCEPT ![report] = Settled("dismissed") ]
  BY DEF DismissConflict
<1>2. /\ log' = log /\ board' = board /\ status' = status /\ setup' = setup
      /\ sourceMode' = sourceMode /\ inputs' = inputs /\ advice' = advice /\ roster' = roster
      /\ keys' = keys /\ feed' = feed
  BY DEF DismissConflict
<1>3. conflicts \in [ Reports -> Conflict ] /\ Settled("dismissed") \in Conflict
  BY DEF RInv, ReconciliationTypeOK, Settled, Conflict, ConflictStatuses
<1>4. conflicts' \in [ Reports -> Conflict ]
  BY <1>1, <1>3
<1>5. PlaySound' /\ ReconciliationTypeOK' /\ FeedReported'
  BY <1>2, <1>4 DEF RInv, PlaySound, ReconciliationTypeOK, TypeOK, FeedReported, ReportAt
<1>6. KeysPlaced' /\ KeysDistinct'
  BY <1>2 DEF RInv, KeysPlaced, KeysDistinct
<1>7. \A r \in Reports : conflicts'[r].status = "unresolved" => conflicts'[r] = conflicts[r]
  BY <1>1, <1>3 DEF Settled
<1>8. ConflictsAreNew'
  BY <1>2, <1>7 DEF RInv, ConflictsAreNew, ResolutionOf
<1> QED
  BY <1>5, <1>6, <1>8 DEF RInv

(* A new source mode is an event of its own, of a kind of its own. *)
LEMMA ChangeModeKept ==
  ASSUME RInv, ChangeSourceMode
  PROVE  RInv'
<1>1. PICK mode \in SourceModes :
        /\ AppendSessionEvent("source_mode_changed")
        /\ keys' = Append(keys, [ Key("mode", Len(log) + 1) EXCEPT !.mode = mode ])
        /\ sourceMode' = mode
  BY DEF ChangeSourceMode
<1> DEFINE key == [ Key("mode", Len(log) + 1) EXCEPT !.mode = mode ]
           new == <<key>>
<1>2. /\ status' = status /\ setup' = setup /\ inputs' = inputs /\ roster' = roster
      /\ feed' = feed /\ conflicts' = conflicts /\ PublishOrCrash
  BY DEF ChangeSourceMode
<1>3. /\ keys \in Seq(Keys) /\ Len(keys) = Len(log) /\ Len(log) \in Nat /\ log \in Seq(Event)
      /\ conflicts \in [ Reports -> Conflict ]
  BY LenProperties DEF RInv, ReconciliationTypeOK, PlaySound, TypeOK
<1>4. PlayGoesOn
  <2>1. "source_mode_changed" \in EventTypes \ {"pick_recorded", "pick_replaced", "pick_reversed"}
    BY DEF EventTypes
  <2>2. StatusAfter("source_mode_changed", status) = status
    BY DEF StatusAfter, LifecycleStatus
  <2>3. /\ PlaySound /\ status' \in Statuses /\ inputs' \in Inputs /\ sourceMode' \in SourceModes
        /\ roster' \in [ Players -> RosterSpots ]
    BY <1>1, <1>2 DEF RInv, PlaySound, TypeOK
  <2> QED
    BY <1>1, <1>2, <2>1, <2>2, <2>3, SessionEventSound
<1>5. key \in Keys /\ key.kind = "mode" /\ key.at = Len(keys) + 1
  BY <1>3, MaxPicksAssumption DEF Key, Keys, KeyKinds
<1> HIDE DEF key
<1>6. new \in Seq(Keys) /\ Len(new) = 1 /\ new[1] = key /\ keys' = keys \o new
  <2>1. new \in Seq(Keys) /\ Len(new) = 1 /\ new[1] = key
    BY <1>5
  <2>2. keys' = Append(keys, key)
    BY <1>1 DEF key
  <2>3. Append(keys, key) = keys \o <<key>>
    BY <1>3, <1>5
  <2> QED
    BY <2>1, <2>2, <2>3
<1>7. log' = Append(log, SessionEvent("source_mode_changed"))
      /\ SessionEvent("source_mode_changed") \in Event
  BY <1>1, SessionEventType DEF AppendSessionEvent, EventTypes
<1>8. Len(log') = Len(log) + 1
  BY <1>3, <1>7, AppendProperties
<1>9. \A j \in 1..Len(keys) : keys[j] # key
  <2> SUFFICES ASSUME NEW j \in 1..Len(keys), keys[j] = key PROVE FALSE
    OBVIOUS
  <2>1. keys[j].kind \in {"client", "mode"} => keys[j].at = j
    BY DEF RInv, KeysPlaced
  <2> QED
    BY <1>3, <1>5, <2>1
<1> HIDE DEF new
<1>10. "mode" \notin Resolutions /\ "mode" # "complete" /\ \A i \in 1..Len(new) : i = 1
  BY <1>6 DEF Resolutions
<1> QED
  BY <1>2, <1>3, <1>4, <1>5, <1>6, <1>8, <1>9, <1>10, InvariantGoesOn

(* A sync that completes the draft appends one more event, under a key of  *)
(* the last event it applied.                                              *)
SyncDone == Batch.applied # 0 /\ PickCount(Batch.board) = Total /\ status = "LIVE"
SyncLogTail == IF SyncDone THEN <<SessionEvent("session_completed")>> ELSE <<>>
SyncKeyTail == IF SyncDone THEN <<Key("complete", Batch.applied)>> ELSE <<>>

(* The log a sync leaves. *)
LEMMA SyncLogs ==
  ASSUME RInv, ReconcileObservations
  PROVE  PlayGoesOn /\ Len(log') = LastEvent(Batch) + Len(SyncLogTail)
<1> DEFINE batch == Batch
           so == LogWith(batch)
<1>1. /\ log' = so \o SyncLogTail /\ board' = batch.board
      /\ setup' = setup /\ sourceMode' = sourceMode /\ inputs' = inputs /\ roster' = roster
      /\ status' = IF SyncDone THEN "COMPLETE" ELSE status
      /\ PublishOrCrash \/ advice' = advice
  BY DEF ReconcileObservations, SyncDone, SyncLogTail
<1>2. BatchSound(batch)
  BY SyncSound
<1> HIDE DEF batch
<1>3. /\ batch.board \in Boards /\ HasNoGaps(batch.board)
      /\ so \in Seq(Event) /\ Len(so) = LastEvent(batch) /\ Len(log) <= LastEvent(batch)
      /\ Len(log) \in Nat /\ LastEvent(batch) \in Nat
      /\ LogSound(so, batch.board, status)
  BY <1>2, BatchTypes DEF BatchSound
<1> HIDE DEF so
<1>4. PlaySound
  BY DEF RInv
<1>5. LogSound(log', board', status') /\ Len(log') = LastEvent(batch) + Len(SyncLogTail)
      /\ Len(log) <= Len(log')
  <2>1. CASE SyncDone
    <3> DEFINE e == SessionEvent("session_completed")
    <3>1. e \in Event /\ "session_completed" \in EventTypes \ {"pick_recorded", "pick_replaced", "pick_reversed"}
      BY SessionEventType DEF EventTypes
    <3>2. LogSound(Append(so, e), batch.board, StatusAfter("session_completed", status))
      BY <1>3, <3>1, SessionEventLogged
    <3>3. StatusAfter("session_completed", status) = "COMPLETE"
      BY DEF StatusAfter, LifecycleStatus
    <3>4. SyncLogTail = <<e>>
      BY <2>1 DEF SyncLogTail
    <3> HIDE DEF e
    <3>5. so \o <<e>> = Append(so, e) /\ Len(<<e>>) = 1
      BY <1>3, <3>1
    <3>6. Len(Append(so, e)) = Len(so) + 1
      BY <1>3, <3>1, AppendProperties
    <3>7. log' = Append(so, e) /\ status' = "COMPLETE" /\ board' = batch.board
      BY <1>1, <2>1, <3>4, <3>5
    <3>8. LogSound(log', board', status')
      BY <3>2, <3>3, <3>7
    <3>9. Len(SyncLogTail) = 1
      BY <3>4, <3>5
    <3> QED
      BY <1>3, <3>6, <3>7, <3>8, <3>9
  <2>2. CASE ~ SyncDone
    <3>1. SyncLogTail = <<>> /\ so \o <<>> = so /\ Len(<<>>) = 0
      BY <1>3, <2>2 DEF SyncLogTail
    <3> QED
      BY <1>1, <1>3, <2>2, <3>1
  <2> QED
    BY <2>1, <2>2
<1>6. log' \in Seq(Event)
  BY <1>5 DEF LogSound
<1>7. advice' \in 0..Len(log')
  <2>1. Len(log') \in Nat
    BY <1>6, LenProperties
  <2> QED
    BY <1>1, <1>3, <1>4, <1>5, <1>6, <2>1, AdviceAfterPublishing DEF PlaySound, TypeOK
<1>8. TypeOK'
  BY <1>1, <1>3, <1>4, <1>6, <1>7 DEF PlaySound, TypeOK, Boards, Statuses
<1> QED
  BY <1>1, <1>3, <1>5, <1>8 DEF PlaySound, PlayGoesOn, batch

(* The keys a sync uses are new, and its conflicts newer than the log. *)
LEMMA SyncKept ==
  ASSUME RInv, ReconcileObservations
  PROVE  RInv'
<1> DEFINE batch == Batch
           new == batch.keys \o SyncKeyTail
           count == Len(batch.keys)
<1>1. /\ keys' = keys \o batch.keys \o SyncKeyTail /\ conflicts' = batch.conflicts
      /\ feed' = feed
  BY DEF ReconcileObservations, SyncDone, SyncKeyTail
<1>2. BatchSound(batch)
  BY SyncSound
<1>3. PlayGoesOn /\ Len(log') = LastEvent(batch) + Len(SyncLogTail)
  BY SyncLogs
<1>4. /\ SyncKeyTail = IF SyncDone THEN <<Key("complete", batch.applied)>> ELSE <<>>
      /\ SyncDone => batch.applied # 0
  BY DEF SyncKeyTail, SyncDone
<1>5. /\ batch.keys \in Seq(Keys) /\ count \in Nat /\ Len(log) \in Nat
      /\ LastEvent(batch) = Len(log) + count /\ batch.applied \in Nat
      /\ batch.conflicts \in [ Reports -> Conflict ]
  <2>1. batch \in Batches /\ batch.keys \in Seq(Keys) /\ Len(batch.keys) = Len(batch.events)
        /\ Len(log) \in Nat
    BY <1>2, BatchTypes
  <2> QED
    BY <2>1, LenProperties DEF Batches, LastEvent
<1>6. keys \in Seq(Keys) /\ Len(keys) = Len(log)
  BY DEF RInv, ReconciliationTypeOK
<1>7. /\ batch.applied = 0 \/ batch.applied \in (Len(log) + 1)..LastEvent(batch)
      /\ \A i \in 1..count : /\ batch.keys[i].kind = "yahoo"
                             /\ \A j \in 1..Len(keys) : keys[j] # batch.keys[i]
                             /\ \A j \in 1..count : batch.keys[j] = batch.keys[i] => i = j
  BY <1>2 DEF BatchSound
<1>8. \A report \in Reports :
        batch.conflicts[report].status = "unresolved" =>
          \/ batch.conflicts[report] = conflicts[report]
          \/ batch.conflicts[report].detected \in Len(log)..LastEvent(batch)
  BY <1>2 DEF BatchSound
<1> DEFINE last == Key("complete", batch.applied)
<1>9. last \in Keys /\ last.kind = "complete" /\ last.at = batch.applied
  BY <1>5, MaxPicksAssumption DEF Key, Keys, KeyKinds, SourceModes
<1> HIDE DEF batch, last, count
<1>10. SyncKeyTail \in Seq(Keys)
       /\ Len(SyncKeyTail) = (IF SyncDone THEN 1 ELSE 0)
       /\ (SyncDone => SyncKeyTail[1] = last)
  <2>1. CASE SyncDone
    <3>1. SyncKeyTail = <<last>>
      BY <1>4, <2>1 DEF last
    <3> QED
      BY <1>9, <2>1, <3>1
  <2>2. CASE ~ SyncDone
    BY <1>4, <2>2
  <2> QED
    BY <2>1, <2>2
<1>11. Len(SyncLogTail) = Len(SyncKeyTail)
  BY <1>10 DEF SyncLogTail
<1>12. /\ new \in Seq(Keys) /\ Len(new) = count + Len(SyncKeyTail)
       /\ \A i \in 1..Len(new) : \/ i \in 1..count /\ new[i] = batch.keys[i]
                                 \/ SyncDone /\ i = count + 1 /\ new[i] = last
  <2>1. new = batch.keys \o SyncKeyTail
    OBVIOUS
  <2> HIDE DEF new
  <2>2. /\ new \in Seq(Keys) /\ Len(new) = count + Len(SyncKeyTail)
        /\ \A i \in 1..Len(new) : \/ i \in 1..count /\ new[i] = batch.keys[i]
                                  \/ /\ i - count \in 1..Len(SyncKeyTail)
                                     /\ new[i] = SyncKeyTail[i - count]
    <3>1. batch.keys \in Seq(Keys) /\ SyncKeyTail \in Seq(Keys)
      BY <1>5, <1>10
    <3> QED
      BY <2>1, <3>1, ConcatElements DEF count
  <2>3. ASSUME NEW i \in 1..Len(new), i - count \in 1..Len(SyncKeyTail)
        PROVE  SyncDone /\ i = count + 1 /\ i - count = 1
    <3>1. Len(new) \in Nat /\ i \in Nat
      BY <2>2, LenProperties
    <3> QED
      BY <1>5, <1>10, <2>3, <3>1
  <2> QED
    BY <1>10, <2>2, <2>3
<1>13. keys' = keys \o new
  <2>0. batch.keys \in Seq(Keys) /\ SyncKeyTail \in Seq(Keys) /\ keys \in Seq(Keys)
    BY <1>5, <1>6, <1>10
  <2>1. keys' = keys \o batch.keys \o SyncKeyTail /\ new = batch.keys \o SyncKeyTail
    BY <1>1 DEF batch
  <2> HIDE DEF new
  <2> DEFINE mine == batch.keys
             tail == SyncKeyTail
             all == keys \o mine \o tail
  <2>2. /\ mine \in Seq(Keys) /\ tail \in Seq(Keys) /\ keys \in Seq(Keys)
        /\ new = mine \o tail /\ all = keys \o mine \o tail /\ keys' = all
    BY <2>0, <2>1
  <2> HIDE DEF mine, tail, all
  <2>3. all = keys \o new
    BY <2>2, ConcatOnce
  <2> QED
    BY <2>2, <2>3
<1> HIDE DEF new
<1>14. Len(log') = Len(log) + Len(new)
  <2>1. Len(log') = LastEvent(batch) + Len(SyncLogTail)
    BY <1>3 DEF batch
  <2>2. Len(SyncKeyTail) \in Nat
    BY <1>10
  <2> QED
    BY <1>5, <1>11, <1>12, <2>1, <2>2
<1>15. SyncDone => \A j \in 1..Len(keys) : keys[j] # last
  <2> SUFFICES ASSUME SyncDone, NEW j \in 1..Len(keys), keys[j] = last PROVE FALSE
    OBVIOUS
  <2>1. keys[j].kind = "complete" => keys[j].at < j
    BY DEF RInv, KeysPlaced
  <2> QED
    BY <1>4, <1>5, <1>6, <1>7, <1>9, <2>1
<1>16. ASSUME NEW i \in 1..Len(new)
       PROVE  /\ new[i].kind \in { "client", "mode" } => new[i].at = Len(keys) + i
              /\ new[i].kind \in Resolutions \cup { "complete" } => new[i].at < Len(keys) + i
              /\ \A j \in 1..Len(keys) : keys[j] # new[i]
              /\ \A j \in 1..Len(new) : new[j] = new[i] => i = j
              /\ new[i].kind \notin Resolutions
  <2>1. \/ new[i].kind = "yahoo"
        \/ new[i].kind = "complete" /\ SyncDone /\ i = count + 1 /\ new[i] = last
    BY <1>7, <1>9, <1>12
  <2>2. new[i].kind = "complete" => new[i].at < Len(keys) + i
    BY <1>4, <1>5, <1>6, <1>7, <1>9, <2>1
  <2>3. \A j \in 1..Len(keys) : keys[j] # new[i]
    BY <1>7, <1>12, <1>15
  <2>4. \A j \in 1..Len(new) : new[j] = new[i] => i = j
    <3> SUFFICES ASSUME NEW j \in 1..Len(new), new[j] = new[i] PROVE i = j
      OBVIOUS
    <3>1. CASE i \in 1..count /\ new[i] = batch.keys[i]
      <4>1. j \in 1..count /\ new[j] = batch.keys[j]
        BY <1>7, <1>9, <1>12, <3>1
      <4> QED
        BY <1>7, <3>1, <4>1
    <3>2. CASE SyncDone /\ i = count + 1 /\ new[i] = last
      <4>1. j = count + 1
        BY <1>7, <1>9, <1>12, <3>2
      <4> QED
        BY <3>2, <4>1
    <3> QED
      BY <1>12, <3>1, <3>2
  <2> QED
    BY <2>1, <2>2, <2>3, <2>4 DEF Resolutions
<1>17. \A report \in Reports :
         conflicts'[report].status = "unresolved" =>
           \/ conflicts'[report] = conflicts[report]
           \/ conflicts'[report].detected \in Len(log)..Len(log')
  <2>1. LastEvent(batch) <= Len(log') /\ LastEvent(batch) \in Nat /\ Len(log') \in Nat
    BY <1>3, <1>5, <1>10, <1>11 DEF batch
  <2>2. \A d \in Len(log)..LastEvent(batch) : d \in Len(log)..Len(log')
    BY <1>5, <2>1
  <2> QED
    BY <1>1, <1>8, <2>2 DEF batch
<1>18. conflicts' \in [ Reports -> Conflict ] /\ feed' = feed
  BY <1>1, <1>5 DEF batch
<1> QED
  BY <1>3, <1>12, <1>13, <1>14, <1>16, <1>17, <1>18, InvariantGoesOn

(* Pick events appended outside append_pick_event keep the log sound when  *)
(* the board they leave is.                                                *)
LEMMA PicksAdded ==
  ASSUME PlaySound, NEW events \in Seq(Event), NEW b \in Boards, HasNoGaps(b),
         LogSound(log \o events, b, status), log' = log \o events, board' = b,
         UNCHANGED << status, setup, sourceMode, inputs, roster >>, PublishOrCrash
  PROVE  PlayGoesOn /\ Len(log') = Len(log) + Len(events)
<1>1. log \in Seq(Event) /\ Len(log) \in Nat /\ Len(events) \in Nat
  BY LenProperties DEF PlaySound, TypeOK
<1>2. log' \in Seq(Event) /\ Len(log') = Len(log) + Len(events)
  <2>1. log \o events \in Seq(Event) /\ Len(log \o events) = Len(log) + Len(events)
    BY <1>1, ConcatType
  <2> QED
    BY <2>1
<1>3. LogSound(log', board', status')
  OBVIOUS
<1>4. Len(log) <= Len(log')
  BY <1>1, <1>2
<1>5. advice' \in 0..Len(log')
  BY <1>1, <1>2, <1>4, AdviceAfterPublishing DEF PlaySound, TypeOK
<1>6. TypeOK'
  BY <1>2, <1>5 DEF PlaySound, TypeOK, Boards
<1> QED
  BY <1>2, <1>3, <1>4, <1>6 DEF PlaySound, PlayGoesOn

(* A pick accepted for an open place, the next one, is recorded there. *)
LEMMA AcceptOpenLogged ==
  ASSUME RInv, NEW n \in PickNumbers, n = PickCount(board) + 1, NEW p \in Players,
         NEW e, e = PickEvent("pick_recorded", n, TeamOf(n), p, 0,
                              OwnerAdvice(EmptyBatch, TeamOf(n)))
  PROVE  LET b == [ board EXCEPT ![n] = Pick(Len(log) + 1, p, TeamOf(n)) ]
         IN  /\ <<e>> \in Seq(Event) /\ Len(<<e>>) = 1
             /\ LogSound(log \o <<e>>, b, status) /\ b \in Boards /\ HasNoGaps(b)
<1> DEFINE pick == Pick(Len(log) + 1, p, TeamOf(n))
           b == [ board EXCEPT ![n] = pick ]
<1>1. /\ log \in Seq(Event) /\ board \in Boards /\ Len(log) \in Nat /\ advice \in 0..Len(log)
      /\ PlaySound
  BY LenProperties DEF RInv, PlaySound, TypeOK, Boards
<1>2. TeamOf(n) \in Nat \ {0}
  BY TeamOfPick
<1>3. OwnerAdvice(EmptyBatch, TeamOf(n)) \in Nat
  <2>1. AdviceOf(EmptyBatch) \in {advice, 0}
    BY DEF AdviceOf
  <2> QED
    BY <1>1, <2>1 DEF OwnerAdvice
<1>4. /\ e \in Event /\ e.type = "pick_recorded" /\ e.overall = n /\ e.player = p
      /\ e.team = TeamOf(n)
  <2>1. "pick_recorded" \in EventTypes /\ TeamOf(n) \in Nat /\ 0 \in Nat
        /\ p \in Players \cup {NoPlayer}
    BY <1>2 DEF EventTypes
  <2> QED
    BY <1>3, <2>1, PickEventType
<1>5. pick \in ReducedPick
  BY <1>1, <1>2 DEF Pick, ReducedPick
<1>6. LogSound(Append(log, e), b, status)
  BY <1>1, <1>4, PickLogged DEF PlaySound
<1> HIDE DEF pick
<1>7. b \in Boards /\ HasNoGaps(b)
  BY <1>1, <1>5, PlacedNext DEF PlaySound
<1>8. Append(log, e) = log \o <<e>> /\ <<e>> \in Seq(Event) /\ Len(<<e>>) = 1
  BY <1>1, <1>4
<1> QED
  BY <1>6, <1>7, <1>8 DEF pick

(* The key of a resolution is of the open conflict it resolves, so no      *)
(* earlier resolution of that report has it.                               *)
LEMMA ResolutionKeyNew ==
  ASSUME RInv, NEW r \in Reports, conflicts[r].status = "unresolved", NEW kind \in Resolutions,
         NEW key, key = ResolutionKey(kind, r, conflicts[r].detected)
  PROVE  /\ key \in Keys /\ key.kind = kind /\ key.at <= Len(keys) /\ key.at \in Nat
         /\ key.overall = r.overall /\ key.player = r.player
         /\ \A j \in 1..Len(keys) : keys[j] # key
<1>1. r.overall \in PickNumbers /\ r.player \in Players
  BY ReportsAssumption
<1>2. conflicts[r] \in Conflict /\ conflicts[r].detected <= Len(log) /\ Len(keys) = Len(log)
  BY DEF RInv, ReconciliationTypeOK, ConflictsAreNew
<1>3. conflicts[r].detected \in Nat
  BY <1>2 DEF Conflict
<1>4. r.overall \in 0..MaxPicks /\ ManualMode \in SourceModes /\ kind \in KeyKinds
  BY <1>1, MaxPicksAssumption DEF PickNumbers, SourceModes, Resolutions, KeyKinds
<1>5. key = [ kind |-> kind, mode |-> ManualMode, overall |-> r.overall,
              player |-> r.player, at |-> conflicts[r].detected ]
  BY DEF ResolutionKey, ReportKey
<1>6. /\ key \in Keys /\ key.kind = kind /\ key.at = conflicts[r].detected
      /\ key.overall = r.overall /\ key.player = r.player
  BY <1>1, <1>3, <1>4, <1>5 DEF Keys
<1>7. ASSUME NEW j \in 1..Len(keys), keys[j] = key PROVE FALSE
  <2>1. ResolutionOf(j, r)
    BY <1>6, <1>7 DEF ResolutionOf
  <2>2. keys[j].at < conflicts[r].detected
    BY <2>1 DEF RInv, ConflictsAreNew
  <2> QED
    BY <1>3, <1>6, <1>7, <2>2
<1> QED
  BY <1>2, <1>3, <1>6, <1>7

(* Keys of resolutions of one conflict, which they close, go on from those *)
(* of the log.                                                             *)
LEMMA ResolutionKept ==
  ASSUME RInv, PlayGoesOn, NEW r \in Reports, conflicts[r].status = "unresolved",
         NEW new \in Seq(Keys), keys' = keys \o new, Len(log') = Len(log) + Len(new),
         conflicts' = [ conflicts EXCEPT ![r] = Settled("accepted") ], feed' = feed,
         \A i \in 1..Len(new) :
           /\ \E kind \in Resolutions :
                new[i] = ResolutionKey(kind, r, conflicts[r].detected)
           /\ \A j \in 1..Len(new) : new[j] = new[i] => i = j
  PROVE  RInv'
<1>1. conflicts \in [ Reports -> Conflict ] /\ Len(keys) \in Nat
  BY LenProperties DEF RInv, ReconciliationTypeOK
<1>2. conflicts' \in [ Reports -> Conflict ] /\ conflicts'[r].status = "accepted"
      /\ \A report \in Reports : report # r => conflicts'[report] = conflicts[report]
  BY <1>1 DEF Settled, Conflict, ConflictStatuses
<1>3. ASSUME NEW i \in 1..Len(new)
      PROVE  /\ new[i].kind \in Resolutions /\ new[i].at < Len(keys) + i
             /\ new[i].overall = r.overall /\ new[i].player = r.player
             /\ \A j \in 1..Len(keys) : keys[j] # new[i]
  <2>1. PICK kind \in Resolutions : new[i] = ResolutionKey(kind, r, conflicts[r].detected)
    OBVIOUS
  <2>2. /\ new[i].kind = kind /\ new[i].at <= Len(keys) /\ new[i].at \in Nat
        /\ new[i].overall = r.overall /\ new[i].player = r.player
        /\ \A j \in 1..Len(keys) : keys[j] # new[i]
    BY <2>1, ResolutionKeyNew
  <2>3. i \in Nat \ {0}
    BY LenProperties
  <2> QED
    BY <1>1, <2>2, <2>3
<1>4. ASSUME NEW report \in Reports, report.overall = r.overall, report.player = r.player
      PROVE  conflicts'[report].status # "unresolved"
  <2>1. report = r
    BY <1>4, ReportsAssumption
  <2> QED
    BY <1>2, <2>1
<1>5. \A report \in Reports :
        conflicts'[report].status = "unresolved" => conflicts'[report] = conflicts[report]
  BY <1>2
<1>6. "client" \notin Resolutions /\ "mode" \notin Resolutions
  BY DEF Resolutions
<1>7. \A i \in 1..Len(new) :
        /\ new[i].kind \in { "client", "mode" } => new[i].at = Len(keys) + i
        /\ new[i].kind \in Resolutions \cup { "complete" } => new[i].at < Len(keys) + i
        /\ \A j \in 1..Len(keys) : keys[j] # new[i]
        /\ \A j \in 1..Len(new) : new[j] = new[i] => i = j
        /\ \A report \in Reports :
             /\ new[i].kind \in Resolutions
             /\ new[i].overall = report.overall /\ new[i].player = report.player
             => conflicts'[report].status # "unresolved"
  BY <1>3, <1>4, <1>6
<1> QED
  BY <1>2, <1>5, <1>7, InvariantGoesOn

(* Accepting a conflict replaces the pick it is about, or records it as    *)
(* the next one, whatever the status of the session.                       *)
LEMMA AcceptKept ==
  ASSUME RInv, AcceptConflict
  PROVE  RInv'
<1>1. PICK r \in Reports, p \in Identified :
        LET n == r.overall
            detected == conflicts[r].detected
            team == IF board[n] = Open THEN TeamOf(n) ELSE board[n].team
            events ==
              IF board[n] = Open
              THEN <<PickEvent("pick_recorded", n, team, p, 0, OwnerAdvice(EmptyBatch, team))>>
              ELSE <<ReversalEvent(n), PickEvent("pick_replaced", n, team, p, board[n].event, 0)>>
            newKeys ==
              IF board[n] = Open THEN <<ResolutionKey("resolve", r, detected)>>
              ELSE <<ResolutionKey("resolve_reverse", r, detected),
                     ResolutionKey("resolve", r, detected)>>
        IN  /\ conflicts[r].status = "unresolved"
            /\ board[n] = Open => n = PickCount(board) + 1
            /\ log' = log \o events
            /\ keys' = keys \o newKeys
            /\ board' = [ board EXCEPT ![n] = Pick(Len(log'), p, team) ]
            /\ conflicts' = [ conflicts EXCEPT ![r] = Settled("accepted") ]
            /\ UNCHANGED << status, setup, sourceMode, inputs, roster, feed >>
            /\ PublishOrCrash
  BY Zenon DEF AcceptConflict
<1> DEFINE n == r.overall
           k == ResolutionKey("resolve", r, conflicts[r].detected)
           kr == ResolutionKey("resolve_reverse", r, conflicts[r].detected)
<1>2. /\ conflicts[r].status = "unresolved"
      /\ conflicts' = [ conflicts EXCEPT ![r] = Settled("accepted") ]
      /\ UNCHANGED << status, setup, sourceMode, inputs, roster >> /\ feed' = feed
      /\ PublishOrCrash
  BY <1>1
<1>3. n \in PickNumbers /\ p \in Players
  BY ReportsAssumption, IdentifiedAssumption
<1>4. "resolve" \in Resolutions /\ "resolve_reverse" \in Resolutions
  BY DEF Resolutions
<1>5. k \in Keys /\ k.kind = "resolve" /\ kr \in Keys /\ kr.kind = "resolve_reverse"
  BY <1>2, <1>4, ResolutionKeyNew
<1>6. PlaySound
  BY DEF RInv
<1>7. CASE board[n] = Open
  <2> DEFINE e == PickEvent("pick_recorded", n, TeamOf(n), p, 0, OwnerAdvice(EmptyBatch, TeamOf(n)))
             b == [ board EXCEPT ![n] = Pick(Len(log) + 1, p, TeamOf(n)) ]
             new == <<k>>
  <2>1. /\ n = PickCount(board) + 1 /\ log' = log \o <<e>> /\ keys' = keys \o new
        /\ board' = [ board EXCEPT ![n] = Pick(Len(log'), p, TeamOf(n)) ]
    BY <1>1, <1>7
  <2>2. /\ <<e>> \in Seq(Event) /\ Len(<<e>>) = 1
        /\ LogSound(log \o <<e>>, b, status) /\ b \in Boards /\ HasNoGaps(b)
    BY <1>3, <2>1, AcceptOpenLogged
  <2> HIDE DEF e, k
  <2>3. Len(log') = Len(log) + 1
    <3>1. log \in Seq(Event) /\ Len(log \o <<e>>) = Len(log) + Len(<<e>>)
      BY <1>6, <2>2, ConcatType DEF PlaySound, TypeOK
    <3> QED
      BY <2>1, <2>2, <3>1
  <2>4. board' = b
    BY <2>1, <2>3
  <2>5. PlayGoesOn
    BY <1>2, <1>6, <2>1, <2>2, <2>4, PicksAdded
  <2>6. new \in Seq(Keys) /\ Len(new) = 1 /\ new[1] = k
    BY <1>5
  <2> HIDE DEF new
  <2>7. \A i \in 1..Len(new) :
          /\ \E kind \in Resolutions : new[i] = ResolutionKey(kind, r, conflicts[r].detected)
          /\ \A j \in 1..Len(new) : new[j] = new[i] => i = j
    <3>1. \A i \in 1..Len(new) : i = 1
      BY <2>6
    <3> QED
      BY <1>4, <2>6, <3>1 DEF k
  <2> QED
    BY <1>2, <2>1, <2>3, <2>5, <2>6, <2>7, ResolutionKept
<1>8. CASE board[n] # Open
  <2> DEFINE f == PickEvent("pick_replaced", n, board[n].team, p, board[n].event, 0)
             b == [ board EXCEPT ![n] = Pick(Len(log) + 2, p, board[n].team) ]
             events == <<ReversalEvent(n), f>>
             new == <<kr, k>>
  <2>1. /\ log' = log \o events /\ keys' = keys \o new
        /\ board' = [ board EXCEPT ![n] = Pick(Len(log'), p, board[n].team) ]
    BY <1>1, <1>8
  <2>2. n \in Filled(board)
    BY <1>3, <1>8 DEF Filled
  <2>3. events \in Seq(Event) /\ LogSound(log \o events, b, status)
        /\ b \in Boards /\ HasNoGaps(b)
    BY <1>3, <1>6, <2>2, ReplacementLogged
  <2>4. Len(events) = 2
    OBVIOUS
  <2> HIDE DEF f, events, k, kr
  <2>5. Len(log') = Len(log) + 2
    <3>1. log \in Seq(Event) /\ Len(log \o events) = Len(log) + Len(events)
      BY <1>6, <2>3, ConcatType DEF PlaySound, TypeOK
    <3> QED
      BY <2>1, <2>4, <3>1
  <2>6. board' = b
    BY <2>1, <2>5
  <2>7. PlayGoesOn
    BY <1>2, <1>6, <2>1, <2>3, <2>6, PicksAdded
  <2>8. new \in Seq(Keys) /\ Len(new) = 2 /\ new[1] = kr /\ new[2] = k
    BY <1>5
  <2> HIDE DEF new
  <2>9. \A i \in 1..Len(new) :
          /\ \E kind \in Resolutions : new[i] = ResolutionKey(kind, r, conflicts[r].detected)
          /\ \A j \in 1..Len(new) : new[j] = new[i] => i = j
    <3>1. \A i \in 1..Len(new) : i = 1 \/ i = 2
      BY <2>8
    <3>2. kr # k
      BY <1>5
    <3>3. \A i \in 1..Len(new) : \A j \in 1..Len(new) : new[j] = new[i] => i = j
      BY <2>8, <3>1, <3>2
    <3>4. \A i \in 1..Len(new) :
            \E kind \in Resolutions : new[i] = ResolutionKey(kind, r, conflicts[r].detected)
      BY <1>4, <2>8, <3>1 DEF k, kr
    <3> QED
      BY <3>3, <3>4
  <2> QED
    BY <1>2, <2>1, <2>5, <2>7, <2>8, <2>9, ResolutionKept
<1> QED
  BY <1>7, <1>8

(* A session is created with nothing to reconcile. *)
LEMMA ReconciliationInitially == ReconciliationInit => RInv
<1> SUFFICES ASSUME ReconciliationInit PROVE RInv
  OBVIOUS
<1>1. PlaySound /\ log = <<>>
  BY SoundInitially DEF ReconciliationInit, Init
<1>2. /\ keys = <<>> /\ feed = [ n \in PickNumbers |-> NoPlayer ]
      /\ conflicts = [ report \in Reports |-> NoConflict ]
  BY DEF ReconciliationInit
<1>3. keys \in Seq(Keys) /\ Len(keys) = 0 /\ Len(log) = 0
  BY <1>1, <1>2
<1>4. NoConflict \in Conflict /\ NoConflict.status = "none"
  BY DEF NoConflict, Settled, Conflict, ConflictStatuses
<1>5. /\ conflicts \in [ Reports -> Conflict ]
      /\ \A report \in Reports : conflicts[report].status # "unresolved"
  BY <1>2, <1>4
<1>6. feed \in [ PickNumbers -> Players \cup {NoPlayer} ] /\ FeedReported
  BY <1>2 DEF FeedReported
<1>7. ReconciliationTypeOK
  BY <1>1, <1>3, <1>5, <1>6 DEF ReconciliationTypeOK, PlaySound
<1>8. KeysPlaced /\ KeysDistinct
  BY <1>3 DEF KeysPlaced, KeysDistinct
<1>9. ConflictsAreNew
  BY <1>5 DEF ConflictsAreNew
<1> QED
  BY <1>1, <1>6, <1>7, <1>8, <1>9 DEF RInv

(* Every step of a reconciled session keeps the invariant. *)
LEMMA ReconciliationPreserved == RInv /\ [ReconciliationNext]_reconciliationVars => RInv'
<1> SUFFICES ASSUME RInv, [ReconciliationNext]_reconciliationVars PROVE RInv'
  OBVIOUS
<1>1. CASE UNCHANGED reconciliationVars
  <2>1. /\ log' = log /\ board' = board /\ status' = status /\ setup' = setup
        /\ sourceMode' = sourceMode /\ inputs' = inputs /\ advice' = advice /\ roster' = roster
        /\ keys' = keys /\ feed' = feed /\ conflicts' = conflicts
    BY <1>1 DEF reconciliationVars
  <2>2. PlaySound' /\ ReconciliationTypeOK' /\ FeedReported'
    BY <2>1 DEF RInv, PlaySound, ReconciliationTypeOK, TypeOK, FeedReported, ReportAt
  <2>3. KeysPlaced' /\ KeysDistinct' /\ ConflictsAreNew'
    BY <2>1 DEF RInv, KeysPlaced, KeysDistinct, ConflictsAreNew, ResolutionOf
  <2> QED
    BY <2>2, <2>3 DEF RInv
<1>2. CASE ReconciliationNext
  BY <1>2, SessionOperationKept, ScrapeKept, SyncKept, DismissKept, AcceptKept, ChangeModeKept
     DEF ReconciliationNext
<1> QED
  BY <1>1, <1>2

(* The invariant holds throughout a reconciled session. *)
LEMMA ReconciliationHolds == ReconciliationSpec => []RInv
  BY ReconciliationInitially, ReconciliationPreserved, PTL DEF ReconciliationSpec

(* Manual entry, syncs and resolutions together keep the board gap-free    *)
(* and equal to what the log reduces to, and every idempotency key unique. *)
THEOREM ReconciledLogStaysSound == ReconciliationSpec => []ReconciledLogIsSound
<1>1. RInv => ReconciledLogIsSound
  <2> SUFFICES ASSUME RInv PROVE ReconciledLogIsSound
    OBVIOUS
  <2>1. PlaySound /\ board \in Boards /\ HasNoGaps(board)
    BY DEF RInv, PlaySound, TypeOK, Boards
  <2>2. GapFree
    BY <2>1, NextPickOf DEF GapFree
  <2>3. BoardIsReduction
    BY <2>1, SoundIsReduction
  <2> QED
    BY <2>2, <2>3 DEF RInv, ReconciledLogIsSound
<1> QED
  BY <1>1, ReconciliationHolds, PTL

(* A conflict the owner dismissed is never raised again: no sync, undo,    *)
(* replacement or resolution changes it.                                   *)
THEOREM DismissalsStand == ReconciliationSpec => DismissalStands
<1>1. RInv /\ [ReconciliationNext]_reconciliationVars => DismissalKept
  <2> SUFFICES ASSUME RInv, [ReconciliationNext]_reconciliationVars,
                      NEW r \in Reports, conflicts[r].status = "dismissed"
               PROVE  conflicts'[r] = conflicts[r]
    BY DEF DismissalKept
  <2>1. CASE ReconcileObservations
    BY <2>1, SyncSound DEF ReconcileObservations, BatchSound
  <2>2. CASE DismissConflict \/ AcceptConflict
    <3>1. PICK report \in Reports, way \in {"dismissed", "accepted"} :
            /\ conflicts[report].status = "unresolved"
            /\ conflicts' = [ conflicts EXCEPT ![report] = Settled(way) ]
      BY <2>2 DEF DismissConflict, AcceptConflict
    <3>2. r # report /\ conflicts \in [ Reports -> Conflict ]
      BY <3>1 DEF RInv, ReconciliationTypeOK
    <3> QED
      BY <3>1, <3>2
  <2>3. CASE \/ SessionOperation \/ ScrapeDraftResult \/ ChangeSourceMode
             \/ UNCHANGED reconciliationVars
    BY <2>3 DEF SessionOperation, ScrapeDraftResult, ChangeSourceMode, reconciliationVars
  <2> QED
    BY <2>1, <2>2, <2>3 DEF ReconciliationNext
<1>2. RInv /\ [ReconciliationNext]_reconciliationVars => [DismissalKept]_reconciliationVars
  BY <1>1
<1> QED
  BY <1>2, ReconciliationHolds, PTL DEF ReconciliationSpec, DismissalStands

----------------------------------------------------------------------------
(* What a sync does, pick by pick.                                         *)

(* The step of a pass at pick n. *)
PassStep(f, n) ==
  IF feed[n] = NoPlayer THEN f[n] = f[n - 1]
  ELSE Touched(f[n - 1], f[n], n) /\ Untouched(f[n - 1], f[n], n)

(* Every pass makes such steps. *)
LEMMA PassStepOf ==
  ASSUME RInv, NEW start, BatchSound(start), NEW f, Passes(start, MaxPicks, f),
         NEW n \in PickNumbers
  PROVE  BatchSound(f[n - 1]) /\ PassStep(f, n)
<1>1. n - 1 \in 0..MaxPicks
  BY MaxPicksAssumption DEF PickNumbers
<1>2. BatchSound(f[n - 1])
  BY <1>1, PassSound
<1>3. f[n] = IF feed[n] = NoPlayer THEN f[n - 1] ELSE Reconcile(f[n - 1], ReportAt(n))
  BY PassSteps
<1> QED
  BY <1>2, <1>3, ReportFrame DEF PassStep

(* What the passes after pick m leave of what it did: the pick, the        *)
(* conflict about it, and every key used.                                  *)
Keeps(batch, after, m) ==
  /\ after.board[m] = batch.board[m]
  /\ feed[m] # NoPlayer => after.conflicts[ReportAt(m)] = batch.conflicts[ReportAt(m)]
  /\ \A key : KeyUsed(batch, key) => KeyUsed(after, key)

(* Up to pick n a pass has not touched the later picks, and keeps what it  *)
(* did at the earlier ones.                                                *)
LEMMA PassFrame ==
  ASSUME RInv, NEW start, BatchSound(start), NEW f, Passes(start, MaxPicks, f)
  PROVE  \A n \in 0..MaxPicks :
           /\ \A m \in PickNumbers : m > n => f[n].board[m] = start.board[m]
           /\ \A m \in PickNumbers : m <= n => Keeps(f[m], f[n], m)
<1> DEFINE P(n) == /\ \A m \in PickNumbers : m > n => f[n].board[m] = start.board[m]
                   /\ \A m \in PickNumbers : m <= n => Keeps(f[m], f[n], m)
           S == { n \in 0..MaxPicks : P(n) }
<1>1. 0 \in S
  <2>1. f[0] = start
    BY PassSteps
  <2>2. \A m \in PickNumbers : ~ (m <= 0)
    BY DEF PickNumbers
  <2> QED
    BY <2>1, <2>2, MaxPicksAssumption
<1>2. ASSUME NEW n \in PickNumbers, n - 1 \in S PROVE n \in S
  <2>1. PassStep(f, n)
    BY PassStepOf
  <2>2. n \in 0..MaxPicks /\ n \in Nat /\ PickNumbers \subseteq Nat
    BY MaxPicksAssumption DEF PickNumbers
  <2>3. ASSUME NEW m \in PickNumbers \ {n} PROVE Keeps(f[n - 1], f[n], m)
    <3>1. CASE feed[n] = NoPlayer
      BY <2>1, <3>1 DEF PassStep, Keeps
    <3>2. CASE feed[n] # NoPlayer
      <4>1. Untouched(f[n - 1], f[n], n)
        BY <2>1, <3>2 DEF PassStep
      <4>2. ReportAt(m) # ReportAt(n)
        BY DEF ReportAt
      <4>3. feed[m] # NoPlayer => ReportAt(m) \in Reports \ {ReportAt(n)}
        BY <4>2 DEF RInv, FeedReported
      <4> QED
        BY <4>1, <4>3 DEF Untouched, Keeps
    <3> QED
      BY <3>1, <3>2
  <2>4. \A m \in PickNumbers : m > n => f[n].board[m] = start.board[m]
    <3> SUFFICES ASSUME NEW m \in PickNumbers, m > n PROVE f[n].board[m] = start.board[m]
      OBVIOUS
    <3>1. m > n - 1 /\ m # n
      BY <2>2
    <3>2. f[n - 1].board[m] = start.board[m]
      BY <1>2, <3>1
    <3> QED
      BY <2>3, <3>1, <3>2 DEF Keeps
  <2>5. \A m \in PickNumbers : m <= n => Keeps(f[m], f[n], m)
    <3> SUFFICES ASSUME NEW m \in PickNumbers, m <= n PROVE Keeps(f[m], f[n], m)
      OBVIOUS
    <3>1. CASE m = n
      BY <3>1 DEF Keeps
    <3>2. CASE m # n
      <4>1. m <= n - 1
        BY <2>2, <3>2
      <4>2. Keeps(f[m], f[n - 1], m)
        BY <1>2, <4>1
      <4>3. Keeps(f[n - 1], f[n], m)
        BY <2>3, <3>2
      <4> QED
        BY <4>2, <4>3 DEF Keeps
    <3> QED
      BY <3>1, <3>2
  <2> QED
    BY <2>2, <2>4, <2>5
<1> HIDE DEF S
<1>3. \A n \in 0..MaxPicks : n \in S
  BY <1>1, <1>2, CountingPicks
<1> QED
  BY <1>3 DEF S

(* A whole pass, seen from one pick: the state it finds there, what it     *)
(* does, and that this stays.                                              *)
LEMMA PassAt ==
  ASSUME RInv, NEW start, BatchSound(start), NEW f, Passes(start, MaxPicks, f),
         NEW n \in PickNumbers
  PROVE  /\ BatchSound(f[n - 1]) /\ BatchSound(f[MaxPicks])
         /\ f[n - 1].board[n] = start.board[n]
         /\ PassStep(f, n)
         /\ Keeps(f[n], f[MaxPicks], n)
         /\ \A m \in PickNumbers : m < n => f[MaxPicks].board[m] = f[n - 1].board[m]
<1>1. n - 1 \in 0..MaxPicks /\ MaxPicks \in 0..MaxPicks /\ n > n - 1 /\ n <= MaxPicks
      /\ PickNumbers \subseteq Nat /\ n \in Nat
  BY MaxPicksAssumption DEF PickNumbers
<1>2. BatchSound(f[n - 1]) /\ BatchSound(f[MaxPicks])
  BY <1>1, PassSound
<1>3. PassStep(f, n)
  BY PassStepOf
<1>4. \A k \in 0..MaxPicks :
        /\ \A m \in PickNumbers : m > k => f[k].board[m] = start.board[m]
        /\ \A m \in PickNumbers : m <= k => Keeps(f[m], f[k], m)
  BY PassFrame
<1>5. f[n - 1].board[n] = start.board[n] /\ Keeps(f[n], f[MaxPicks], n)
  BY <1>1, <1>4
<1>6. ASSUME NEW m \in PickNumbers, m < n PROVE f[MaxPicks].board[m] = f[n - 1].board[m]
  <2>1. m <= n - 1 /\ m <= MaxPicks
    BY <1>1, <1>6, MaxPicksAssumption
  <2>2. Keeps(f[m], f[n - 1], m) /\ Keeps(f[m], f[MaxPicks], m)
    BY <1>1, <1>4, <2>1
  <2> QED
    BY <2>2 DEF Keeps
<1> QED
  BY <1>2, <1>3, <1>5, <1>6

(* Whenever a sync runs, what it does to the board is safe: it never       *)
(* changes who holds a pick, except from a placeholder to the player       *)
(* behind it, changes nothing without authority, and adds next picks only. *)
THEOREM SyncsApplySafely == ReconciliationSpec => []SyncAppliesSafePicksOnly
<1>1. RInv => SyncAppliesSafePicksOnly
  <2> SUFFICES ASSUME RInv PROVE SyncAppliesSafePicksOnly
    OBVIOUS
  <2>1. PICK f : Passes(EmptyBatch, MaxPicks, f) /\ BatchFrom(EmptyBatch) = f[MaxPicks]
    BY BatchOfPass
  <2> DEFINE after == f[MaxPicks].board
  <2>2. Batch.board = after /\ EmptyBatch.board = board
    BY <2>1 DEF Batch, EmptyBatch
  <2>3. PlaySound /\ board \in Boards /\ HasNoGaps(board)
    BY DEF RInv, PlaySound, TypeOK, Boards
  <2>4. after \in Boards
    BY <2>1, EmptyBatchSound, PassSound, BatchTypes, MaxPicksAssumption
  <2>5. ASSUME NEW n \in PickNumbers, after[n] # board[n]
        PROVE  /\ Authoritative /\ n <= Total
               /\ after[n].player = feed[n] /\ after[n].team = TeamOf(n)
               /\ board[n] # Open =>
                    /\ board[n].team = TeamOf(n)
                    /\ << board[n].player, n, feed[n] >> \in Placeholders
    <3>1. /\ f[n - 1].board[n] = board[n] /\ PassStep(f, n) /\ Keeps(f[n], f[MaxPicks], n)
      BY <2>1, <2>2, EmptyBatchSound, PassAt
    <3>2. f[n].board[n] = after[n]
      BY <3>1 DEF Keeps
    <3>3. feed[n] # NoPlayer
      BY <2>5, <3>1, <3>2 DEF PassStep
    <3>4. Touched(f[n - 1], f[n], n)
      BY <3>1, <3>3 DEF PassStep
    <3>5. /\ Upgrades(f[n - 1], n) \/ Extends(f[n - 1], n)
          /\ f[n].board[n].player = feed[n] /\ f[n].board[n].team = TeamOf(n)
      BY <2>5, <3>1, <3>2, <3>4 DEF Touched
    <3>6. CASE Upgrades(f[n - 1], n)
      BY <3>1, <3>2, <3>5, <3>6 DEF Upgrades, SafeIdentityUpgrade, ReportAt
    <3>7. CASE Extends(f[n - 1], n)
      BY <3>1, <3>2, <3>5, <3>7 DEF Extends, SafeNewPick, ReportAt
    <3> QED
      BY <3>5, <3>6, <3>7
  <2> HIDE DEF after
  <2>6. ~ Authoritative => after = board
    <3> SUFFICES ASSUME ~ Authoritative PROVE after = board
      OBVIOUS
    <3>1. \A n \in PickNumbers : after[n] = board[n]
      BY <2>5
    <3> QED
      BY <2>3, <2>4, <3>1 DEF Boards
  <2>7. ASSUME NEW n \in Filled(board)
        PROVE  \/ after[n] = board[n]
               \/ /\ << board[n].player, n, feed[n] >> \in Placeholders
                  /\ after[n].player = feed[n] /\ after[n].team = board[n].team
    BY <2>5 DEF Filled
  <2>8. ASSUME NEW n \in Filled(after) \ Filled(board)
        PROVE  /\ after[n].player = feed[n] /\ after[n].team = TeamOf(n)
               /\ n \in (PickCount(board) + 1)..Total
    <3>1. n \in PickNumbers /\ board[n] = Open /\ after[n] # board[n]
      BY DEF Filled
    <3>2. n <= Total /\ after[n].player = feed[n] /\ after[n].team = TeamOf(n)
      BY <2>5, <3>1
    <3>3. n > PickCount(board) /\ PickCount(board) \in Nat
      BY <2>3, <3>1, NextPickOf
    <3>4. n \in Nat /\ Total \in Nat
      BY <3>1, <2>3, GeometryType DEF PickNumbers, PlaySound, TypeOK
    <3> QED
      BY <3>2, <3>3, <3>4
  <2> QED
    BY <2>2, <2>6, <2>7, <2>8 DEF SyncAppliesSafePicksOnly
<1> QED
  BY <1>1, ReconciliationHolds, PTL

(* Whenever a sync runs, each report is then on the board or in a conflict *)
(* the owner has to settle or has dismissed.                               *)
THEOREM SyncsLoseNoReport == ReconciliationSpec => []SyncAccountsForReports
<1>1. RInv => SyncAccountsForReports
  <2> SUFFICES ASSUME RInv, NEW n \in PickNumbers, feed[n] # NoPlayer
               PROVE  \/ Batch.board[n].player = feed[n]
                      \/ Batch.conflicts[[ overall |-> n, player |-> feed[n] ]].status # "none"
    BY DEF SyncAccountsForReports
  <2>1. PICK f : Passes(EmptyBatch, MaxPicks, f) /\ BatchFrom(EmptyBatch) = f[MaxPicks]
    BY BatchOfPass
  <2>2. Batch = f[MaxPicks]
    BY <2>1 DEF Batch
  <2>3. PassStep(f, n) /\ Keeps(f[n], f[MaxPicks], n)
    BY <2>1, EmptyBatchSound, PassAt
  <2>4. Touched(f[n - 1], f[n], n)
    BY <2>3 DEF PassStep
  <2>5. /\ Batch.board[n] = f[n].board[n]
        /\ Batch.conflicts[ReportAt(n)] = f[n].conflicts[ReportAt(n)]
    BY <2>2, <2>3 DEF Keeps
  <2>6. f[n].board[n].player = feed[n] \/ f[n].conflicts[ReportAt(n)].status # "none"
    BY <2>4 DEF Touched, Agrees
  <2> QED
    BY <2>5, <2>6 DEF ReportAt
<1> QED
  BY <1>1, ReconciliationHolds, PTL

(* A report is settled in a batch when reconciling it again would do       *)
(* nothing: the board agrees and it was confirmed or applied, or it can    *)
(* only be proposed and the owner has, or has dismissed, the conflict.     *)
SettledAt(batch, n) ==
  /\ ~ Upgrades(batch, n) /\ ~ Extends(batch, n)
  /\ \/ Agrees(batch, n) /\ KeyUsed(batch, YahooKey(ReportAt(n)))
     \/ ~ Agrees(batch, n) /\ batch.conflicts[ReportAt(n)].status \in {"unresolved", "dismissed"}

(* A pass settles every report. *)
LEMMA PassSettles ==
  ASSUME RInv, NEW start, BatchSound(start), NEW f, Passes(start, MaxPicks, f),
         NEW n \in PickNumbers, feed[n] # NoPlayer
  PROVE  SettledAt(f[MaxPicks], n)
<1> DEFINE last == f[MaxPicks]
           before == f[n - 1]
           key == YahooKey(ReportAt(n))
<1>1. /\ BatchSound(before) /\ BatchSound(last) /\ PassStep(f, n) /\ Keeps(f[n], last, n)
      /\ \A m \in PickNumbers : m < n => last.board[m] = before.board[m]
  BY PassAt
<1>2. Touched(before, f[n], n) /\ Untouched(before, f[n], n)
  BY <1>1 DEF PassStep
<1>3. /\ last.board[n] = f[n].board[n]
      /\ last.conflicts[ReportAt(n)] = f[n].conflicts[ReportAt(n)]
      /\ KeyUsed(f[n], key) => KeyUsed(last, key)
      /\ KeyUsed(before, key) => KeyUsed(last, key)
  BY <1>1, <1>2 DEF Keeps, Untouched
<1> HIDE DEF last, before, key
<1>4. CASE /\ n <= Total /\ f[n].board[n].player = feed[n] /\ KeyUsed(f[n], key)
  <2>1. Agrees(last, n) /\ KeyUsed(last, key)
    BY <1>3, <1>4 DEF Agrees
  <2> QED
    BY <2>1 DEF SettledAt, Upgrades, Extends, SafeIdentityUpgrade, SafeNewPick, last, key
<1>5. CASE /\ ~ Agrees(before, n) /\ ~ Upgrades(before, n) /\ ~ Extends(before, n)
           /\ f[n].board = before.board
           /\ f[n].conflicts[ReportAt(n)].status \in {"unresolved", "dismissed"}
  <2>1. last.board[n] = before.board[n]
    BY <1>3, <1>5
  <2>2. ~ Agrees(last, n)
    BY <1>5, <2>1 DEF Agrees
  <2>3. ~ Upgrades(last, n)
    BY <1>3, <1>5, <2>1 DEF Upgrades, SafeIdentityUpgrade, ReportAt, key
  <2>4. ~ Extends(last, n)
    <3> SUFFICES ASSUME Extends(last, n) PROVE FALSE
      OBVIOUS
    <3>1. /\ n <= Total /\ Authoritative /\ ~ KeyUsed(last, key) /\ last.board[n] = Open
          /\ n = PickCount(last.board) + 1
      BY DEF Extends, SafeNewPick, ReportAt, key
    <3>2. before.board \in Boards /\ HasNoGaps(before.board)
          /\ last.board \in Boards /\ HasNoGaps(last.board)
      BY <1>1, BatchTypes DEF BatchSound
    <3>3. \A m \in PickNumbers : m < n => before.board[m] # Open
      <4>1. \A m \in PickNumbers : last.board[m] = Open <=> m > PickCount(last.board)
        BY <3>2, NextPickOf
      <4>2. PickNumbers \subseteq Nat /\ PickCount(last.board) \in Nat
        BY <3>2, NextPickOf DEF PickNumbers
      <4> QED
        BY <1>1, <3>1, <4>1, <4>2 DEF last
    <3>4. /\ PickCount(before.board) \in 0..MaxPicks
          /\ \A m \in PickNumbers : before.board[m] = Open <=> m > PickCount(before.board)
      BY <3>2, NextPickOf
    <3>5. n > PickCount(before.board)
      BY <2>1, <3>1, <3>4
    <3>6. PickCount(before.board) + 1 \in PickNumbers
      BY <3>4, <3>5, MaxPicksAssumption DEF PickNumbers
    <3>7. before.board[PickCount(before.board) + 1] = Open
      BY <3>4, <3>6
    <3>8. n = PickCount(before.board) + 1
      BY <3>3, <3>4, <3>5, <3>6, <3>7, MaxPicksAssumption DEF PickNumbers
    <3>9. Extends(before, n)
      BY <1>3, <2>1, <3>1, <3>8 DEF Extends, SafeNewPick, ReportAt, key
    <3> QED
      BY <1>5, <3>9
  <2> QED
    BY <1>3, <1>5, <2>2, <2>3, <2>4 DEF SettledAt, last
<1>6. \/ n <= Total /\ f[n].board[n].player = feed[n] /\ KeyUsed(f[n], key)
      \/ /\ ~ Agrees(before, n) /\ ~ Upgrades(before, n) /\ ~ Extends(before, n)
         /\ f[n].board = before.board
         /\ f[n].conflicts[ReportAt(n)].status \in {"unresolved", "dismissed"}
  BY <1>2 DEF Touched, Agrees, Upgrades, Extends, key
<1> QED
  BY <1>4, <1>5, <1>6

(* Nothing new to the log, the board or the conflicts. *)
SameBatch(batch, after) ==
  /\ after.events = batch.events /\ after.keys = batch.keys
  /\ after.board = batch.board /\ after.conflicts = batch.conflicts

(* A settled report changes nothing when it is reconciled again. *)
LEMMA SettledAgain ==
  ASSUME RInv, NEW batch \in Batches, NEW n \in PickNumbers, feed[n] # NoPlayer,
         SettledAt(batch, n)
  PROVE  SameBatch(batch, Reconcile(batch, ReportAt(n)))
<1> DEFINE r == ReportAt(n)
           after == Reconcile(batch, r)
<1>1. r \in Reports
  BY DEF RInv, FeedReported
<1>2. \/ Agrees(batch, n) /\ after = Confirm(batch, r)
      \/ ~ Agrees(batch, n) /\ after = Propose(batch, r)
  BY ReconcileCases DEF SettledAt
<1> HIDE DEF after, r
<1>3. CASE Agrees(batch, n) /\ after = Confirm(batch, r)
  <2>1. KeyUsed(batch, YahooKey(r))
    BY <1>3 DEF SettledAt, r
  <2>2. /\ after.events = batch.events /\ after.keys = batch.keys
        /\ after.board = batch.board /\ after.conflicts = batch.conflicts
    BY <1>3, <2>1, ConfirmFields
  <2> QED
    BY <2>2 DEF SameBatch, after, r
<1>4. CASE ~ Agrees(batch, n) /\ after = Propose(batch, r)
  <2>1. batch.conflicts[r].status \in {"unresolved", "dismissed"}
    BY <1>4 DEF SettledAt, r
  <2>2. Proposed(batch.conflicts[r], LastEvent(batch)) = batch.conflicts[r]
    BY <2>1 DEF Proposed
  <2>3. [ batch.conflicts EXCEPT ![r] = batch.conflicts[r] ] = batch.conflicts
    BY <1>1 DEF Batches
  <2>4. /\ after.events = batch.events /\ after.keys = batch.keys /\ after.board = batch.board
        /\ after.conflicts = [ batch.conflicts EXCEPT
             ![r] = Proposed(batch.conflicts[r], LastEvent(batch)) ]
    BY <1>1, <1>4, ProposeFields
  <2> QED
    BY <2>2, <2>3, <2>4 DEF SameBatch, after, r
<1> QED
  BY <1>2, <1>3, <1>4

(* Whether a report is settled is a matter of keys, board and conflicts. *)
LEMMA SettledInSame ==
  ASSUME NEW batch, NEW same, SameBatch(batch, same), NEW n, SettledAt(batch, n)
  PROVE  SettledAt(same, n)
  BY DEF SameBatch, SettledAt, Agrees, Upgrades, Extends, SafeIdentityUpgrade, SafeNewPick, KeyUsed

(* Polling again without news does nothing. *)
THEOREM SyncsAreIdempotent == ReconciliationSpec => []SyncIsIdempotent
<1>1. RInv => SyncIsIdempotent
  <2> SUFFICES ASSUME RInv PROVE SyncIsIdempotent
    OBVIOUS
  <2>1. PICK f : Passes(EmptyBatch, MaxPicks, f) /\ BatchFrom(EmptyBatch) = f[MaxPicks]
    BY BatchOfPass
  <2> DEFINE first == f[MaxPicks]
  <2>2. Batch = first
    BY <2>1 DEF Batch
  <2>3. BatchSound(first) /\ \A n \in PickNumbers : feed[n] # NoPlayer => SettledAt(first, n)
    BY <2>1, <2>2, EmptyBatchSound, SyncSound, PassSettles
  <2> HIDE DEF first
  <2>4. PICK g : Passes(first, MaxPicks, g) /\ BatchFrom(first) = g[MaxPicks]
    BY BatchOfPass
  <2> DEFINE S == { n \in 0..MaxPicks : SameBatch(first, g[n]) }
  <2>5. 0 \in S
    BY <2>4, PassSteps, MaxPicksAssumption DEF SameBatch
  <2>6. ASSUME NEW n \in PickNumbers, n - 1 \in S PROVE n \in S
    <3>1. n \in 0..MaxPicks /\ n - 1 \in 0..MaxPicks
      BY MaxPicksAssumption DEF PickNumbers
    <3>2. g[n] = IF feed[n] = NoPlayer THEN g[n - 1] ELSE Reconcile(g[n - 1], ReportAt(n))
      BY <2>4, PassSteps
    <3>3. SameBatch(first, g[n - 1])
      BY <2>6
    <3>4. CASE feed[n] = NoPlayer
      BY <3>1, <3>2, <3>3, <3>4
    <3>5. CASE feed[n] # NoPlayer
      <4>1. SettledAt(g[n - 1], n)
        BY <2>3, <3>3, <3>5, SettledInSame
      <4>2. g[n - 1] \in Batches
        BY <2>3, <2>4, <3>1, PassSound, BatchTypes
      <4>3. SameBatch(g[n - 1], g[n])
        BY <3>2, <3>5, <4>1, <4>2, SettledAgain
      <4> QED
        BY <3>1, <3>3, <4>3 DEF SameBatch
    <3> QED
      BY <3>4, <3>5
  <2> HIDE DEF S
  <2>7. MaxPicks \in S
    BY <2>5, <2>6, CountingPicks, MaxPicksAssumption
  <2>8. SameBatch(first, g[MaxPicks])
    BY <2>7 DEF S
  <2> QED
    BY <2>2, <2>4, <2>8 DEF SyncIsIdempotent, SameBatch
<1> QED
  BY <1>1, ReconciliationHolds, PTL

================================================================================
