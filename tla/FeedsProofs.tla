----------------------------- MODULE FeedsProofs -----------------------------
(***************************************************************************)
(* What Feeds promises of the steps and states of its parts, for any       *)
(* number of requests, leagues, teams, pages, snapshots, evidence runs,    *)
(* games, entries and players.  The parts do not meet, so that each has an *)
(* invariant of its own, and those of all hold together.  That a card, a   *)
(* plan and a lineup are the best of all, AdviceIsBest, is about sums over *)
(* data and left to the model checker.                                     *)
(***************************************************************************)
EXTENDS Feeds, SequenceTheorems, FiniteSetTheorems, NaturalsInduction, WellFoundedInduction, TLAPS

-----------------------------------------------------------------------------
(* Numbers have a least one.                                               *)
LEMMA LeastIndex ==
    ASSUME NEW T, T \subseteq Nat, T # {}
    PROVE  \E i \in T : \A j \in T : i <= j
<1>. DEFINE R == {ss \in Nat \X Nat : ss[1] < ss[2]}
<1>1. IsWellFoundedOn(R, Nat)
    BY NatLessThanWellFounded DEF OpToRel
<1>2. \A i, j \in Nat : j < i => <<j, i>> \in R
    OBVIOUS
<1>. HIDE DEF R
<1>3. PICK i \in T : \A j \in T : ~(<<j, i>> \in R)
    BY <1>1, WFMin
<1>4. ASSUME NEW j \in T PROVE i <= j
    <2>1. i \in Nat /\ j \in Nat /\ ~(j < i)
        BY <1>2, <1>3
    <2>. QED
        BY <2>1
<1>. QED
    BY <1>4

(* What holds of 0 and goes on from a number to the next one holds up to   *)
(* any bound.                                                              *)
LEMMA CountUpTo ==
    ASSUME NEW n \in Nat, NEW S, 0 \in S, \A m \in 0..(n - 1) : m \in S => m + 1 \in S
    PROVE  0..n \subseteq S
<1>. DEFINE T == {m \in 0..n : m \notin S}
<1>. SUFFICES ASSUME T # {} PROVE FALSE
    OBVIOUS
<1>1. T \subseteq Nat /\ \A m \in 0..n : m \notin T => m \in S
    OBVIOUS
<1>2. \A m \in T : m \in 0..n /\ m \notin S
    OBVIOUS
<1>. HIDE DEF T
<1>3. PICK i \in T : \A j \in T : i <= j
    BY <1>1, LeastIndex
<1>4. i \in 0..n /\ i # 0
    BY <1>2, <1>3
<1>5. i - 1 \in 0..(n - 1) /\ i - 1 \in 0..n /\ ~(i <= i - 1) /\ (i - 1) + 1 = i
    BY <1>4
<1>6. i - 1 \in S
    BY <1>1, <1>3, <1>5
<1>. QED
    BY <1>2, <1>3, <1>5, <1>6

(* A recursion with n steps, whose base is good and whose every step of a  *)
(* good value is, and the functions of its values.                         *)
SoundSteps(n, S, good, Step, base) ==
    /\ n \in Nat /\ \A i \in 0..n : good[i] \subseteq S
    /\ base \in good[0]
    /\ \A i \in 1..n : \A x \in good[i - 1] : Step[<<i, x>>] \in good[i]

Follows(f, n, S, Step, base) ==
    f[0] = base /\ \A i \in 1..n : f[i - 1] \in S => f[i] = Step[<<i, f[i - 1]>>]

(* It has such a function: this is what the CHOOSE of a recursive          *)
(* definition stands on ...                                                *)
LEMMA StepsExist ==
    ASSUME NEW n, NEW S, NEW good, NEW Step, NEW base, SoundSteps(n, S, good, Step, base)
    PROVE  \E f \in [0..n -> S] : Follows(f, n, S, Step, base)
<1>. USE DEF SoundSteps
<1>. DEFINE Upto(f, m) == /\ f = [i \in 0..m |-> f[i]] /\ f[0] = base
                          /\ \A i \in 0..m : f[i] \in good[i]
                          /\ \A i \in 1..m : f[i] = Step[<<i, f[i - 1]>>]
            T == {m \in 0..n : \E f : Upto(f, m)}
<1>1. 0 \in T
    <2>. DEFINE f == [i \in 0..0 |-> base]
    <2>1. f[0] = base /\ f = [i \in 0..0 |-> f[i]] /\ 0..0 = {0} /\ 1..0 = {}
        OBVIOUS
    <2>. HIDE DEF f
    <2>2. Upto(f, 0)
        BY <2>1
    <2>. HIDE DEF Upto
    <2>. QED
        BY <2>2
<1>2. ASSUME NEW m \in 0..(n - 1), m \in T PROVE m + 1 \in T
    <2>1. PICK f : Upto(f, m)
        BY <1>2
    <2>. DEFINE last == Step[<<m + 1, f[m]>>]
                g == [i \in 0..(m + 1) |-> IF i <= m THEN f[i] ELSE last]
    <2>2. last \in good[m + 1]
        <3>1. m + 1 \in 1..n /\ m \in 0..m /\ (m + 1) - 1 = m
            OBVIOUS
        <3>2. f[m] \in good[m]
            BY <2>1, <3>1
        <3>. QED
            BY <3>1, <3>2
    <2>. HIDE DEF last
    <2>3. g[m + 1] = last /\ \A i \in 0..m : g[i] = f[i]
        OBVIOUS
    <2>4. \A i \in 0..(m + 1) : i \in 0..m \/ i = m + 1
        OBVIOUS
    <2>5. g = [i \in 0..(m + 1) |-> g[i]]
        BY Zenon
    <2>. HIDE DEF g
    <2>6. \A i \in 0..(m + 1) : g[i] \in good[i]
        BY <2>1, <2>2, <2>3, <2>4
    <2>7. ASSUME NEW i \in 1..(m + 1) PROVE g[i] = Step[<<i, g[i - 1]>>]
        <3>1. i - 1 \in 0..m /\ g[i - 1] = f[i - 1]
            BY <2>3
        <3>2. CASE i = m + 1
            BY <2>3, <3>1, <3>2 DEF last
        <3>3. CASE i \in 1..m
            BY <2>1, <2>3, <3>1, <3>3
        <3>. QED
            BY <3>2, <3>3
    <2>8. g[0] = base
        BY <2>1, <2>3
    <2>9. Upto(g, m + 1)
        BY <2>5, <2>6, <2>7, <2>8
    <2>. HIDE DEF Upto
    <2>. QED
        BY <2>9
<1>3. n \in T
    <2>. HIDE DEF T
    <2>1. 0..n \subseteq T
        BY <1>1, <1>2, CountUpTo
    <2>. QED
        BY <2>1
<1>4. PICK f : Upto(f, n)
    BY <1>3
<1>5. f \in [0..n -> S]
    BY <1>4
<1>. QED
    BY <1>4, <1>5 DEF Follows

(* ... and is good throughout.                                             *)
LEMMA StepsGood ==
    ASSUME NEW n, NEW S, NEW good, NEW Step, NEW base, SoundSteps(n, S, good, Step, base),
           NEW f, Follows(f, n, S, Step, base)
    PROVE  \A i \in 0..n : f[i] \in good[i]
<1>. USE DEF SoundSteps, Follows
<1>. DEFINE U == {m \in 0..n : f[m] \in good[m]}
<1>1. 0 \in U
    OBVIOUS
<1>2. ASSUME NEW m \in 0..(n - 1), m \in U PROVE m + 1 \in U
    <2>1. m + 1 \in 1..n /\ (m + 1) - 1 = m /\ m \in 0..n /\ f[m] \in good[m]
        BY <1>2
    <2>2. f[m + 1] = Step[<<m + 1, f[m]>>]
        BY <2>1
    <2>. QED
        BY <2>1, <2>2
<1>. HIDE DEF U
<1>3. 0..n \subseteq U
    BY <1>1, <1>2, CountUpTo
<1>. QED
    BY <1>3 DEF U

-----------------------------------------------------------------------------
(* Yahoo.  Nothing the cooldown allows is too early, and what an import    *)
(* has seen of a player was so while it ran.                               *)
YahooInv ==
    /\ Yahoo!TypeOK /\ Yahoo!RostersCredible
    /\ throttled <= cooldown
    /\ \A r \in Requests : op[r].kind = "import" =>
        /\ op[r].league \in Yahoo!Leagues /\ op[r].last \in Yahoo!Leagues
        /\ owner[op[r].league] \in op[r].held
        /\ op[r].seen \in op[r].held \cup {Yahoo!Unseen}
        /\ op[r].page = Yahoo!DraftPage /\ op[r].complete => op[r].seen # Yahoo!Unseen

(* The types of Yahoo's operations, of its rosters, and their bounds.      *)
YahooOps == [kind : {"none", "import", "weekly", "live"},
             league : Yahoo!Leagues \cup {0}, last : Yahoo!Leagues \cup {0},
             page : 0..Yahoo!DraftPage,
             seen : Yahoo!TeamIds \cup {Yahoo!FreeAgent, Yahoo!Unseen},
             complete : BOOLEAN, cookie : 0..MaxSaves,
             held : SUBSET (Yahoo!TeamIds \cup {Yahoo!FreeAgent})]

(* What an operation may have read of a roster.                            *)
OpSound(o, of) ==
    o.kind = "import" =>
        /\ o.league \in Yahoo!Leagues /\ o.last \in Yahoo!Leagues
        /\ of[o.league] \in o.held
        /\ o.seen \in o.held \cup {Yahoo!Unseen}
        /\ o.page = Yahoo!DraftPage /\ o.complete => o.seen # Yahoo!Unseen

(* What is assumed of the league's sizes, the pauses and the bounds.       *)
LEMMA YahooBounds ==
    /\ LeagueCount \in Nat \ {0} /\ TeamCount \in Nat \ {0}
    /\ Pause \in Nat \ {0} /\ LongPause \in Nat \ {0}
    /\ MaxTime \in Nat /\ MaxMoves \in Nat /\ MaxSaves \in Nat /\ MaxRestarts \in Nat
BY YahooAssumption DEF Yahoo!YahooSyncAssumption

(* An idle handler has read nothing.                                       *)
LEMMA YahooIdle ==
    /\ Yahoo!Idle \in YahooOps /\ Yahoo!Idle.kind = "none"
    /\ \A of : OpSound(Yahoo!Idle, of)
BY YahooBounds DEF Yahoo!Idle, YahooOps, OpSound, Yahoo!DraftPage, Yahoo!Leagues, Yahoo!TeamIds,
                   Yahoo!FreeAgent, Yahoo!Unseen

(* The reading of a league begins with its player's present team.          *)
LEMMA ReadingSound ==
    ASSUME NEW o \in YahooOps, o.kind = "import", o.last \in Yahoo!Leagues,
           NEW l \in Yahoo!Leagues, Yahoo!TypeOK
    PROVE  /\ Yahoo!Reading(o, l) \in YahooOps /\ Yahoo!Reading(o, l).kind = "import"
           /\ OpSound(Yahoo!Reading(o, l), owner)
<1>1. owner[l] \in Yahoo!TeamIds \cup {Yahoo!FreeAgent}
    BY DEF Yahoo!TypeOK
<1>2. 0 # Yahoo!DraftPage /\ 0 \in 0..Yahoo!DraftPage
    BY YahooBounds DEF Yahoo!DraftPage
<1>. QED
    BY <1>1, <1>2 DEF Yahoo!Reading, YahooOps, OpSound

(* The invariant, by operation.                                            *)
LEMMA YahooInvParts ==
    YahooInv <=> /\ Yahoo!TypeOK /\ Yahoo!RostersCredible /\ throttled <= cooldown
                 /\ \A r \in Requests : OpSound(op[r], owner)
BY DEF YahooInv, OpSound

(* Before the first import nothing was asked, and every stored roster is   *)
(* the one Yahoo has.                                                      *)
LEMMA YahooInit == Yahoo!Init => YahooInv
<1>. SUFFICES ASSUME Yahoo!Init PROVE YahooInv
    OBVIOUS
<1>1. op \in [Requests -> YahooOps] /\ \A r \in Requests : OpSound(op[r], owner)
    BY YahooIdle DEF Yahoo!Init
<1>2. credible \in [Yahoo!Leagues -> SUBSET (Yahoo!TeamIds \cup {Yahoo!FreeAgent})]
    BY DEF Yahoo!Init
<1>3. Yahoo!TypeOK
    BY <1>1, <1>2, YahooBounds DEF Yahoo!Init, Yahoo!TypeOK, YahooOps
<1>4. Yahoo!RostersCredible /\ throttled <= cooldown
    BY DEF Yahoo!Init, Yahoo!RostersCredible
<1>. QED
    BY <1>1, <1>3, <1>4, YahooInvParts

(* An operation that begins, goes on or ends, when no roster is stored.    *)
LEMMA OpChanges ==
    ASSUME YahooInv, NEW r \in Requests, NEW o \in YahooOps, OpSound(o, owner),
           op' = [op EXCEPT ![r] = o],
           UNCHANGED <<time, owner, moves, roster, restarts, credible>>,
           latest' \in [Yahoo!Leagues -> {"none", "fresh", "partial", "failed"}],
           {cooldown', blocked', throttled'} \subseteq Nat, throttled' <= cooldown',
           weekly' \in {"unavailable", "available", "stale"}, cookie' \in 0..MaxSaves
    PROVE  YahooInv'
<1>1. op \in [Requests -> YahooOps] /\ \A q \in Requests : OpSound(op[q], owner)
    BY YahooInvParts DEF Yahoo!TypeOK, YahooOps
<1>2. op' \in [Requests -> YahooOps]
    BY <1>1
<1>3. \A q \in Requests : OpSound(op'[q], owner)
    BY <1>1
<1>4. Yahoo!TypeOK'
    BY <1>2 DEF YahooInv, Yahoo!TypeOK, YahooOps
<1>5. Yahoo!RostersCredible'
    BY DEF YahooInv, Yahoo!RostersCredible
<1>6. \A q \in Requests : OpSound(op'[q], owner')
    BY <1>3
<1>. QED
    BY <1>4, <1>5, <1>6 DEF YahooInv, OpSound

(* The end of an operation.                                                *)
LEMMA OpEnds ==
    ASSUME YahooInv, NEW r \in Requests, Yahoo!End(r),
           UNCHANGED <<time, owner, moves, roster, restarts, credible>>,
           latest' \in [Yahoo!Leagues -> {"none", "fresh", "partial", "failed"}],
           {cooldown', blocked', throttled'} \subseteq Nat, throttled' <= cooldown',
           weekly' \in {"unavailable", "available", "stale"}, cookie' \in 0..MaxSaves
    PROVE  YahooInv'
BY YahooIdle, OpChanges DEF Yahoo!End

(* A step that changes the clock, a setting or an age.                     *)
LEMMA QuietYahooStep ==
    ASSUME YahooInv, UNCHANGED <<owner, roster, latest, cooldown, op, throttled, credible>>,
           time' \in 0..MaxTime, moves' \in 0..MaxMoves, blocked' \in Nat,
           weekly' \in {"unavailable", "available", "stale"},
           cookie' \in 0..MaxSaves, restarts' \in 0..MaxRestarts
    PROVE  YahooInv'
<1>1. Yahoo!TypeOK'
    BY DEF YahooInv, Yahoo!TypeOK
<1>2. Yahoo!RostersCredible'
    BY DEF YahooInv, Yahoo!RostersCredible
<1>. QED
    BY <1>1, <1>2 DEF YahooInv

(* A roster moves at Yahoo: an import in progress may have seen either     *)
(* team, so both are credible.                                             *)
LEMMA MoveKeeps ==
    ASSUME YahooInv, Yahoo!Move PROVE YahooInv'
<1>1. PICK l \in Yahoo!Leagues, t \in Yahoo!TeamIds \cup {Yahoo!FreeAgent} :
        /\ owner' = [owner EXCEPT ![l] = t]
        /\ op' = [r \in Requests |-> IF Yahoo!Is(r, "import") /\ op[r].league = l
                                     THEN [op[r] EXCEPT !.held = @ \cup {t}] ELSE op[r]]
    BY DEF Yahoo!Move
<1>2. op \in [Requests -> YahooOps] /\ \A r \in Requests : OpSound(op[r], owner)
    BY YahooInvParts DEF Yahoo!TypeOK, YahooOps
<1>3. owner \in [Yahoo!Leagues -> Yahoo!TeamIds \cup {Yahoo!FreeAgent}]
    BY DEF YahooInv, Yahoo!TypeOK
<1>4. ASSUME NEW r \in Requests PROVE op'[r] \in YahooOps /\ OpSound(op'[r], owner')
    <2>1. CASE op[r].kind = "import" /\ op[r].league = l
        <3>1. op'[r] = [op[r] EXCEPT !.held = @ \cup {t}]
            BY <1>1, <2>1 DEF Yahoo!Is
        <3>2. op'[r] \in YahooOps
            BY <1>2, <3>1 DEF YahooOps
        <3>3. /\ op'[r].held = op[r].held \cup {t} /\ op'[r].league = l
              /\ op'[r].seen = op[r].seen /\ op'[r].last = op[r].last
              /\ op'[r].page = op[r].page /\ op'[r].complete = op[r].complete
              /\ op'[r].kind = "import"
            BY <1>2, <2>1, <3>1 DEF YahooOps
        <3>4. owner'[l] = t
            BY <1>1, <1>3
        <3>. QED
            BY <1>2, <2>1, <3>2, <3>3, <3>4 DEF OpSound
    <2>2. CASE ~(op[r].kind = "import" /\ op[r].league = l)
        <3>1. op'[r] = op[r]
            BY <1>1, <2>2 DEF Yahoo!Is
        <3>2. op[r].kind = "import" => owner'[op[r].league] = owner[op[r].league]
            BY <1>1, <1>2, <1>3, <2>2 DEF OpSound
        <3>. QED
            BY <1>2, <3>1, <3>2 DEF OpSound
    <2>. QED
        BY <2>1, <2>2
<1>5. op' \in [Requests -> YahooOps]
    BY <1>1, <1>4
<1>6. owner' \in [Yahoo!Leagues -> Yahoo!TeamIds \cup {Yahoo!FreeAgent}]
    BY <1>1, <1>3
<1>7. Yahoo!TypeOK'
    <2>1. moves' \in 0..MaxMoves
        BY YahooBounds DEF Yahoo!Move, YahooInv, Yahoo!TypeOK
    <2>. QED
        BY <1>5, <1>6, <2>1 DEF Yahoo!Move, YahooInv, Yahoo!TypeOK, YahooOps
<1>8. Yahoo!RostersCredible' /\ throttled' <= cooldown'
    BY DEF Yahoo!Move, YahooInv, Yahoo!RostersCredible
<1>. QED
    BY <1>4, <1>7, <1>8 DEF YahooInv, OpSound

(* The next page of an import (_scrape_one): a player is seen where he is  *)
(* at that moment.                                                         *)
LEMMA FetchPageKeeps ==
    ASSUME YahooInv, NEW r \in Requests, Yahoo!FetchPage(r) PROVE YahooInv'
<1>. DEFINE pg == op[r].page
            team == owner[op[r].league]
<1>1. op \in [Requests -> YahooOps] /\ OpSound(op[r], owner) /\ op[r] \in YahooOps
    BY YahooInvParts DEF Yahoo!TypeOK, YahooOps
<1>2. PICK listed \in BOOLEAN :
        /\ ~listed => pg = Yahoo!PoolPage
        /\ op' = [op EXCEPT ![r].page = pg + 1, ![r].complete = listed,
                            ![r].seen = Yahoo!SeenOn(pg, team, listed, @)]
    BY DEF Yahoo!FetchPage
<1>. DEFINE seen == Yahoo!SeenOn(pg, team, listed, op[r].seen)
            o == [op[r] EXCEPT !.page = pg + 1, !.complete = listed, !.seen = seen]
<1>3. op' = [op EXCEPT ![r] = o]
    BY <1>1, <1>2
<1>4. pg \in 0..(Yahoo!DraftPage - 1) /\ op[r].kind = "import"
    BY <1>1, YahooBounds DEF Yahoo!FetchPage, Yahoo!Is, YahooOps, Yahoo!DraftPage
<1>5. team \in op[r].held
    BY <1>1, <1>4 DEF OpSound
<1>6. seen \in {team, op[r].seen}
    BY DEF Yahoo!SeenOn
<1>7. ASSUME pg = Yahoo!PoolPage, listed PROVE seen # Yahoo!Unseen
    <2>1. seen = IF op[r].seen = Yahoo!Unseen THEN team ELSE op[r].seen
        BY <1>7, YahooBounds DEF Yahoo!SeenOn, Yahoo!PoolPage, Yahoo!TeamIds
    <2>2. team \in Yahoo!TeamIds \cup {Yahoo!FreeAgent}
        BY <1>1, <1>5 DEF YahooOps
    <2>3. Yahoo!Unseen \notin Yahoo!TeamIds \cup {Yahoo!FreeAgent}
        BY DEF Yahoo!Unseen, Yahoo!TeamIds, Yahoo!FreeAgent
    <2>. QED
        BY <2>1, <2>2, <2>3
<1>8. pg + 1 \in 0..Yahoo!DraftPage /\ (pg + 1 = Yahoo!DraftPage => pg = Yahoo!PoolPage)
    BY <1>4, YahooBounds DEF Yahoo!DraftPage, Yahoo!PoolPage
<1>. HIDE DEF pg, team, seen
<1>9. o \in YahooOps
    BY <1>1, <1>5, <1>6, <1>8 DEF YahooOps
<1>10. OpSound(o, owner)
    <2>1. /\ o.kind = op[r].kind /\ o.league = op[r].league /\ o.last = op[r].last
          /\ o.held = op[r].held /\ o.seen = seen /\ o.page = pg + 1 /\ o.complete = listed
        BY <1>1 DEF YahooOps
    <2>. HIDE DEF o
    <2>. QED
        BY <1>1, <1>4, <1>5, <1>6, <1>7, <1>8, <2>1 DEF OpSound
<1>. HIDE DEF o
<1>. QED
    BY <1>3, <1>9, <1>10, OpChanges DEF Yahoo!FetchPage, YahooInv, Yahoo!TypeOK

(* Where an import goes on, its cookie at the end included.                *)
LEMMA NextLeagueOp ==
    ASSUME YahooInv, NEW r \in Requests, op[r].kind = "import", Yahoo!NextLeague(r)
    PROVE  /\ cookie' \in 0..MaxSaves
           /\ \E o \in YahooOps : OpSound(o, owner) /\ op' = [op EXCEPT ![r] = o]
<1>1. op \in [Requests -> YahooOps] /\ OpSound(op[r], owner) /\ op[r] \in YahooOps
    BY YahooInvParts DEF Yahoo!TypeOK, YahooOps
<1>2. cookie \in 0..MaxSaves /\ op[r].cookie \in 0..MaxSaves
    BY <1>1 DEF YahooInv, Yahoo!TypeOK, YahooOps
<1>3. CASE op[r].league < op[r].last
    <2>1. op[r].league + 1 \in Yahoo!Leagues /\ op[r].last \in Yahoo!Leagues
        BY <1>1, <1>3, YahooBounds DEF OpSound, Yahoo!Leagues
    <2>2. op' = [op EXCEPT ![r] = Yahoo!Reading(op[r], op[r].league + 1)]
        BY <1>1, <1>3 DEF Yahoo!NextLeague
    <2>. QED
        BY <1>1, <1>2, <1>3, <2>1, <2>2, ReadingSound DEF YahooInv, Yahoo!NextLeague
<1>4. CASE ~(op[r].league < op[r].last)
    BY <1>2, <1>4, YahooIdle DEF Yahoo!NextLeague, Yahoo!End
<1>. QED
    BY <1>3, <1>4

(* The commit of a league: what is stored of it was seen, or is the older  *)
(* team of a player who was not.                                           *)
LEMMA CommitLeagueKeeps ==
    ASSUME YahooInv, NEW r \in Requests, Yahoo!CommitLeague(r) PROVE YahooInv'
<1>. DEFINE l == op[r].league
            stored == Yahoo!UpsertPlayer(roster[l], op[r].seen)
            told == IF op[r].complete THEN op[r].held ELSE op[r].held \cup {roster[l]}
<1>1. /\ op[r].kind = "import" /\ op[r].page = Yahoo!DraftPage /\ Yahoo!NextLeague(r)
      /\ roster' = [roster EXCEPT ![l] = stored]
      /\ latest' = [latest EXCEPT ![l] = IF op[r].complete THEN "fresh" ELSE "partial"]
      /\ credible' = [credible EXCEPT ![l] = told]
      /\ UNCHANGED <<time, owner, moves, cooldown, blocked, weekly, restarts, throttled>>
    BY DEF Yahoo!CommitLeague, Yahoo!Is
<1>2. op \in [Requests -> YahooOps] /\ op[r] \in YahooOps
    BY DEF YahooInv, Yahoo!TypeOK, YahooOps
<1>3. \A q \in Requests : OpSound(op[q], owner)
    BY YahooInvParts
<1>4. /\ l \in Yahoo!Leagues /\ op[r].seen \in op[r].held \cup {Yahoo!Unseen}
      /\ op[r].complete => op[r].seen # Yahoo!Unseen
    BY <1>1, <1>3 DEF OpSound
<1>5. /\ roster \in [Yahoo!Leagues -> Yahoo!TeamIds \cup {Yahoo!FreeAgent}]
      /\ latest \in [Yahoo!Leagues -> {"none", "fresh", "partial", "failed"}]
      /\ credible \in [Yahoo!Leagues -> SUBSET (Yahoo!TeamIds \cup {Yahoo!FreeAgent})]
      /\ op[r].held \subseteq Yahoo!TeamIds \cup {Yahoo!FreeAgent} /\ op[r].complete \in BOOLEAN
    BY <1>2 DEF YahooInv, Yahoo!TypeOK, YahooOps
<1>6. stored \in told /\ told \subseteq Yahoo!TeamIds \cup {Yahoo!FreeAgent}
    BY <1>4, <1>5 DEF Yahoo!UpsertPlayer
<1>7. PICK o \in YahooOps : OpSound(o, owner) /\ op' = [op EXCEPT ![r] = o]
    BY <1>1, NextLeagueOp
<1>8. cookie' \in 0..MaxSaves
    BY <1>1, NextLeagueOp
<1>. HIDE DEF stored, told, l
<1>9. /\ roster' \in [Yahoo!Leagues -> Yahoo!TeamIds \cup {Yahoo!FreeAgent}]
      /\ credible' \in [Yahoo!Leagues -> SUBSET (Yahoo!TeamIds \cup {Yahoo!FreeAgent})]
    BY <1>1, <1>4, <1>5, <1>6
<1>10. latest' \in [Yahoo!Leagues -> {"none", "fresh", "partial", "failed"}]
    BY <1>1, <1>4, <1>5
<1>11. op' \in [Requests -> YahooOps]
    BY <1>2, <1>7
<1>12. \A q \in Requests : OpSound(op'[q], owner')
    BY <1>1, <1>2, <1>3, <1>7
<1>13. Yahoo!TypeOK'
    BY <1>1, <1>8, <1>9, <1>10, <1>11 DEF YahooInv, Yahoo!TypeOK, YahooOps
<1>14. Yahoo!RostersCredible'
    BY <1>1, <1>4, <1>5, <1>6 DEF YahooInv, Yahoo!RostersCredible
<1>. QED
    BY <1>1, <1>12, <1>13, <1>14 DEF YahooInv, OpSound

(* The steps of one handler.                                               *)
LEMMA YahooHandlerKeeps ==
    ASSUME YahooInv, NEW r \in Requests,
           \/ Yahoo!SyncScrapedUrls(r) \/ Yahoo!RefreshWeeklyProjections(r)
           \/ Yahoo!SyncScrapedDraftResults(r) \/ Yahoo!FetchPage(r) \/ Yahoo!CommitLeague(r)
           \/ Yahoo!LeagueFails(r) \/ Yahoo!FinishWeekly(r) \/ Yahoo!FinishLive(r)
           \/ Yahoo!RateLimited(r)
    PROVE  YahooInv'
<1>1. /\ op \in [Requests -> YahooOps] /\ op[r] \in YahooOps /\ OpSound(op[r], owner)
      /\ latest \in [Yahoo!Leagues -> {"none", "fresh", "partial", "failed"}]
      /\ {cooldown, blocked, throttled} \subseteq Nat /\ throttled <= cooldown
      /\ weekly \in {"unavailable", "available", "stale"} /\ cookie \in 0..MaxSaves
      /\ time \in 0..MaxTime
    BY YahooInvParts DEF YahooInv, Yahoo!TypeOK, YahooOps
<1>2. CASE Yahoo!SyncScrapedUrls(r)
    <2>1. PICK first \in Yahoo!Leagues, last \in Yahoo!Leagues :
            op' = [op EXCEPT ![r] =
                     Yahoo!Reading([Yahoo!Idle EXCEPT !.kind = "import", !.last = last,
                                                      !.cookie = cookie], first)]
        BY <1>2 DEF Yahoo!SyncScrapedUrls
    <2>. DEFINE o == [Yahoo!Idle EXCEPT !.kind = "import", !.last = last, !.cookie = cookie]
    <2>2. o \in YahooOps /\ o.kind = "import" /\ o.last = last
        BY <1>1, YahooIdle DEF YahooOps
    <2>. HIDE DEF o
    <2>3. Yahoo!Reading(o, first) \in YahooOps /\ OpSound(Yahoo!Reading(o, first), owner)
        BY <2>2, ReadingSound DEF YahooInv
    <2>. QED
        BY <1>1, <1>2, <2>1, <2>3, OpChanges DEF Yahoo!SyncScrapedUrls, o
<1>3. CASE Yahoo!RefreshWeeklyProjections(r) \/ Yahoo!SyncScrapedDraftResults(r)
    <2>1. PICK kind \in {"weekly", "live"} : op' = [op EXCEPT ![r] = [op[r] EXCEPT !.kind = kind]]
        BY <1>1, <1>3 DEF Yahoo!RefreshWeeklyProjections, Yahoo!SyncScrapedDraftResults
    <2>2. /\ [op[r] EXCEPT !.kind = kind] \in YahooOps
          /\ OpSound([op[r] EXCEPT !.kind = kind], owner)
        BY <1>1 DEF YahooOps, OpSound
    <2>3. UNCHANGED <<time, owner, moves, roster, latest, cooldown, blocked, weekly, cookie,
                      restarts, throttled, credible>>
        BY <1>3 DEF Yahoo!RefreshWeeklyProjections, Yahoo!SyncScrapedDraftResults
    <2>. QED
        BY <1>1, <2>1, <2>2, <2>3, OpChanges
<1>4. CASE Yahoo!LeagueFails(r)
    <2>1. PICK o \in YahooOps : OpSound(o, owner) /\ op' = [op EXCEPT ![r] = o]
        BY <1>4, NextLeagueOp DEF Yahoo!LeagueFails, Yahoo!Is
    <2>2. cookie' \in 0..MaxSaves
        BY <1>4, NextLeagueOp DEF Yahoo!LeagueFails, Yahoo!Is
    <2>3. latest' \in [Yahoo!Leagues -> {"none", "fresh", "partial", "failed"}]
        BY <1>1, <1>4 DEF Yahoo!LeagueFails
    <2>. QED
        BY <1>1, <1>4, <2>1, <2>2, <2>3, OpChanges DEF Yahoo!LeagueFails
<1>5. CASE Yahoo!FinishWeekly(r)
    BY <1>1, <1>5, OpEnds DEF Yahoo!FinishWeekly
<1>6. CASE Yahoo!FinishLive(r)
    BY <1>1, <1>6, OpEnds DEF Yahoo!FinishLive
<1>7. CASE Yahoo!RateLimited(r)
    <2>1. PICK seconds \in Yahoo!RetryAfter :
            /\ cooldown' = Yahoo!Later(time + seconds, cooldown)
            /\ throttled' = Yahoo!Later(time + seconds, throttled)
            /\ blocked' = IF Yahoo!Is(r, "live") THEN time + seconds ELSE blocked
        BY <1>7 DEF Yahoo!RateLimited
    <2>2. time + seconds \in Nat
        BY <1>1, YahooBounds DEF Yahoo!RetryAfter
    <2>3. {cooldown', blocked', throttled'} \subseteq Nat /\ throttled' <= cooldown'
        BY <1>1, <2>1, <2>2 DEF Yahoo!Later
    <2>. QED
        BY <1>1, <1>7, <2>3, OpEnds DEF Yahoo!RateLimited
<1>. QED
    BY <1>2, <1>3, <1>4, <1>5, <1>6, <1>7, FetchPageKeeps, CommitLeagueKeeps

(* Every step of the scraper keeps its invariant.                          *)
LEMMA YahooKept ==
    ASSUME YahooInv, [Yahoo!Next]_(Yahoo!vars) PROVE YahooInv'
<1>1. /\ time \in 0..MaxTime /\ moves \in 0..MaxMoves /\ blocked \in Nat
      /\ weekly \in {"unavailable", "available", "stale"}
      /\ cookie \in 0..MaxSaves /\ restarts \in 0..MaxRestarts
    BY DEF YahooInv, Yahoo!TypeOK
<1>2. CASE UNCHANGED Yahoo!vars
    BY <1>1, <1>2, QuietYahooStep DEF Yahoo!vars
<1>3. CASE Yahoo!Tick \/ Yahoo!SaveScraperSettings \/ Yahoo!WeeklyAges
    BY <1>1, <1>3, YahooBounds, QuietYahooStep
       DEF Yahoo!Tick, Yahoo!SaveScraperSettings, Yahoo!WeeklyAges
<1>4. CASE Yahoo!Restart
    <2>1. op' \in [Requests -> YahooOps] /\ \A r \in Requests : OpSound(op'[r], owner')
        BY <1>4, YahooIdle DEF Yahoo!Restart
    <2>2. Yahoo!TypeOK'
        BY <1>1, <1>4, <2>1, YahooBounds DEF Yahoo!Restart, YahooInv, Yahoo!TypeOK, YahooOps
    <2>3. Yahoo!RostersCredible' /\ throttled' <= cooldown'
        BY <1>4 DEF Yahoo!Restart, YahooInv, Yahoo!RostersCredible
    <2>. QED
        BY <2>1, <2>2, <2>3 DEF YahooInv, OpSound
<1>. QED
    BY <1>2, <1>3, <1>4, MoveKeeps, YahooHandlerKeeps DEF Yahoo!Next

(* Whoever begins an operation sees the cooldown over.                     *)
LEMMA BegunAfterThrottle ==
    ASSUME YahooInv, Yahoo!Next, NEW r \in Requests,
           op[r].kind = "none", op'[r].kind # "none"
    PROVE  time >= throttled
<1>1. /\ op \in [Requests -> YahooOps] /\ throttled <= cooldown
      /\ throttled \in Nat /\ cooldown \in Nat /\ time \in Nat
    BY YahooBounds DEF YahooInv, Yahoo!TypeOK, YahooOps
<1>2. ASSUME NEW q \in Requests,
             \/ Yahoo!SyncScrapedUrls(q) \/ Yahoo!RefreshWeeklyProjections(q)
             \/ Yahoo!SyncScrapedDraftResults(q)
      PROVE  time >= throttled
    <2>1. ~(cooldown > time)
        BY <1>2 DEF Yahoo!SyncScrapedUrls, Yahoo!RefreshWeeklyProjections,
                    Yahoo!SyncScrapedDraftResults, Yahoo!RateLimitRemains
    <2>. QED
        BY <1>1, <2>1
<1>3. ASSUME NEW q \in Requests, op[q].kind # "none", NEW o, op' = [op EXCEPT ![q] = o]
      PROVE  FALSE
    BY <1>1, <1>3
<1>4. ASSUME op' = [q \in Requests |-> Yahoo!Idle] PROVE FALSE
    BY <1>4, YahooIdle
<1>5. ASSUME Yahoo!Move PROVE FALSE
    <2>1. op'[r] = op[r]
        BY <1>5 DEF Yahoo!Move, Yahoo!Is
    <2>. QED
        BY <2>1
<1>6. ASSUME NEW q \in Requests, Yahoo!FetchPage(q) PROVE FALSE
    BY <1>1, <1>6 DEF Yahoo!FetchPage, Yahoo!Is
<1>7. ASSUME NEW q \in Requests, Yahoo!CommitLeague(q) \/ Yahoo!LeagueFails(q) PROVE FALSE
    BY <1>3, <1>7 DEF Yahoo!CommitLeague, Yahoo!LeagueFails, Yahoo!NextLeague, Yahoo!End, Yahoo!Is
<1>8. ASSUME NEW q \in Requests,
             Yahoo!FinishWeekly(q) \/ Yahoo!FinishLive(q) \/ Yahoo!RateLimited(q)
      PROVE  FALSE
    BY <1>3, <1>8 DEF Yahoo!FinishWeekly, Yahoo!FinishLive, Yahoo!RateLimited, Yahoo!End, Yahoo!Is
<1>9. ~UNCHANGED op
    OBVIOUS
<1>. QED
    BY <1>2, <1>4, <1>5, <1>6, <1>7, <1>8, <1>9
       DEF Yahoo!Next, Yahoo!Tick, Yahoo!SaveScraperSettings, Yahoo!WeeklyAges, Yahoo!Restart

(* A step of the composition is a step of the scraper or leaves it alone.  *)
LEMMA YahooOnly ==
    ASSUME [Next]_vars PROVE [Yahoo!Next]_(Yahoo!vars)
BY DEF Next, vars, YahooStep, NewsStep, CacheStep, SleeperStep, AnalysisStep, SeasonStep,
       LineupStep, yahooVars, Yahoo!vars

-----------------------------------------------------------------------------
(* A finite set of numbers has a greatest one.                             *)
LEMMA GreatestIndex ==
    ASSUME NEW T, T \subseteq Nat, T # {}, NEW bound \in Nat, \A i \in T : i <= bound
    PROVE  \E i \in T : \A j \in T : j <= i
<1>. DEFINE R == {ss \in Nat \X Nat : ss[1] < ss[2]}
            gaps == {bound - i : i \in T}
<1>1. IsWellFoundedOn(R, Nat)
    BY NatLessThanWellFounded DEF OpToRel
<1>2. gaps \subseteq Nat /\ gaps # {}
    <2>1. \A i \in T : i \in Nat /\ bound - i \in Nat
        OBVIOUS
    <2>. QED
        BY <2>1
<1>3. \A i, j \in Nat : j < i => <<j, i>> \in R
    OBVIOUS
<1>. HIDE DEF R
<1>4. PICK gap \in gaps : \A other \in gaps : ~(<<other, gap>> \in R)
    <2>. HIDE DEF gaps
    <2>. QED
        BY <1>1, <1>2, WFMin
<1>5. PICK i \in T : gap = bound - i
    OBVIOUS
<1>6. ASSUME NEW j \in T PROVE j <= i
    <2>1. /\ bound - j \in gaps /\ bound - j \in Nat /\ bound - i \in Nat
          /\ i \in Nat /\ j \in Nat
        BY <1>2, <1>5
    <2>2. ~(bound - j < bound - i)
        BY <1>3, <1>4, <1>5, <2>1
    <2>. QED
        BY <2>1, <2>2
<1>. QED
    BY <1>6

-----------------------------------------------------------------------------
(* A cached source.  One download at a time, and what it brings is of the  *)
(* edition that was out when it began, which no snapshot is newer than.    *)
CacheInv ==
    /\ Cache!TypeOK
    /\ edition <= clock /\ begun <= clock
    /\ \A i \in DOMAIN snapshots : snapshots[i].at <= clock /\ snapshots[i].edition <= edition
    /\ \A i, j \in DOMAIN snapshots : i <= j => snapshots[i].at <= snapshots[j].at
    /\ \A q, r \in Requests : download[q] # Cache!Idle /\ download[r] # Cache!Idle => q = r
    /\ \A r \in Requests : download[r] # Cache!Idle =>
        /\ download[r] <= edition
        /\ \A i \in DOMAIN snapshots : snapshots[i].edition <= download[r]
    /\ (cacheRestarts = 0 /\ begun # Cache!Never /\ Cache!LockFree) =>
        snapshots # <<>> /\ begun <= snapshots[Len(snapshots)].at

(* What is assumed of the retry time, the day and the bounds.              *)
LEMMA CacheBounds ==
    /\ Retry \in Nat \ {0} /\ Day \in Nat /\ Retry <= Day
    /\ SeasonEnd \in Nat /\ Old \in Nat /\ CacheTime \in Nat
    /\ MaxSnapshots \in Nat /\ MaxRestarts \in Nat
BY CacheAssumption DEF Cache!SourceCacheAssumption

(* A snapshot, by its index.                                               *)
LEMMA SnapshotTyped ==
    ASSUME Cache!TypeOK, NEW i \in DOMAIN snapshots
    PROVE  /\ i \in 1..Len(snapshots) /\ snapshots[i] \in Cache!Snapshots
           /\ snapshots[i].at \in 0..CacheTime /\ snapshots[i].edition \in 0..CacheTime
           /\ snapshots[i].status \in {"fresh", "error"}
<1>1. i \in 1..Len(snapshots) /\ snapshots[i] \in Cache!Snapshots
    BY DEF Cache!TypeOK
<1>. QED
    BY <1>1 DEF Cache!Snapshots

(* Before the first download there is no snapshot and nobody downloads.    *)
LEMMA CacheInit == Cache!Init => CacheInv
<1>. SUFFICES ASSUME Cache!Init PROVE CacheInv
    OBVIOUS
<1>1. snapshots = <<>> /\ DOMAIN snapshots = {} /\ Len(snapshots) = 0
      /\ snapshots \in Seq(Cache!Snapshots)
    BY DEF Cache!Init
<1>2. Cache!TypeOK
    BY <1>1, CacheBounds DEF Cache!Init, Cache!TypeOK
<1>. QED
    BY <1>1, <1>2 DEF Cache!Init, CacheInv, Cache!Never, Cache!Idle

(* Time goes on and the source may publish an edition: what is stored      *)
(* becomes older, not newer.                                               *)
LEMMA CacheTickKeeps ==
    ASSUME CacheInv, Cache!Tick PROVE CacheInv'
<1>1. /\ clock \in 0..CacheTime /\ edition \in 0..CacheTime /\ begun \in {-1} \cup 0..CacheTime
      /\ clock' = clock + 1 /\ clock' \in 0..CacheTime
      /\ edition' \in 0..CacheTime /\ edition <= edition' /\ edition' <= clock'
      /\ UNCHANGED <<snapshots, download, begun, cacheRestarts>>
    BY CacheBounds DEF CacheInv, Cache!TypeOK, Cache!Tick, Cache!Never
<1>2. Cache!TypeOK'
    BY <1>1 DEF CacheInv, Cache!TypeOK
<1>3. \A i \in DOMAIN snapshots : snapshots[i].at <= clock' /\ snapshots[i].edition <= edition'
    BY <1>1, SnapshotTyped DEF CacheInv
<1>4. \A r \in Requests : download[r] # Cache!Idle => download[r] \in Nat /\ download[r] <= edition'
    BY <1>1 DEF CacheInv, Cache!TypeOK
<1>. QED
    BY <1>1, <1>2, <1>3, <1>4 DEF CacheInv, Cache!LockFree

(* A restart takes the downloads away, and the distance to what they       *)
(* began is no longer known.                                               *)
LEMMA CacheRestartKeeps ==
    ASSUME CacheInv, Cache!Restart PROVE CacheInv'
<1>1. Cache!TypeOK'
    BY CacheBounds DEF CacheInv, Cache!TypeOK, Cache!Restart
<1>2. cacheRestarts' # 0 /\ \A r \in Requests : download'[r] = Cache!Idle
    BY DEF CacheInv, Cache!TypeOK, Cache!Restart
<1>3. UNCHANGED <<clock, edition, snapshots, begun>>
    BY DEF Cache!Restart
<1>. QED
    BY <1>1, <1>2, <1>3 DEF CacheInv

(* refresh_source begins a download only with the lease, so nobody else's  *)
(* is under way.                                                           *)
LEMMA RefreshKeeps ==
    ASSUME CacheInv, NEW r \in Requests, Cache!RefreshSource(r) PROVE CacheInv'
<1>1. /\ \A q \in Requests : download[q] = Cache!Idle
      /\ download' = [download EXCEPT ![r] = edition]
      /\ begun' \in {begun, clock}
      /\ UNCHANGED <<clock, edition, snapshots, cacheRestarts>>
    BY DEF Cache!RefreshSource, Cache!Download, Cache!LockFree
<1>2. /\ download \in [Requests -> {Cache!Idle} \cup 0..CacheTime]
      /\ clock \in 0..CacheTime /\ edition \in 0..CacheTime
    BY DEF CacheInv, Cache!TypeOK
<1>3. Cache!TypeOK'
    BY <1>1, <1>2 DEF CacheInv, Cache!TypeOK
<1>4. begun' <= clock
    BY <1>1, <1>2 DEF CacheInv
<1>5. \A q \in Requests : download'[q] = IF q = r THEN edition ELSE Cache!Idle
    BY <1>1, <1>2
<1>6. ~Cache!LockFree'
    BY <1>2, <1>5 DEF Cache!LockFree, Cache!Idle
<1>. QED
    BY <1>1, <1>2, <1>3, <1>4, <1>5, <1>6 DEF CacheInv

(* A snapshot that is added is the newest.                                 *)
LEMMA StoreKeeps ==
    ASSUME CacheInv, NEW r \in Requests, Cache!StoreSnapshot(r) PROVE CacheInv'
<1>1. PICK status \in {"fresh", "error"} :
        snapshots' = Append(snapshots, [at |-> clock, status |-> status, edition |-> download[r]])
    BY DEF Cache!StoreSnapshot, Cache!Parsed
<1>. DEFINE new == [at |-> clock, status |-> status, edition |-> download[r]]
<1>2. /\ download[r] # Cache!Idle /\ Len(snapshots) < MaxSnapshots
      /\ download' = [download EXCEPT ![r] = Cache!Idle]
      /\ UNCHANGED <<clock, edition, begun, cacheRestarts>>
    BY DEF Cache!StoreSnapshot
<1>3. /\ download \in [Requests -> {Cache!Idle} \cup 0..CacheTime]
      /\ clock \in 0..CacheTime /\ edition \in 0..CacheTime
      /\ snapshots \in Seq(Cache!Snapshots) /\ Len(snapshots) \in Nat
    BY DEF CacheInv, Cache!TypeOK
<1>4. /\ download[r] \in 0..CacheTime /\ download[r] <= edition
      /\ \A i \in DOMAIN snapshots : snapshots[i].edition <= download[r]
    BY <1>2, <1>3 DEF CacheInv
<1>5. new \in Cache!Snapshots /\ new.at = clock /\ new.edition = download[r]
    BY <1>3, <1>4 DEF Cache!Snapshots
<1>. HIDE DEF new
<1>6. /\ snapshots' \in Seq(Cache!Snapshots) /\ Len(snapshots') = Len(snapshots) + 1
      /\ DOMAIN snapshots = 1..Len(snapshots) /\ DOMAIN snapshots' = 1..Len(snapshots')
      /\ \A i \in DOMAIN snapshots : snapshots'[i] = snapshots[i]
      /\ snapshots'[Len(snapshots')] = new
    BY <1>1, <1>3, <1>5, AppendProperties DEF new
<1>7. \A q \in Requests : download'[q] = Cache!Idle
    BY <1>2, <1>3 DEF CacheInv
<1>8. Cache!TypeOK'
    BY <1>2, <1>3, <1>6, CacheBounds DEF CacheInv, Cache!TypeOK
<1>9. ASSUME NEW i \in DOMAIN snapshots'
      PROVE  \/ i \in DOMAIN snapshots /\ snapshots'[i] = snapshots[i]
             \/ i = Len(snapshots') /\ snapshots'[i] = new
    BY <1>3, <1>6
<1>10. \A i \in DOMAIN snapshots' : snapshots'[i].at <= clock /\ snapshots'[i].edition <= edition
    BY <1>3, <1>4, <1>5, <1>9 DEF CacheInv
<1>11. ASSUME NEW i \in DOMAIN snapshots', NEW j \in DOMAIN snapshots', i <= j
       PROVE  snapshots'[i].at <= snapshots'[j].at
    <2>1. CASE j \in DOMAIN snapshots
        BY <1>6, <1>11, <2>1 DEF CacheInv
    <2>2. CASE j \notin DOMAIN snapshots
        BY <1>5, <1>9, <1>10, <2>2
    <2>. QED
        BY <2>1, <2>2
<1>12. snapshots' # <<>> /\ begun <= snapshots'[Len(snapshots')].at
    <2>1. snapshots' # <<>>
        BY <1>3, <1>6
    <2>. QED
        BY <1>5, <1>6, <2>1 DEF CacheInv
<1>. QED
    BY <1>2, <1>7, <1>8, <1>10, <1>11, <1>12 DEF CacheInv

(* Every step of the cached source keeps its invariant.                    *)
LEMMA CacheKept ==
    ASSUME CacheInv, [Cache!Next]_(Cache!vars) PROVE CacheInv'
<1>1. CASE UNCHANGED Cache!vars
    BY <1>1 DEF Cache!vars, CacheInv, Cache!TypeOK, Cache!LockFree
<1>. QED
    BY <1>1, CacheTickKeeps, CacheRestartKeeps, RefreshKeeps, StoreKeeps DEF Cache!Next

(* A download nobody forced keeps the distance.                            *)
LEMMA DownloadSpaced ==
    ASSUME CacheInv, Cache!Next, begun' # begun
    PROVE  /\ \A i \in DOMAIN snapshots : clock - snapshots[i].at >= Retry
           /\ (begun # Cache!Never /\ cacheRestarts = 0) => clock - begun >= Retry
<1>1. Cache!LockFree /\ Cache!Due
    BY DEF Cache!Next, Cache!Tick, Cache!Restart, Cache!StoreSnapshot, Cache!RefreshSource,
           Cache!Download
<1>2. /\ clock \in Nat /\ begun \in {-1} \cup Nat
      /\ snapshots \in Seq(Cache!Snapshots) /\ Len(snapshots) \in Nat
      /\ DOMAIN snapshots = 1..Len(snapshots)
    BY CacheBounds DEF CacheInv, Cache!TypeOK, Cache!Never
<1>3. ASSUME snapshots # <<>>
      PROVE  /\ Len(snapshots) \in DOMAIN snapshots
             /\ clock - snapshots[Len(snapshots)].at >= Retry
    <2>1. Len(snapshots) \in DOMAIN snapshots
        BY <1>2, <1>3
    <2>2. \/ clock - snapshots[Len(snapshots)].at >= Retry
          \/ clock - snapshots[Len(snapshots)].at >= Day
        BY <1>1, <1>3 DEF Cache!Due, Cache!Last
    <2>. QED
        BY <1>2, <2>1, <2>2, CacheBounds, SnapshotTyped DEF CacheInv
<1>4. ASSUME NEW i \in DOMAIN snapshots PROVE clock - snapshots[i].at >= Retry
    <2>1. i <= Len(snapshots) /\ snapshots # <<>>
        BY <1>2
    <2>2. snapshots[i].at <= snapshots[Len(snapshots)].at
        BY <1>3, <2>1 DEF CacheInv
    <2>. QED
        BY <1>2, <1>3, <2>1, <2>2, CacheBounds, SnapshotTyped DEF CacheInv
<1>5. ASSUME begun # Cache!Never, cacheRestarts = 0 PROVE clock - begun >= Retry
    <2>1. snapshots # <<>> /\ begun <= snapshots[Len(snapshots)].at
        BY <1>1, <1>5 DEF CacheInv
    <2>. QED
        BY <1>2, <1>3, <2>1, CacheBounds, SnapshotTyped DEF CacheInv
<1>. QED
    BY <1>4, <1>5

-----------------------------------------------------------------------------
(* The greatest of a bounded set is in it.                                 *)
LEMMA MaxOf ==
    ASSUME NEW T, T \subseteq Nat, T # {}, NEW bound \in Nat, \A i \in T : i <= bound
    PROVE  Cache!Max(T) \in T /\ \A i \in T : i <= Cache!Max(T)
<1>1. \E i \in T : \A j \in T : j <= i
    BY GreatestIndex
<1>2. \E i \in T : \A j \in T : i >= j
    BY <1>1
<1>3. Cache!Max(T) \in T /\ \A j \in T : Cache!Max(T) >= j
    BY <1>2 DEF Cache!Max
<1>. QED
    BY <1>3

(* A step that stays in the season leaves the latest good edition or       *)
(* stores one that is not older, failed attempts included.                 *)
LEMMA EvidenceGrows ==
    ASSUME CacheInv, Cache!Next, clock' <= SeasonEnd
    PROVE  Cache!Evidence' >= Cache!Evidence
<1>1. CacheInv'
    BY CacheKept
<1>2. clock <= SeasonEnd /\ clock \in Nat
    BY CacheBounds DEF CacheInv, Cache!TypeOK, Cache!Next, Cache!Tick, Cache!Restart,
                       Cache!RefreshSource, Cache!Download, Cache!StoreSnapshot
<1>3. Cache!Evidence = IF Cache!Good = {} THEN -1 ELSE Cache!LatestGood.edition
    <2>1. ~(clock > SeasonEnd)
        BY <1>2, CacheBounds
    <2>. QED
        BY <2>1 DEF Cache!Evidence, Cache!EvidenceStatus, Cache!Never
<1>4. Cache!Evidence' = IF Cache!Good' = {} THEN -1 ELSE Cache!LatestGood.edition'
    <2>1. ~(clock' > SeasonEnd)
        BY <1>1, CacheBounds DEF CacheInv, Cache!TypeOK
    <2>. QED
        BY <2>1 DEF Cache!Evidence, Cache!EvidenceStatus, Cache!Never
<1>5. Cache!Good # {} => Cache!Max(Cache!Good) \in DOMAIN snapshots
    <2>1. /\ Cache!Good \subseteq DOMAIN snapshots /\ Cache!Good \subseteq Nat
          /\ Len(snapshots) \in Nat /\ \A i \in Cache!Good : i <= Len(snapshots)
        BY DEF CacheInv, Cache!TypeOK, Cache!Good
    <2>. QED
        BY <2>1, MaxOf
<1>6. Cache!Evidence \in {-1} \cup Nat
    BY <1>3, <1>5, SnapshotTyped DEF CacheInv, Cache!LatestGood
<1>7. CASE UNCHANGED snapshots
    <2>1. Cache!Good' = Cache!Good /\ Cache!LatestGood' = Cache!LatestGood
        BY <1>7 DEF Cache!Good, Cache!LatestGood, Cache!Max
    <2>. QED
        BY <1>3, <1>4, <1>6, <2>1
<1>8. ASSUME NEW r \in Requests, Cache!StoreSnapshot(r) PROVE Cache!Evidence' >= Cache!Evidence
    <2>1. PICK status \in {"fresh", "error"} :
            snapshots' = Append(snapshots,
                                [at |-> clock, status |-> status, edition |-> download[r]])
        BY <1>8 DEF Cache!StoreSnapshot, Cache!Parsed
    <2>. DEFINE n == Len(snapshots) + 1
    <2>2. /\ snapshots \in Seq(Cache!Snapshots) /\ Len(snapshots) \in Nat
          /\ download[r] # Cache!Idle /\ download[r] \in Nat
          /\ \A i \in DOMAIN snapshots : snapshots[i].edition <= download[r]
        BY <1>8 DEF CacheInv, Cache!TypeOK, Cache!StoreSnapshot
    <2>3. /\ DOMAIN snapshots' = 1..n /\ DOMAIN snapshots = 1..(n - 1)
          /\ \A i \in 1..(n - 1) : snapshots'[i] = snapshots[i]
          /\ snapshots'[n] = [at |-> clock, status |-> status, edition |-> download[r]]
        BY <2>1, <2>2
    <2>4. CASE status = "error"
        <3>1. Cache!Good' = Cache!Good
            BY <2>2, <2>3, <2>4 DEF Cache!Good
        <3>2. Cache!Good # {} => Cache!LatestGood' = Cache!LatestGood
            <4>1. Cache!Max(Cache!Good') = Cache!Max(Cache!Good)
                BY <3>1
            <4>. QED
                BY <1>5, <2>3, <4>1 DEF Cache!LatestGood, Cache!Max
        <3>. QED
            BY <1>3, <1>4, <1>6, <3>1, <3>2
    <2>5. CASE status = "fresh"
        <3>1. n \in Cache!Good' /\ \A i \in Cache!Good' : i <= n
            BY <2>2, <2>3, <2>5 DEF Cache!Good
        <3>2. Cache!Good' \subseteq Nat /\ n \in Nat
            BY <2>2, <2>3 DEF Cache!Good
        <3>3. Cache!Max(Cache!Good') \in Cache!Good'
              /\ \A i \in Cache!Good' : i <= Cache!Max(Cache!Good')
            BY <3>1, <3>2, MaxOf
        <3>4. Cache!Max(Cache!Good') = n
            <4>. HIDE DEF n
            <4>1. Cache!Max(Cache!Good') \in Nat
                BY <3>2, <3>3
            <4>2. Cache!Max(Cache!Good') <= n /\ n <= Cache!Max(Cache!Good')
                BY <3>1, <3>3
            <4>. QED
                BY <3>2, <4>1, <4>2
        <3>5. Cache!LatestGood.edition' = download[r]
            BY <2>3, <3>4 DEF Cache!LatestGood
        <3>6. Cache!Evidence <= download[r]
            BY <1>3, <1>5, <2>2 DEF Cache!LatestGood
        <3>. QED
            BY <1>4, <1>6, <2>2, <3>1, <3>5, <3>6
    <2>. QED
        BY <2>4, <2>5
<1>. QED
    BY <1>7, <1>8 DEF Cache!Next, Cache!Tick, Cache!Restart, Cache!RefreshSource, Cache!Download

(* A step of the composition is a step of the cached source or leaves it   *)
(* alone.                                                                  *)
LEMMA CacheOnly ==
    ASSUME [Next]_vars PROVE [Cache!Next]_(Cache!vars)
BY DEF Next, vars, YahooStep, NewsStep, CacheStep, SleeperStep, AnalysisStep, SeasonStep,
       LineupStep, cacheVars, Cache!vars

-----------------------------------------------------------------------------
(* A pool of Sleeper's.  What a request carries is of the types of the     *)
(* rules and rosters.                                                      *)
RequestTyped(q) ==
    /\ q.at \in {"idle", "asked", "asking", "fetched", "updating", "saving"}
    /\ q.at \in {"asking", "fetched", "updating", "saving"} => q.rules \in RuleSets
    /\ q.at = "updating" => q.unpicked \in BOOLEAN /\ (q.changed => q.unpicked)
    /\ q.at = "fetched" => q.rosters \subseteq Rosters
    /\ q.at = "saving" => q.entry \in Rosters

SleeperTyped ==
    /\ Sleeper!TypeOK
    /\ DOMAIN request = Requests
    /\ \A r \in Requests : RequestTyped(request[r])

(* Before the first import there is no pool and no request.                *)
LEMMA SleeperTypedInit == Sleeper!Init => SleeperTyped
<1>. SUFFICES ASSUME Sleeper!Init PROVE SleeperTyped
    OBVIOUS
<1>1. DOMAIN request = Requests /\ \A r \in Requests : request[r] = [at |-> "idle"]
    BY DEF Sleeper!Init, Sleeper!Idle
<1>2. Sleeper!TypeOK
    BY <1>1, SleeperAssumption DEF Sleeper!Init, Sleeper!TypeOK, Sleeper!SleeperPoolsAssumption
<1>. QED
    BY <1>1, <1>2 DEF SleeperTyped, RequestTyped

(* A request that goes on, with what becomes of the pool.                  *)
LEMMA RequestGoesOn ==
    ASSUME SleeperTyped, NEW r \in Requests, NEW q, RequestTyped(q),
           request' = [request EXCEPT ![r] = q], UNCHANGED <<remote, changes>>,
           pool' \in Sleeper!Pools \cup {Sleeper!NoPool}
    PROVE  SleeperTyped'
<1>1. DOMAIN request' = Requests /\ \A p \in Requests : RequestTyped(request'[p])
    BY DEF SleeperTyped
<1>2. Sleeper!TypeOK'
    BY <1>1 DEF SleeperTyped, Sleeper!TypeOK, RequestTyped
<1>. QED
    BY <1>1, <1>2 DEF SleeperTyped, RequestTyped

(* The rules that a row gets are all that changes in it, and it is         *)
(* overtaken if a card with others is to be saved.                         *)
LEMMA RulesWritten ==
    ASSUME NEW row \in Sleeper!Pools, NEW given \in RuleSets
    PROVE  LET new == Sleeper!WithRules(row, given)
           IN  /\ new \in Sleeper!Pools /\ new.rules = given
               /\ new.id = row.id /\ new.entries = row.entries /\ new.picked = row.picked
               /\ ~new.overtaken =>
                    /\ ~row.overtaken
                    /\ \A r \in Requests :
                         request[r].at = "saving" /\ request[r].id = row.id
                         => request[r].rules = given
<1>. DEFINE late == row.overtaken \/ \E r \in Requests : /\ request[r].at = "saving"
                                                       /\ request[r].id = row.id
                                                       /\ request[r].rules # given
            new == Sleeper!WithRules(row, given)
<1>1. row.overtaken \in BOOLEAN
    BY DEF Sleeper!Pools
<1>2. late \in BOOLEAN
    BY <1>1, Zenon
<1>3. new = [row EXCEPT !.rules = given, !.overtaken = late]
    BY DEF Sleeper!WithRules
<1>4. ~late => /\ ~row.overtaken
               /\ \A r \in Requests : request[r].at = "saving" /\ request[r].id = row.id
                                      => request[r].rules = given
    OBVIOUS
<1>. HIDE DEF late, new
<1>5. /\ new \in Sleeper!Pools /\ new.rules = given /\ new.overtaken = late
      /\ new.id = row.id /\ new.entries = row.entries /\ new.picked = row.picked
    BY <1>2, <1>3 DEF Sleeper!Pools
<1>. QED
    BY <1>4, <1>5 DEF new

(* save_import writes a pool of the remote rules and rosters.              *)
LEMMA SaveWrites ==
    ASSUME SleeperTyped, NEW r \in Requests, request[r].at = "fetched", Sleeper!Save(r)
    PROVE  /\ pool' \in Sleeper!Pools /\ pool'.rules = request[r].rules
           /\ pool # Sleeper!NoPool =>
                pool'.picked = pool.picked /\ pool.entries \subseteq pool'.entries
           /\ pool = Sleeper!NoPool => pool'.picked = {}
           /\ ~pool'.overtaken =>
                /\ pool # Sleeper!NoPool => ~pool.overtaken
                /\ \A q \in Requests : request[q].at = "saving" /\ request[q].id = pool'.id
                                       => request[q].rules = pool'.rules
<1>1. request[r].rules \in RuleSets /\ request[r].rosters \subseteq Rosters
    BY DEF SleeperTyped, RequestTyped
<1>2. CASE pool # Sleeper!NoPool
    <2>. DEFINE row == [pool EXCEPT !.entries = @ \cup request[r].rosters]
    <2>1. pool \in Sleeper!Pools
        BY <1>2 DEF SleeperTyped, Sleeper!TypeOK
    <2>2. /\ row \in Sleeper!Pools /\ row.picked = pool.picked /\ row.overtaken = pool.overtaken
          /\ row.id = pool.id /\ row.entries = pool.entries \cup request[r].rosters
        BY <1>1, <2>1 DEF Sleeper!Pools
    <2>3. pool' = Sleeper!WithRules(row, request[r].rules)
        BY <1>2 DEF Sleeper!Save, Sleeper!Exists
    <2>. HIDE DEF row
    <2>4. /\ pool' \in Sleeper!Pools /\ pool'.rules = request[r].rules /\ pool'.id = pool.id
          /\ pool'.picked = pool.picked /\ pool'.entries = row.entries
          /\ ~pool'.overtaken =>
                /\ ~pool.overtaken
                /\ \A q \in Requests : request[q].at = "saving" /\ request[q].id = pool.id
                                       => request[q].rules = request[r].rules
        BY <1>1, <2>2, <2>3, RulesWritten
    <2>. QED
        BY <1>2, <2>2, <2>4
<1>3. CASE pool = Sleeper!NoPool
    <2>1. PICK id \in Ids :
            pool' = Sleeper!NewPool(id, TRUE, request[r].rules, request[r].rosters)
        BY <1>3 DEF Sleeper!Save, Sleeper!Exists
    <2>. DEFINE row == [id |-> id, linked |-> TRUE, rules |-> request[r].rules,
                        entries |-> request[r].rosters, picked |-> {}, overtaken |-> FALSE]
    <2>2. /\ row \in Sleeper!Pools /\ row.picked = {}
          /\ pool' = Sleeper!WithRules(row, request[r].rules)
        BY <1>1, <2>1 DEF Sleeper!NewPool, Sleeper!Pools
    <2>. HIDE DEF row
    <2>3. /\ pool' \in Sleeper!Pools /\ pool'.rules = request[r].rules /\ pool'.id = row.id
          /\ pool'.picked = {}
          /\ ~pool'.overtaken =>
                \A q \in Requests : request[q].at = "saving" /\ request[q].id = row.id
                                   => request[q].rules = request[r].rules
        BY <1>1, <2>2, RulesWritten
    <2>. QED
        BY <1>3, <2>3
<1>. QED
    BY <1>2, <1>3

(* update_pool writes its rules, if they had changed, or nothing.          *)
LEMMA UpdateWrites ==
    ASSUME SleeperTyped, NEW r \in Requests, Sleeper!UpdatePool(r), ~UNCHANGED pool
    PROVE  /\ pool # Sleeper!NoPool /\ pool' \in Sleeper!Pools
           /\ request[r].changed /\ request[r].unpicked
           /\ pool'.rules = request[r].rules /\ pool'.picked = pool.picked
           /\ ~pool'.overtaken =>
                /\ ~pool.overtaken /\ pool.picked = {}
                /\ \A q \in Requests : request[q].at = "saving" /\ request[q].id = pool'.id
                                       => request[q].rules = pool'.rules
<1>. DEFINE new == Sleeper!WithRules(pool, request[r].rules)
<1>1. /\ pool # Sleeper!NoPool /\ request[r].at = "updating" /\ request[r].changed
      /\ pool' = [new EXCEPT !.overtaken = @ \/ (request[r].unpicked /\ Sleeper!HasPicks)]
    BY DEF Sleeper!UpdatePool, Sleeper!Exists
<1>2. /\ pool \in Sleeper!Pools /\ request[r].rules \in RuleSets
      /\ request[r].unpicked \in BOOLEAN /\ request[r].unpicked
    BY <1>1 DEF SleeperTyped, Sleeper!TypeOK, RequestTyped
<1>. DEFINE late == new.overtaken \/ Sleeper!HasPicks
<1>3. /\ new \in Sleeper!Pools /\ new.rules = request[r].rules
      /\ new.id = pool.id /\ new.picked = pool.picked
      /\ ~new.overtaken =>
            /\ ~pool.overtaken
            /\ \A q \in Requests : request[q].at = "saving" /\ request[q].id = pool.id
                                   => request[q].rules = request[r].rules
    BY <1>2, RulesWritten
<1>. HIDE DEF new
<1>4. new.overtaken \in BOOLEAN /\ Sleeper!HasPicks \in BOOLEAN
    BY <1>3 DEF Sleeper!Pools, Sleeper!HasPicks
<1>5. late \in BOOLEAN /\ pool' = [new EXCEPT !.overtaken = late]
    BY <1>1, <1>2, <1>4, Zenon
<1>6. ~late => ~new.overtaken /\ pool.picked = {}
    BY <1>1 DEF Sleeper!HasPicks, Sleeper!Exists
<1>. HIDE DEF late
<1>7. /\ pool' \in Sleeper!Pools /\ pool'.rules = new.rules /\ pool'.id = new.id
      /\ pool'.picked = new.picked /\ pool'.overtaken = late
    BY <1>3, <1>5 DEF Sleeper!Pools
<1>. QED
    BY <1>1, <1>2, <1>3, <1>6, <1>7

(* save_weekly_card changes the picks of an entry only, and those it adds  *)
(* were judged by the rules it loaded.                                     *)
LEMMA CardWrites ==
    ASSUME SleeperTyped, NEW r \in Requests, Sleeper!SaveWeeklyCard(r), ~UNCHANGED pool
    PROVE  /\ pool # Sleeper!NoPool /\ pool' \in Sleeper!Pools
           /\ request[r].id = pool.id /\ request[r].at = "saving"
           /\ pool'.id = pool.id /\ pool'.rules = pool.rules /\ pool'.entries = pool.entries
           /\ pool'.overtaken = pool.overtaken
           /\ \A p \in pool'.picked : p \in pool.picked \/ p.rules = request[r].rules
<1>. DEFINE pick == [entry |-> request[r].entry, rules |-> request[r].rules]
<1>1. /\ pool # Sleeper!NoPool /\ request[r].id = pool.id /\ request[r].at = "saving"
      /\ \E kept \in SUBSET pool.picked, new \in SUBSET {pick} :
            pool' = [pool EXCEPT !.picked = kept \cup new]
    BY DEF Sleeper!SaveWeeklyCard, Sleeper!Exists
<1>2. /\ pool \in Sleeper!Pools /\ request[r].rules \in RuleSets /\ request[r].entry \in Rosters
    BY <1>1 DEF SleeperTyped, Sleeper!TypeOK, RequestTyped
<1>3. pick \in Sleeper!Picks /\ pick.rules = request[r].rules
    BY <1>2 DEF Sleeper!Picks
<1>. HIDE DEF pick
<1>4. PICK kept \in SUBSET pool.picked, new \in SUBSET {pick} :
        pool' = [pool EXCEPT !.picked = kept \cup new]
    BY <1>1
<1>5. pool.picked \subseteq Sleeper!Picks
    BY <1>2 DEF Sleeper!Pools
<1>. QED
    BY <1>1, <1>2, <1>3, <1>4, <1>5 DEF Sleeper!Pools

(* The steps of the handlers of sleeper_pools.py, of the edit and of a     *)
(* card's save keep the types of pool and requests.                        *)
LEMMA SleeperHandlerKeeps ==
    ASSUME SleeperTyped, NEW r \in Requests,
           \/ Sleeper!ImportSleeperPool(r) \/ Sleeper!RefreshSleeperPool(r) \/ Sleeper!GetLeague(r)
           \/ Sleeper!GetRosters(r) \/ Sleeper!SleeperFails(r) \/ Sleeper!SaveImport(r)
           \/ Sleeper!LoadPool(r) \/ Sleeper!UpdatePool(r) \/ Sleeper!LoadCard(r)
           \/ Sleeper!SaveWeeklyCard(r)
    PROVE  SleeperTyped'
<1>1. /\ RequestTyped(request[r]) /\ pool \in Sleeper!Pools \cup {Sleeper!NoPool}
      /\ remote.rules \in RuleSets /\ remote.rosters \subseteq Rosters
    BY DEF SleeperTyped, Sleeper!TypeOK
<1>2. RequestTyped(Sleeper!Idle)
    BY DEF RequestTyped, Sleeper!Idle
<1>3. CASE Sleeper!ImportSleeperPool(r)
    <2>1. request' = [request EXCEPT ![r] = [at |-> "asked", id |-> 0]]
        BY <1>3 DEF Sleeper!ImportSleeperPool, Sleeper!Ask
    <2>2. RequestTyped([at |-> "asked", id |-> 0])
        BY DEF RequestTyped
    <2>. QED
        BY <1>1, <1>3, <2>1, <2>2, RequestGoesOn DEF Sleeper!ImportSleeperPool
<1>4. CASE Sleeper!RefreshSleeperPool(r)
    <2>1. request' = [request EXCEPT ![r] = [at |-> "asked", id |-> pool.id]]
        BY <1>4 DEF Sleeper!RefreshSleeperPool, Sleeper!Ask
    <2>2. RequestTyped([at |-> "asked", id |-> pool.id])
        BY DEF RequestTyped
    <2>. QED
        BY <1>1, <1>4, <2>1, <2>2, RequestGoesOn DEF Sleeper!RefreshSleeperPool
<1>5. CASE Sleeper!GetLeague(r)
    <2>. DEFINE q == [at |-> "asking", id |-> request[r].id, rules |-> remote.rules]
    <2>1. request' = [request EXCEPT ![r] = q]
        BY <1>5 DEF Sleeper!GetLeague, Sleeper!SleeperRules
    <2>2. RequestTyped(q)
        BY <1>1 DEF RequestTyped
    <2>. HIDE DEF q
    <2>. QED
        BY <1>1, <1>5, <2>1, <2>2, RequestGoesOn DEF Sleeper!GetLeague
<1>6. CASE Sleeper!GetRosters(r)
    <2>. DEFINE q == [at |-> "fetched", id |-> request[r].id, rules |-> request[r].rules,
                      rosters |-> remote.rosters]
    <2>1. request' = [request EXCEPT ![r] = q] /\ request[r].at = "asking"
        BY <1>6 DEF Sleeper!GetRosters
    <2>2. RequestTyped(q)
        BY <1>1, <2>1 DEF RequestTyped
    <2>. HIDE DEF q
    <2>. QED
        BY <1>1, <1>6, <2>1, <2>2, RequestGoesOn DEF Sleeper!GetRosters
<1>7. CASE Sleeper!SleeperFails(r)
    BY <1>1, <1>2, <1>7, RequestGoesOn DEF Sleeper!SleeperFails
<1>8. CASE Sleeper!SaveImport(r)
    <2>1. pool' \in Sleeper!Pools \cup {Sleeper!NoPool}
        BY <1>1, <1>8, SaveWrites DEF Sleeper!SaveImport
    <2>. QED
        BY <1>2, <1>8, <2>1, RequestGoesOn DEF Sleeper!SaveImport
<1>9. CASE Sleeper!LoadPool(r)
    <2>1. PICK given \in RuleSets :
            request' = [request EXCEPT ![r] =
                          [at |-> "updating", id |-> pool.id, rules |-> given,
                           changed |-> given # pool.rules, unpicked |-> ~Sleeper!HasPicks]]
            /\ (given # pool.rules => ~Sleeper!HasPicks)
        BY <1>9 DEF Sleeper!LoadPool
    <2>. DEFINE q == [at |-> "updating", id |-> pool.id, rules |-> given,
                      changed |-> given # pool.rules, unpicked |-> ~Sleeper!HasPicks]
    <2>2. RequestTyped(q)
        BY <2>1 DEF RequestTyped
    <2>3. request' = [request EXCEPT ![r] = q]
        BY <2>1
    <2>. HIDE DEF q
    <2>. QED
        BY <1>1, <1>9, <2>2, <2>3, RequestGoesOn DEF Sleeper!LoadPool
<1>10. CASE Sleeper!UpdatePool(r)
    <2>1. pool' \in Sleeper!Pools \cup {Sleeper!NoPool}
        BY <1>1, <1>10, UpdateWrites
    <2>. QED
        BY <1>2, <1>10, <2>1, RequestGoesOn DEF Sleeper!UpdatePool
<1>11. CASE Sleeper!LoadCard(r)
    <2>1. PICK entry \in pool.entries :
            request' = [request EXCEPT ![r] = [at |-> "saving", id |-> pool.id,
                                               entry |-> entry, rules |-> pool.rules]]
        BY <1>11 DEF Sleeper!LoadCard
    <2>. DEFINE q == [at |-> "saving", id |-> pool.id, entry |-> entry, rules |-> pool.rules]
    <2>2. pool.rules \in RuleSets /\ pool.entries \subseteq Rosters
        BY <1>1, <1>11 DEF Sleeper!LoadCard, Sleeper!Exists, Sleeper!Pools
    <2>3. RequestTyped(q)
        BY <2>2 DEF RequestTyped
    <2>4. request' = [request EXCEPT ![r] = q]
        BY <2>1
    <2>. HIDE DEF q
    <2>. QED
        BY <1>1, <1>11, <2>3, <2>4, RequestGoesOn DEF Sleeper!LoadCard
<1>12. CASE Sleeper!SaveWeeklyCard(r)
    <2>1. pool' \in Sleeper!Pools \cup {Sleeper!NoPool}
        BY <1>1, <1>12, CardWrites
    <2>. QED
        BY <1>2, <1>12, <2>1, RequestGoesOn DEF Sleeper!SaveWeeklyCard
<1>. QED
    BY <1>3, <1>4, <1>5, <1>6, <1>7, <1>8, <1>9, <1>10, <1>11, <1>12

(* Every step around a Sleeper pool keeps the types.                       *)
LEMMA SleeperTypesKept ==
    ASSUME SleeperTyped, [Sleeper!Next]_(Sleeper!vars) PROVE SleeperTyped'
<1>1. CASE UNCHANGED Sleeper!vars
    BY <1>1 DEF Sleeper!vars, SleeperTyped, Sleeper!TypeOK, RequestTyped
<1>2. CASE Sleeper!SleeperChanges
    BY <1>2, SleeperAssumption
       DEF Sleeper!SleeperChanges, SleeperTyped, Sleeper!TypeOK, RequestTyped,
           Sleeper!SleeperPoolsAssumption
<1>3. CASE Sleeper!CreatePool
    <2>1. PICK id \in Ids, given \in RuleSets :
            pool' = Sleeper!NewPool(id, FALSE, given, Rosters)
        BY <1>3 DEF Sleeper!CreatePool
    <2>. DEFINE row == [id |-> id, linked |-> FALSE, rules |-> given, entries |-> Rosters,
                        picked |-> {}, overtaken |-> FALSE]
    <2>2. row \in Sleeper!Pools /\ pool' = Sleeper!WithRules(row, given)
        BY <2>1 DEF Sleeper!NewPool, Sleeper!Pools
    <2>. HIDE DEF row
    <2>3. pool' \in Sleeper!Pools
        BY <2>2, RulesWritten
    <2>. QED
        BY <1>3, <2>3 DEF Sleeper!CreatePool, SleeperTyped, Sleeper!TypeOK, RequestTyped
<1>4. CASE Sleeper!DeletePool
    BY <1>4 DEF Sleeper!DeletePool, SleeperTyped, Sleeper!TypeOK, RequestTyped
<1>. QED
    BY <1>1, <1>2, <1>3, <1>4, SleeperHandlerKeeps DEF Sleeper!Next

(* Unless a pool was overtaken, its picks were judged by its rules, and so *)
(* will be those of cards that are loaded and not saved.                   *)
Judged ==
    pool # Sleeper!NoPool /\ ~pool.overtaken =>
        /\ \A p \in pool.picked : p.rules = pool.rules
        /\ \A r \in Requests :
             request[r].at = "saving" /\ request[r].id = pool.id => request[r].rules = pool.rules

SleeperInv == SleeperTyped /\ Judged

(* Before the first import there is no pool, no pick and no request.       *)
LEMMA SleeperInit == Sleeper!Init => SleeperInv
BY SleeperTypedInit DEF Sleeper!Init, SleeperInv, Judged

(* The steps that write a pool keep its picks judged by its rules.         *)
LEMMA WritersJudge ==
    ASSUME SleeperInv, NEW r \in Requests, ~UNCHANGED pool,
           \/ Sleeper!SaveImport(r) \/ Sleeper!UpdatePool(r) \/ Sleeper!SaveWeeklyCard(r)
    PROVE  Judged'
<1>. USE DEF SleeperInv
<1>1. request' = [request EXCEPT ![r] = [at |-> "idle"]]
    BY DEF Sleeper!SaveImport, Sleeper!UpdatePool, Sleeper!SaveWeeklyCard, Sleeper!Idle
<1>2. \A q \in Requests : request'[q].at = "saving" => request'[q] = request[q]
    BY <1>1 DEF SleeperTyped
<1>3. CASE Sleeper!SaveImport(r)
    <2>1. /\ request[r].at = "fetched" /\ Sleeper!Save(r)
          /\ ~(Sleeper!HasPicks /\ pool.rules # request[r].rules)
        BY <1>3 DEF Sleeper!SaveImport
    <2>2. ASSUME ~pool'.overtaken, NEW p \in pool'.picked
          PROVE  p.rules = pool'.rules
        <3>1. /\ pool # Sleeper!NoPool /\ p \in pool.picked
              /\ ~pool.overtaken /\ pool'.rules = request[r].rules
            BY <2>1, <2>2, SaveWrites
        <3>2. pool.rules = request[r].rules
            BY <2>1, <3>1 DEF Sleeper!HasPicks, Sleeper!Exists
        <3>. QED
            BY <3>1, <3>2 DEF Judged
    <2>3. ASSUME ~pool'.overtaken,
                 NEW q \in Requests, request'[q].at = "saving", request'[q].id = pool'.id
          PROVE  request'[q].rules = pool'.rules
        BY <1>2, <2>1, <2>3, SaveWrites
    <2>. QED
        BY <2>2, <2>3 DEF Judged
<1>4. CASE Sleeper!UpdatePool(r)
    <2>1. /\ pool'.picked = pool.picked
          /\ ~pool'.overtaken =>
               /\ pool.picked = {}
               /\ \A q \in Requests : request[q].at = "saving" /\ request[q].id = pool'.id
                                      => request[q].rules = pool'.rules
        BY <1>4, UpdateWrites
    <2>. QED
        BY <1>2, <2>1 DEF Judged
<1>5. CASE Sleeper!SaveWeeklyCard(r)
    <2>1. /\ pool # Sleeper!NoPool /\ request[r].id = pool.id /\ request[r].at = "saving"
          /\ pool'.id = pool.id /\ pool'.rules = pool.rules /\ pool'.overtaken = pool.overtaken
          /\ \A p \in pool'.picked : p \in pool.picked \/ p.rules = request[r].rules
        BY <1>5, CardWrites
    <2>. QED
        BY <1>2, <2>1 DEF Judged
<1>. QED
    BY <1>3, <1>4, <1>5

(* So does every other step.                                               *)
LEMMA PicksStayJudged == ASSUME SleeperInv, Sleeper!Next PROVE Judged'
<1>1. ASSUME UNCHANGED pool,
             \A p \in Requests : request'[p].at = "saving" =>
               \/ request'[p] = request[p]
               \/ request'[p].id = pool.id /\ request'[p].rules = pool.rules
      PROVE  Judged'
    BY <1>1 DEF SleeperInv, Judged
<1>2. DOMAIN request = Requests
    BY DEF SleeperInv, SleeperTyped
<1>3. CASE Sleeper!SleeperChanges
    BY <1>3 DEF Sleeper!SleeperChanges, SleeperInv, Judged
<1>4. CASE Sleeper!CreatePool
    <2>1. PICK id \in Ids, given \in RuleSets :
            pool' = Sleeper!NewPool(id, FALSE, given, Rosters)
        BY <1>4 DEF Sleeper!CreatePool
    <2>. DEFINE row == [id |-> id, linked |-> FALSE, rules |-> given, entries |-> Rosters,
                        picked |-> {}, overtaken |-> FALSE]
    <2>2. row \in Sleeper!Pools /\ row.picked = {} /\ pool' = Sleeper!WithRules(row, given)
        BY <2>1 DEF Sleeper!NewPool, Sleeper!Pools
    <2>. HIDE DEF row
    <2>3. /\ pool'.rules = given /\ pool'.id = row.id /\ pool'.picked = {}
          /\ ~pool'.overtaken =>
                \A r \in Requests : request[r].at = "saving" /\ request[r].id = row.id
                                   => request[r].rules = given
        BY <2>2, RulesWritten
    <2>4. UNCHANGED request
        BY <1>4 DEF Sleeper!CreatePool
    <2>. QED
        BY <2>3, <2>4 DEF Judged
<1>5. CASE Sleeper!DeletePool
    BY <1>5 DEF Sleeper!DeletePool, Judged
<1>6. ASSUME NEW r \in Requests,
             \/ Sleeper!SaveImport(r) \/ Sleeper!UpdatePool(r) \/ Sleeper!SaveWeeklyCard(r)
      PROVE  Judged'
    <2>1. request' = [request EXCEPT ![r] = [at |-> "idle"]]
        BY <1>6 DEF Sleeper!SaveImport, Sleeper!UpdatePool, Sleeper!SaveWeeklyCard, Sleeper!Idle
    <2>2. \A p \in Requests : request'[p].at = "saving" => request'[p] = request[p]
        BY <1>2, <2>1
    <2>. QED
        BY <1>1, <1>6, <2>2, WritersJudge
<1>7. ASSUME NEW r \in Requests, Sleeper!LoadCard(r) PROVE Judged'
    <2>1. PICK entry \in pool.entries :
            request' = [request EXCEPT ![r] = [at |-> "saving", id |-> pool.id,
                                               entry |-> entry, rules |-> pool.rules]]
        BY <1>7 DEF Sleeper!LoadCard
    <2>2. \A p \in Requests :
            \/ request'[p] = request[p]
            \/ request'[p].id = pool.id /\ request'[p].rules = pool.rules
        BY <1>2, <2>1
    <2>3. UNCHANGED pool
        BY <1>7 DEF Sleeper!LoadCard
    <2>. QED
        BY <1>1, <2>2, <2>3
<1>8. ASSUME NEW r \in Requests,
             \/ Sleeper!ImportSleeperPool(r) \/ Sleeper!RefreshSleeperPool(r)
             \/ Sleeper!GetLeague(r) \/ Sleeper!GetRosters(r) \/ Sleeper!SleeperFails(r)
             \/ Sleeper!LoadPool(r)
      PROVE  Judged'
    <2>1. UNCHANGED pool
        BY <1>8 DEF Sleeper!ImportSleeperPool, Sleeper!RefreshSleeperPool, Sleeper!GetLeague,
                    Sleeper!GetRosters, Sleeper!SleeperFails, Sleeper!LoadPool
    <2>2. \A p \in Requests : request'[p].at = "saving" => request'[p] = request[p]
        <3>1. CASE Sleeper!ImportSleeperPool(r) \/ Sleeper!RefreshSleeperPool(r)
            BY <1>2, <3>1
               DEF Sleeper!ImportSleeperPool, Sleeper!RefreshSleeperPool, Sleeper!Ask
        <3>2. CASE Sleeper!GetLeague(r)
            BY <1>2, <3>2 DEF Sleeper!GetLeague
        <3>3. CASE Sleeper!GetRosters(r)
            BY <1>2, <3>3 DEF Sleeper!GetRosters
        <3>4. CASE Sleeper!SleeperFails(r)
            BY <1>2, <3>4 DEF Sleeper!SleeperFails, Sleeper!Idle
        <3>5. CASE Sleeper!LoadPool(r)
            <4>1. PICK given \in RuleSets :
                    request' = [request EXCEPT ![r] =
                                  [at |-> "updating", id |-> pool.id, rules |-> given,
                                   changed |-> given # pool.rules,
                                   unpicked |-> ~Sleeper!HasPicks]]
                BY <3>5 DEF Sleeper!LoadPool
            <4>. QED
                BY <1>2, <4>1
        <3>. QED
            BY <1>8, <3>1, <3>2, <3>3, <3>4, <3>5
    <2>. QED
        BY <1>1, <2>1, <2>2
<1>. QED
    BY <1>3, <1>4, <1>5, <1>6, <1>7, <1>8 DEF Sleeper!Next

(* Every step around a Sleeper pool keeps its invariant.                   *)
LEMMA SleeperKept ==
    ASSUME SleeperInv, [Sleeper!Next]_(Sleeper!vars) PROVE SleeperInv'
<1>1. SleeperTyped'
    BY SleeperTypesKept DEF SleeperInv
<1>2. Judged'
    <2>1. CASE UNCHANGED Sleeper!vars
        BY <2>1 DEF Sleeper!vars, SleeperInv, Judged
    <2>. QED
        BY <2>1, PicksStayJudged
<1>. QED
    BY <1>1, <1>2 DEF SleeperInv

(* The rules of a pool with picks stand, unless an update writes over them *)
(* that saw none.                                                          *)
LEMMA RulesStay ==
    ASSUME SleeperTyped, Sleeper!Next, Sleeper!HasPicks, ~Sleeper!Overtaking, Sleeper!Exists'
    PROVE  Sleeper!RulesStand
<1>1. pool # Sleeper!NoPool /\ pool.picked # {} /\ pool' # Sleeper!NoPool
    BY DEF Sleeper!HasPicks, Sleeper!Exists
<1>2. CASE UNCHANGED pool
    BY <1>2 DEF Sleeper!RulesStand
<1>3. ASSUME NEW r \in Requests, Sleeper!SaveImport(r) PROVE Sleeper!RulesStand
    <2>1. \/ UNCHANGED pool
          \/ /\ pool.rules = request[r].rules
             /\ request[r].at = "fetched" /\ Sleeper!Save(r)
        BY <1>1, <1>3 DEF Sleeper!SaveImport, Sleeper!Exists, Sleeper!HasPicks
    <2>. QED
        BY <1>1, <2>1, SaveWrites DEF Sleeper!RulesStand
<1>4. ASSUME NEW r \in Requests, Sleeper!UpdatePool(r) PROVE Sleeper!RulesStand
    <2>1. CASE UNCHANGED pool
        BY <1>2, <2>1
    <2>2. CASE ~UNCHANGED pool
        <3>1. /\ request[r].changed /\ request[r].unpicked /\ request[r].at = "updating"
              /\ request'[r] = Sleeper!Idle
            BY <1>4, <2>2, UpdateWrites DEF Sleeper!UpdatePool, SleeperTyped
        <3>. QED
            BY <3>1 DEF Sleeper!Overtaking
    <2>. QED
        BY <2>1, <2>2
<1>5. ASSUME NEW r \in Requests, Sleeper!SaveWeeklyCard(r) PROVE Sleeper!RulesStand
    BY <1>2, <1>5, CardWrites DEF Sleeper!RulesStand
<1>. QED
    BY <1>1, <1>2, <1>3, <1>4, <1>5
       DEF Sleeper!Next, Sleeper!SleeperChanges, Sleeper!CreatePool, Sleeper!DeletePool,
           Sleeper!ImportSleeperPool, Sleeper!RefreshSleeperPool, Sleeper!GetLeague,
           Sleeper!GetRosters, Sleeper!SleeperFails, Sleeper!LoadPool, Sleeper!LoadCard,
           Sleeper!Exists

(* No refresh brings a pool back.                                          *)
LEMMA NotRefreshedBack ==
    ASSUME SleeperTyped, Sleeper!Next, ~Sleeper!Exists, Sleeper!Exists'
    PROVE  ~Sleeper!Refreshed
<1>1. SUFFICES ASSUME NEW r \in Requests, request[r].at = "fetched", request[r].id # 0,
                      request'[r] = Sleeper!Idle
               PROVE  FALSE
    BY DEF Sleeper!Refreshed
<1>2. request[r] # Sleeper!Idle /\ ~UNCHANGED request
    BY <1>1 DEF Sleeper!Idle
<1>3. ~UNCHANGED pool
    BY DEF Sleeper!Exists
<1>4. ASSUME NEW q \in Requests, Sleeper!SaveImport(q) PROVE FALSE
    <2>1. q = r
        BY <1>1, <1>2, <1>4 DEF Sleeper!SaveImport, SleeperTyped
    <2>2. ~Sleeper!Expected(r)
        BY <1>1 DEF Sleeper!Expected
    <2>. QED
        BY <1>3, <1>4, <2>1, <2>2 DEF Sleeper!SaveImport
<1>. QED
    BY <1>2, <1>3, <1>4
       DEF Sleeper!Next, Sleeper!SleeperChanges, Sleeper!CreatePool, Sleeper!DeletePool,
           Sleeper!ImportSleeperPool, Sleeper!RefreshSleeperPool, Sleeper!GetLeague,
           Sleeper!GetRosters, Sleeper!SleeperFails, Sleeper!LoadPool, Sleeper!LoadCard,
           Sleeper!UpdatePool, Sleeper!SaveWeeklyCard, Sleeper!Exists

(* A step of the composition is a step around the pool or leaves it        *)
(* alone.                                                                  *)
LEMMA SleeperOnly ==
    ASSUME [Next]_vars PROVE [Sleeper!Next]_(Sleeper!vars)
BY DEF Next, vars, YahooStep, NewsStep, CacheStep, SleeperStep, AnalysisStep, SeasonStep,
       LineupStep, sleeperVars, Sleeper!vars

-----------------------------------------------------------------------------
(* Proposals for a pool.  A stored run stays what it was made of once it   *)
(* is completed, and who applies one looks at a completed run; what is     *)
(* applied is over a version that is gone.                                 *)
RunRecords == [version : 0..MaxVersion, evidence : 0..MaxEvidence, created : 0..MaxTime,
               ready : BOOLEAN, status : {"running", "completed", "failed"}]

ApplicantRecords == [at : {"idle", "refreshing", "checking", "saving"}, run : 0..MaxRuns,
                     ready : BOOLEAN, checked : 0..MaxTime]

(* What an applicant may rely on.                                          *)
ApplicantSound(a, stored) ==
    a.at # "idle" =>
        /\ a.run \in DOMAIN stored
        /\ stored[a.run].status = "completed"
        /\ a.at = "saving" =>
            /\ stored[a.run].ready
            /\ a.checked - stored[a.run].created <= MaxAge

(* What was saved, and when.                                               *)
SaveSound(s, stored, card) ==
    /\ s.run \in DOMAIN stored /\ s.over < card /\ s.over \in Nat
    /\ stored[s.run].status = "completed" /\ stored[s.run].ready
    /\ s.over = stored[s.run].version
    /\ s.checked - stored[s.run].created <= MaxAge

AnalystSound(a, stored) ==
    /\ a.at = "refreshing" => Len(stored) < MaxRuns
    /\ a.at = "thinking" => a.run \in DOMAIN stored /\ stored[a.run].status = "running"

AnalysisInv ==
    /\ Analysis!TypeOK
    /\ Len(runs) <= MaxRuns
    /\ refresher = "analyst" => analyst.at = "refreshing"
    /\ AnalystSound(analyst, runs)
    /\ \A a \in Applicants : ApplicantSound(applicant[a], runs)
    /\ \A s \in applied : SaveSound(s, runs, version)
    /\ \A s, t \in applied : s.over = t.over => s = t

(* What is assumed of the applicants, ages and bounds.                     *)
LEMMA AnalysisBounds ==
    /\ Applicants \cap {"none", "owner", "analyst"} = {}
    /\ Reuse \in Nat /\ MaxAge \in Nat /\ MaxTime \in Nat /\ MaxEvidence \in Nat
    /\ MaxVersion \in Nat /\ MaxRuns \in Nat /\ MaxRestarts \in Nat
BY AnalysisAssumption DEF Analysis!PoolAnalysisAssumption

(* The type invariant of the proposals, part by part.                      *)
LEMMA AnalysisTypes ==
    ASSUME Analysis!TypeOK
    PROVE  /\ now \in 0..MaxTime /\ evidence \in 0..MaxEvidence /\ version \in 0..MaxVersion
           /\ checkin \in [at : 0..MaxTime, ready : BOOLEAN]
           /\ refresher \in {"none", "owner", "analyst"} \cup Applicants
           /\ analyst \in [at : {"idle", "refreshing", "thinking"}, run : 0..MaxRuns]
           /\ runs \in Seq(RunRecords) /\ DOMAIN runs = 1..Len(runs) /\ Len(runs) \in Nat
           /\ applicant \in [Applicants -> ApplicantRecords]
           /\ poolRestarts \in 0..MaxRestarts
BY DEF Analysis!TypeOK, RunRecords, ApplicantRecords

(* And from its parts, of the next state.                                  *)
LEMMA AnalysisTyped ==
    ASSUME now' \in 0..MaxTime, evidence' \in 0..MaxEvidence, version' \in 0..MaxVersion,
           checkin' \in [at : 0..MaxTime, ready : BOOLEAN],
           refresher' \in {"none", "owner", "analyst"} \cup Applicants,
           analyst' \in [at : {"idle", "refreshing", "thinking"}, run : 0..MaxRuns],
           runs' \in Seq(RunRecords),
           applicant' \in [Applicants -> ApplicantRecords],
           poolRestarts' \in 0..MaxRestarts
    PROVE  Analysis!TypeOK'
BY DEF Analysis!TypeOK, RunRecords, ApplicantRecords

(* An idle applicant or analyst relies on nothing.                         *)
LEMMA NobodyIdle ==
    /\ Analysis!IdleApplicant \in ApplicantRecords
    /\ Analysis!IdleAnalyst \in [at : {"idle", "refreshing", "thinking"}, run : 0..MaxRuns]
    /\ \A stored : ApplicantSound(Analysis!IdleApplicant, stored)
    /\ \A stored : AnalystSound(Analysis!IdleAnalyst, stored)
    /\ Analysis!IdleAnalyst.at = "idle"
BY AnalysisBounds DEF Analysis!IdleApplicant, Analysis!IdleAnalyst, ApplicantRecords,
                      ApplicantSound, AnalystSound

(* Before the first analysis nothing is stored and nothing was applied.    *)
LEMMA AnalysisInit == Analysis!Init => AnalysisInv
<1>. SUFFICES ASSUME Analysis!Init PROVE AnalysisInv
    OBVIOUS
<1>1. /\ applicant = [a \in Applicants |-> Analysis!IdleApplicant]
      /\ analyst = Analysis!IdleAnalyst /\ runs = <<>> /\ applied = {}
      /\ checkin = [at |-> 0, ready |-> FALSE] /\ refresher = "none"
      /\ now = 0 /\ evidence = 0 /\ version = 0 /\ poolRestarts = 0
    BY DEF Analysis!Init, Analysis!NoCheckin
<1>2. runs \in Seq(RunRecords) /\ Len(runs) = 0
    BY <1>1
<1>3. Analysis!TypeOK
    BY <1>1, <1>2, NobodyIdle, AnalysisBounds
       DEF Analysis!TypeOK, RunRecords, ApplicantRecords
<1>. QED
    BY <1>1, <1>2, <1>3, NobodyIdle, AnalysisBounds DEF AnalysisInv

(* A step of the clock, the owner or the sources.                          *)
LEMMA QuietAnalysisStep ==
    ASSUME AnalysisInv, UNCHANGED <<analyst, runs, applicant, applied, poolRestarts>>,
           now' \in 0..MaxTime, evidence' \in 0..MaxEvidence, version' \in 0..MaxVersion,
           version <= version', checkin' \in [at : 0..MaxTime, ready : BOOLEAN],
           refresher' \in {"none", "owner", refresher}
    PROVE  AnalysisInv'
<1>1. /\ version \in 0..MaxVersion /\ refresher \in {"none", "owner", "analyst"} \cup Applicants
      /\ analyst \in [at : {"idle", "refreshing", "thinking"}, run : 0..MaxRuns]
      /\ runs \in Seq(RunRecords) /\ applicant \in [Applicants -> ApplicantRecords]
      /\ poolRestarts \in 0..MaxRestarts
    BY AnalysisTypes DEF AnalysisInv
<1>2. Analysis!TypeOK'
    BY <1>1, AnalysisTyped
<1>3. \A s \in applied : SaveSound(s, runs, version')
    BY <1>1, AnalysisBounds DEF AnalysisInv, SaveSound
<1>4. refresher' = "analyst" => analyst.at = "refreshing"
    BY DEF AnalysisInv
<1>. QED
    BY <1>2, <1>3, <1>4 DEF AnalysisInv

(* An applicant that goes on.                                              *)
LEMMA ApplicantStep ==
    ASSUME AnalysisInv, NEW a \in Applicants, NEW p \in ApplicantRecords,
           ApplicantSound(p, runs), applicant' = [applicant EXCEPT ![a] = p],
           UNCHANGED <<now, version, analyst, runs, applied, poolRestarts>>,
           evidence' \in 0..MaxEvidence, checkin' \in [at : 0..MaxTime, ready : BOOLEAN],
           refresher' \in {"none", a, refresher}
    PROVE  AnalysisInv'
<1>1. /\ now \in 0..MaxTime /\ version \in 0..MaxVersion
      /\ refresher \in {"none", "owner", "analyst"} \cup Applicants
      /\ analyst \in [at : {"idle", "refreshing", "thinking"}, run : 0..MaxRuns]
      /\ runs \in Seq(RunRecords) /\ applicant \in [Applicants -> ApplicantRecords]
      /\ poolRestarts \in 0..MaxRestarts
    BY AnalysisTypes DEF AnalysisInv
<1>2. applicant' \in [Applicants -> ApplicantRecords]
    BY <1>1
<1>3. \A b \in Applicants : ApplicantSound(applicant'[b], runs)
    BY <1>1 DEF AnalysisInv
<1>4. Analysis!TypeOK'
    BY <1>1, <1>2, AnalysisTyped
<1>5. refresher' = "analyst" => analyst.at = "refreshing"
    BY AnalysisBounds DEF AnalysisInv
<1>. QED
    BY <1>3, <1>4, <1>5 DEF AnalysisInv

(* What a refresh ends with.                                               *)
LEMMA RefreshTyped ==
    ASSUME Analysis!TypeOK, NEW who, Analysis!RefreshEnds(who)
    PROVE  /\ evidence' \in 0..MaxEvidence /\ refresher' = "none" /\ refresher = who
           /\ \E ready \in BOOLEAN : checkin' = [at |-> now, ready |-> ready]
           /\ checkin' \in [at : 0..MaxTime, ready : BOOLEAN]
           /\ checkin'.ready \in BOOLEAN
<1>1. now \in 0..MaxTime /\ evidence \in 0..MaxEvidence
    BY AnalysisTypes
<1>2. PICK ready \in BOOLEAN : checkin' = [at |-> now, ready |-> ready]
    BY DEF Analysis!RefreshEnds
<1>3. evidence' \in {evidence, evidence + 1} /\ evidence' <= MaxEvidence
    BY DEF Analysis!RefreshEnds
<1>. QED
    BY <1>1, <1>2, <1>3, AnalysisBounds DEF Analysis!RefreshEnds

(* Runs that change without changing what a completed one was made of.     *)
LEMMA RunsStep ==
    ASSUME AnalysisInv, runs' \in Seq(RunRecords), Len(runs') <= MaxRuns,
           DOMAIN runs \subseteq DOMAIN runs',
           \A n \in DOMAIN runs : runs[n].status = "completed" => runs'[n] = runs[n],
           UNCHANGED <<now, version, applied>>,
           evidence' \in 0..MaxEvidence, checkin' \in [at : 0..MaxTime, ready : BOOLEAN],
           refresher' \in {"none", "owner", "analyst"} \cup Applicants,
           refresher' = "analyst" => analyst'.at = "refreshing",
           analyst' \in [at : {"idle", "refreshing", "thinking"}, run : 0..MaxRuns],
           AnalystSound(analyst', runs'),
           applicant' \in [Applicants -> ApplicantRecords],
           \A a \in Applicants : applicant'[a] \in {applicant[a], Analysis!IdleApplicant},
           poolRestarts' \in 0..MaxRestarts
    PROVE  AnalysisInv'
<1>1. Analysis!TypeOK'
    BY AnalysisTyped, AnalysisTypes DEF AnalysisInv
<1>2. ASSUME NEW a \in Applicants PROVE ApplicantSound(applicant'[a], runs')
    <2>1. CASE applicant'[a] = applicant[a]
        BY <2>1 DEF AnalysisInv, ApplicantSound
    <2>2. CASE applicant'[a] = Analysis!IdleApplicant
        BY <2>2, NobodyIdle
    <2>. QED
        BY <2>1, <2>2
<1>3. \A s \in applied : SaveSound(s, runs', version)
    BY DEF AnalysisInv, SaveSound
<1>. QED
    BY <1>1, <1>2, <1>3 DEF AnalysisInv

(* The analyst's steps and a restart: a run is completed once, stored      *)
(* runs stay, and applicants rely on completed ones only.                  *)
LEMMA AnalystKeeps ==
    ASSUME AnalysisInv,
           Analysis!AnalyzePool \/ Analysis!FreezeDossier \/ Analysis!RunAnalysis
             \/ Analysis!Restart
    PROVE  AnalysisInv'
<1>1. /\ now \in 0..MaxTime /\ version \in 0..MaxVersion /\ evidence \in 0..MaxEvidence
      /\ checkin \in [at : 0..MaxTime, ready : BOOLEAN]
      /\ refresher \in {"none", "owner", "analyst"} \cup Applicants
      /\ analyst \in [at : {"idle", "refreshing", "thinking"}, run : 0..MaxRuns]
      /\ runs \in Seq(RunRecords) /\ applicant \in [Applicants -> ApplicantRecords]
      /\ DOMAIN runs = 1..Len(runs) /\ Len(runs) \in Nat /\ Len(runs) <= MaxRuns
      /\ poolRestarts \in 0..MaxRestarts
    BY AnalysisTypes DEF AnalysisInv
<1>2. CASE Analysis!AnalyzePool
    <2>1. /\ Len(runs) < MaxRuns /\ refresher' = "analyst"
          /\ analyst' = [at |-> "refreshing", run |-> 0]
          /\ UNCHANGED <<now, evidence, version, checkin, runs, applicant, applied, poolRestarts>>
        BY <1>2 DEF Analysis!AnalyzePool, Analysis!TakeRefresh
    <2>2. AnalystSound(analyst', runs')
        BY <2>1 DEF AnalystSound
    <2>3. analyst' \in [at : {"idle", "refreshing", "thinking"}, run : 0..MaxRuns]
        BY <2>1, AnalysisBounds
    <2>. QED
        BY <1>1, <2>1, <2>2, <2>3, RunsStep
<1>3. CASE Analysis!FreezeDossier
    <2>. DEFINE run == [version |-> version, evidence |-> evidence', created |-> now,
                        ready |-> checkin'.ready, status |-> "running"]
    <2>1. /\ evidence' \in 0..MaxEvidence /\ refresher' = "none" /\ refresher = "analyst"
          /\ checkin' \in [at : 0..MaxTime, ready : BOOLEAN] /\ checkin'.ready \in BOOLEAN
        BY <1>3, RefreshTyped DEF Analysis!FreezeDossier, AnalysisInv
    <2>2. run \in RunRecords /\ run.status = "running"
        BY <1>1, <2>1 DEF RunRecords
    <2>3. /\ runs' = Append(runs, run) /\ analyst' = [at |-> "thinking", run |-> Len(runs) + 1]
          /\ UNCHANGED <<now, version, applicant, applied, poolRestarts>>
        BY <1>3 DEF Analysis!FreezeDossier
    <2>. HIDE DEF run
    <2>4. /\ runs' \in Seq(RunRecords) /\ Len(runs') = Len(runs) + 1
          /\ DOMAIN runs' = 1..(Len(runs) + 1) /\ runs'[Len(runs) + 1] = run
          /\ \A n \in DOMAIN runs : runs'[n] = runs[n]
        BY <1>1, <2>2, <2>3, AppendProperties
    <2>5. Len(runs) < MaxRuns
        BY <2>1 DEF AnalysisInv, AnalystSound
    <2>6. AnalystSound(analyst', runs')
        BY <1>1, <2>2, <2>3, <2>4 DEF AnalystSound
    <2>7. analyst' \in [at : {"idle", "refreshing", "thinking"}, run : 0..MaxRuns]
        BY <1>1, <2>3, <2>5, AnalysisBounds
    <2>8. Len(runs') <= MaxRuns /\ DOMAIN runs \subseteq DOMAIN runs'
        BY <1>1, <2>4, <2>5, AnalysisBounds
    <2>9. applicant' \in [Applicants -> ApplicantRecords] /\ poolRestarts' \in 0..MaxRestarts
        BY <1>1, <2>3
    <2>. QED
        BY <2>1, <2>3, <2>4, <2>6, <2>7, <2>8, <2>9, RunsStep
<1>4. CASE Analysis!RunAnalysis
    <2>1. PICK s \in {"completed", "failed"} : runs' = [runs EXCEPT ![analyst.run].status = s]
        BY <1>4 DEF Analysis!RunAnalysis
    <2>2. /\ analyst.at = "thinking" /\ analyst' = Analysis!IdleAnalyst
          /\ UNCHANGED <<now, evidence, version, checkin, refresher, applicant, applied,
                         poolRestarts>>
        BY <1>4 DEF Analysis!RunAnalysis
    <2>3. analyst.run \in DOMAIN runs /\ runs[analyst.run].status = "running"
        BY <2>2 DEF AnalysisInv, AnalystSound
    <2>4. runs[analyst.run] \in RunRecords
        BY <1>1, <2>3
    <2>5. [runs[analyst.run] EXCEPT !.status = s] \in RunRecords
        BY <2>4 DEF RunRecords
    <2>6. /\ runs' \in Seq(RunRecords) /\ Len(runs') = Len(runs) /\ DOMAIN runs' = DOMAIN runs
          /\ \A n \in DOMAIN runs : n # analyst.run => runs'[n] = runs[n]
        BY <1>1, <2>1, <2>3, <2>5
    <2>7. refresher' # "analyst"
        BY <2>2 DEF AnalysisInv
    <2>. QED
        BY <1>1, <2>2, <2>3, <2>6, <2>7, NobodyIdle, RunsStep
<1>5. CASE Analysis!Restart
    <2>1. /\ runs' = [n \in DOMAIN runs |->
                        IF runs[n].status = "running"
                        THEN [runs[n] EXCEPT !.status = "failed"] ELSE runs[n]]
          /\ refresher' = "none" /\ analyst' = Analysis!IdleAnalyst
          /\ applicant' = [a \in Applicants |-> Analysis!IdleApplicant]
          /\ poolRestarts < MaxRestarts /\ poolRestarts' = poolRestarts + 1
          /\ UNCHANGED <<now, evidence, version, checkin, applied>>
        BY <1>5 DEF Analysis!Restart
    <2>2. \A n \in DOMAIN runs : runs[n] \in RunRecords
        BY <1>1
    <2>3. \A n \in DOMAIN runs : runs'[n] \in RunRecords
        BY <2>1, <2>2 DEF RunRecords
    <2>4. runs' \in Seq(RunRecords) /\ Len(runs') = Len(runs) /\ DOMAIN runs' = DOMAIN runs
        <3>1. DOMAIN runs' = 1..Len(runs) /\ runs' = [n \in 1..Len(runs) |-> runs'[n]]
            BY <1>1, <2>1
        <3>2. runs' \in [1..Len(runs) -> RunRecords]
            BY <1>1, <2>3, <3>1
        <3>. QED
            BY <1>1, <3>1, <3>2, SeqDef, LenProperties
    <2>5. \A n \in DOMAIN runs : runs[n].status = "completed" => runs'[n] = runs[n]
        BY <2>1
    <2>6. applicant' \in [Applicants -> ApplicantRecords]
          /\ \A a \in Applicants : applicant'[a] = Analysis!IdleApplicant
        BY <2>1, NobodyIdle
    <2>7. poolRestarts' \in 0..MaxRestarts
        BY <1>1, <2>1, AnalysisBounds
    <2>. QED
        BY <1>1, <2>1, <2>4, <2>5, <2>6, <2>7, NobodyIdle, RunsStep
<1>. QED
    BY <1>2, <1>3, <1>4, <1>5

(* An applicant begins with a completed run.                               *)
LEMMA BeginApplyKeeps ==
    ASSUME AnalysisInv, NEW a \in Applicants, Analysis!BeginApply(a) PROVE AnalysisInv'
<1>1. PICK n \in DOMAIN runs :
        /\ runs[n].status = "completed"
        /\ \/ \E ready \in {checkin.ready, FALSE} :
                /\ applicant' = [applicant EXCEPT ![a] =
                                   [at |-> "checking", run |-> n, ready |-> ready, checked |-> 0]]
                /\ UNCHANGED refresher
           \/ /\ applicant' = [applicant EXCEPT ![a] =
                                 [at |-> "refreshing", run |-> n, ready |-> FALSE, checked |-> 0]]
              /\ refresher' = a
    BY DEF Analysis!BeginApply, Analysis!TakeRefresh
<1>2. PICK at \in {"checking", "refreshing"}, ready \in {checkin.ready, FALSE} :
        applicant' = [applicant EXCEPT ![a] =
                        [at |-> at, run |-> n, ready |-> ready, checked |-> 0]]
    BY <1>1
<1>. DEFINE p == [at |-> at, run |-> n, ready |-> ready, checked |-> 0]
<1>3. UNCHANGED <<now, evidence, version, checkin, analyst, runs, applied, poolRestarts>>
    BY DEF Analysis!BeginApply
<1>4. /\ n \in 0..MaxRuns /\ checkin.ready \in BOOLEAN
      /\ evidence \in 0..MaxEvidence /\ checkin \in [at : 0..MaxTime, ready : BOOLEAN]
    BY AnalysisTypes, AnalysisBounds DEF AnalysisInv
<1>5. p \in ApplicantRecords
    <2>1. n \in 0..MaxRuns
        BY <1>4
    <2>2. ready \in BOOLEAN
        BY <1>4
    <2>3. 0 \in 0..MaxTime
        BY AnalysisBounds
    <2>. QED
        BY <2>1, <2>2, <2>3 DEF ApplicantRecords
<1>6. ApplicantSound(p, runs)
    BY <1>1 DEF ApplicantSound
<1>. HIDE DEF p
<1>7. applicant' = [applicant EXCEPT ![a] = p] /\ refresher' \in {"none", a, refresher}
    BY <1>1, <1>2 DEF p
<1>. QED
    BY <1>3, <1>4, <1>5, <1>6, <1>7, ApplicantStep

(* The sources were refreshed; the proposal still has to be checked.       *)
LEMMA ApplyRefreshedKeeps ==
    ASSUME AnalysisInv, NEW a \in Applicants, Analysis!ApplyRefreshed(a) PROVE AnalysisInv'
<1>. DEFINE p == [applicant[a] EXCEPT !.at = "checking", !.ready = checkin'.ready]
<1>1. applicant[a] \in ApplicantRecords /\ applicant \in [Applicants -> ApplicantRecords]
    BY AnalysisTypes DEF AnalysisInv
<1>2. /\ applicant' = [applicant EXCEPT ![a] = p] /\ applicant[a].at = "refreshing"
      /\ UNCHANGED <<now, version, analyst, runs, applied, poolRestarts>>
    BY <1>1 DEF Analysis!ApplyRefreshed
<1>3. /\ evidence' \in 0..MaxEvidence /\ refresher' = "none" /\ checkin'.ready \in BOOLEAN
      /\ checkin' \in [at : 0..MaxTime, ready : BOOLEAN]
    BY RefreshTyped DEF Analysis!ApplyRefreshed, AnalysisInv
<1>4. p \in ApplicantRecords /\ p.at = "checking" /\ p.run = applicant[a].run
    BY <1>1, <1>3 DEF ApplicantRecords
<1>5. ApplicantSound(p, runs)
    BY <1>2, <1>4 DEF AnalysisInv, ApplicantSound
<1>. HIDE DEF p
<1>. QED
    BY <1>2, <1>3, <1>4, <1>5, ApplicantStep

(* The check before the save: who passes it has a run that was ready and   *)
(* is young enough.                                                        *)
LEMMA CheckProposalKeeps ==
    ASSUME AnalysisInv, NEW a \in Applicants, Analysis!CheckProposal(a) PROVE AnalysisInv'
<1>1. /\ applicant[a] \in ApplicantRecords /\ now \in 0..MaxTime
      /\ evidence \in 0..MaxEvidence /\ checkin \in [at : 0..MaxTime, ready : BOOLEAN]
    BY AnalysisTypes DEF AnalysisInv
<1>2. /\ applicant[a].at = "checking"
      /\ UNCHANGED <<now, evidence, version, checkin, refresher, analyst, runs, applied,
                     poolRestarts>>
    BY DEF Analysis!CheckProposal
<1>3. CASE Analysis!Refused(a)
    BY <1>1, <1>2, <1>3, NobodyIdle, ApplicantStep DEF Analysis!Refused
<1>4. CASE ~Analysis!Refused(a)
    <2>. DEFINE p == [applicant[a] EXCEPT !.at = "saving", !.checked = now]
    <2>1. /\ applicant' = [applicant EXCEPT ![a] = p]
          /\ Analysis!Current(applicant[a].run) /\ runs[applicant[a].run].ready
        BY <1>4, AnalysisTypes DEF Analysis!CheckProposal, AnalysisInv
    <2>2. p \in ApplicantRecords /\ p.at = "saving" /\ p.run = applicant[a].run /\ p.checked = now
        BY <1>1 DEF ApplicantRecords
    <2>3. ApplicantSound(p, runs)
        BY <1>2, <2>1, <2>2 DEF AnalysisInv, ApplicantSound, Analysis!Current
    <2>. HIDE DEF p
    <2>. QED
        BY <1>1, <1>2, <2>1, <2>2, <2>3, ApplicantStep
<1>. QED
    BY <1>3, <1>4

(* What is saved is over the version the proposal was made for.            *)
LEMMA SaveProposalKeeps ==
    ASSUME AnalysisInv, NEW a \in Applicants, Analysis!SaveWeeklyCard(a) PROVE AnalysisInv'
<1>1. /\ applicant \in [Applicants -> ApplicantRecords] /\ now \in 0..MaxTime
      /\ version \in 0..MaxVersion /\ evidence \in 0..MaxEvidence
      /\ checkin \in [at : 0..MaxTime, ready : BOOLEAN]
      /\ refresher \in {"none", "owner", "analyst"} \cup Applicants
      /\ analyst \in [at : {"idle", "refreshing", "thinking"}, run : 0..MaxRuns]
      /\ runs \in Seq(RunRecords) /\ poolRestarts \in 0..MaxRestarts
    BY AnalysisTypes DEF AnalysisInv
<1>2. CASE UNCHANGED applied /\ UNCHANGED version
    BY <1>1, <1>2, NobodyIdle, ApplicantStep
       DEF Analysis!SaveWeeklyCard, Analysis!Refused, Analysis!Saved
<1>3. CASE version = runs[applicant[a].run].version /\ Analysis!Saved(a)
    <2>. DEFINE new == [run |-> applicant[a].run, over |-> version,
                        checked |-> applicant[a].checked]
    <2>1. /\ version < MaxVersion /\ version' = version + 1 /\ applied' = applied \cup {new}
          /\ applicant' = [applicant EXCEPT ![a] = Analysis!IdleApplicant]
          /\ UNCHANGED <<now, evidence, checkin, refresher, analyst, runs, poolRestarts>>
        BY <1>3 DEF Analysis!Saved, Analysis!Refused
    <2>2. ApplicantSound(applicant[a], runs) /\ applicant[a].at = "saving"
        BY DEF AnalysisInv, Analysis!SaveWeeklyCard
    <2>3. SaveSound(new, runs, version')
        BY <1>1, <1>3, <2>1, <2>2 DEF ApplicantSound, SaveSound
    <2>4. new.over = version
        OBVIOUS
    <2>. HIDE DEF new
    <2>5. \A s \in applied : SaveSound(s, runs, version') /\ s.over # version
        BY <1>1, <2>1, AnalysisBounds DEF AnalysisInv, SaveSound
    <2>6. \A s, t \in applied' : s.over = t.over => s = t
        BY <2>1, <2>4, <2>5 DEF AnalysisInv
    <2>7. \A s \in applied' : SaveSound(s, runs, version')
        BY <2>1, <2>3, <2>5
    <2>8. applicant' \in [Applicants -> ApplicantRecords]
          /\ \A b \in Applicants : ApplicantSound(applicant'[b], runs)
        BY <1>1, <2>1, NobodyIdle DEF AnalysisInv
    <2>9. version' \in 0..MaxVersion
        BY <1>1, <2>1, AnalysisBounds
    <2>10. Analysis!TypeOK'
        BY <1>1, <2>1, <2>8, <2>9, AnalysisTyped
    <2>. QED
        BY <2>1, <2>6, <2>7, <2>8, <2>10 DEF AnalysisInv
<1>. QED
    BY <1>2, <1>3 DEF Analysis!SaveWeeklyCard

(* Every step of the analyses and applications keeps their invariant.      *)
LEMMA AnalysisKept ==
    ASSUME AnalysisInv, [Analysis!Next]_(Analysis!vars) PROVE AnalysisInv'
<1>1. /\ now \in 0..MaxTime /\ version \in 0..MaxVersion /\ evidence \in 0..MaxEvidence
      /\ checkin \in [at : 0..MaxTime, ready : BOOLEAN]
    BY AnalysisTypes DEF AnalysisInv
<1>2. CASE UNCHANGED Analysis!vars
    BY <1>1, <1>2, QuietAnalysisStep DEF Analysis!vars
<1>3. CASE Analysis!Tick \/ Analysis!OwnerSaves \/ Analysis!EvidenceChanges \/ Analysis!CheckIn
    BY <1>1, <1>3, AnalysisBounds, QuietAnalysisStep
       DEF Analysis!Tick, Analysis!OwnerSaves, Analysis!EvidenceChanges, Analysis!CheckIn,
           Analysis!TakeRefresh
<1>4. CASE Analysis!CheckInEnds
    BY <1>1, <1>4, RefreshTyped, QuietAnalysisStep DEF Analysis!CheckInEnds, AnalysisInv
<1>. QED
    BY <1>2, <1>3, <1>4, AnalystKeeps, BeginApplyKeeps, ApplyRefreshedKeeps, CheckProposalKeeps,
       SaveProposalKeeps DEF Analysis!Next

(* The invariant has what is promised of applied proposals.                *)
LEMMA AnalysisSound ==
    ASSUME AnalysisInv PROVE Analysis!TypeOK /\ Analysis!AppliedAsAnalysed
BY DEF AnalysisInv, SaveSound, Analysis!AppliedAsAnalysed

(* A step of the composition is a step of the analyses or leaves them      *)
(* alone.                                                                  *)
LEMMA AnalysisOnly ==
    ASSUME [Next]_vars PROVE [Analysis!Next]_(Analysis!vars)
BY DEF Next, vars, YahooStep, NewsStep, CacheStep, SleeperStep, AnalysisStep, SeasonStep,
       LineupStep, analysisVars, Analysis!vars

-----------------------------------------------------------------------------
(* News.  Items are of one text each and labelled by it; the alerts that   *)
(* were there stay and new ones are not pushed yet.                        *)
ItemRecords == [text : News!Texts, judged : News!Texts, label : News!Labels]

AlertRecords == [text : News!Texts, label : News!Labels, pushed : 0..2, shared : BOOLEAN]

ReaderRecords == [at : {"idle", "asking", "answered", "fetched", "waiting", "notifying"},
                  sent : 0..MaxPage, got : 0..MaxPage, news : Nat, alert : Nat]

ItemsSound(its) ==
    /\ its \in Seq(ItemRecords)
    /\ \A i, j \in DOMAIN its : its[i].text[1] = its[j].text[1] => i = j
    /\ \A i \in DOMAIN its : its[i].judged = its[i].text

AlertsSound(al) ==
    /\ al \in Seq(AlertRecords)
    /\ \A a, b \in DOMAIN al : al[a].text = al[b].text => a = b

(* The alerts al go on from before: what was pushed stays; what is new is  *)
(* not pushed, and knows whether several that push are under way.          *)
GoesOn(before, al) ==
    /\ \A a \in DOMAIN before :
        /\ a \in DOMAIN al /\ al[a].text = before[a].text
        /\ al[a].pushed = before[a].pushed /\ al[a].shared = before[a].shared
    /\ \A a \in DOMAIN al :
        a \notin DOMAIN before => al[a].pushed = 0 /\ al[a].shared = News!Together

(* A text is stored.                                                       *)
Stored(its, text) == \E i \in DOMAIN its : its[i].text = text

(* What one reader is to push was not pushed, and no other is to push it.  *)
PushedOnce(al, rs) ==
    \A a \in DOMAIN al : ~al[a].shared =>
        /\ al[a].pushed <= 1
        /\ \A r \in News!Pushing : rs[r].at # "idle" /\ a > rs[r].alert =>
              /\ al[a].pushed = 0
              /\ \A q \in News!Pushing : rs[q].at # "idle" /\ a > rs[q].alert => q = r

QueueSound(q, its) ==
    q \in Seq(Nat \X News!Texts) /\ \A k \in DOMAIN q : q[k][1] \in DOMAIN its

NewsInv ==
    /\ page \in 1..MaxPage /\ etag \in 0..MaxPage /\ labelled \subseteq News!Texts
    /\ newsRestarts \in 0..MaxRestarts
    /\ ItemsSound(items) /\ AlertsSound(alerts)
    /\ reader \in [News!Readers -> ReaderRecords]
    /\ QueueSound(queue, items)
    /\ News!EtagTellsItems
    /\ PushedOnce(alerts, reader)

(* What is assumed of batches, pages, restarts and readers.                *)
LEMMA NewsBounds ==
    /\ BatchSize \in Nat \ {0} /\ MaxPage \in Nat \ {0} /\ MaxRestarts \in Nat
    /\ "collect" \notin Manual \cup CheckIns /\ Manual \cap CheckIns = {}
BY NewsAssumption DEF News!NewsFeedAssumption

(* The invariant has what is promised.                                     *)
LEMMA NewsSound ==
    ASSUME NewsInv
    PROVE  News!TypeOK /\ News!LabelsMatchText /\ News!EtagTellsItems /\ News!NotifiedOnce
<1>1. News!TypeOK
    BY DEF NewsInv, ItemsSound, AlertsSound, QueueSound, ItemRecords, AlertRecords,
           ReaderRecords, News!TypeOK
<1>2. News!LabelsMatchText /\ News!NotifiedOnce
    BY DEF NewsInv, ItemsSound, PushedOnce, News!LabelsMatchText, News!NotifiedOnce
<1>. QED
    BY <1>1, <1>2 DEF NewsInv

(* The texts of a page.                                                    *)
LEMMA PageTexts ==
    ASSUME NEW v \in 1..MaxPage
    PROVE  /\ \A u \in 1..v : News!Page(v)[u] \in News!Texts /\ News!Page(v)[u][1] = u
           /\ \A text \in News!Listed(v) : \E u \in 1..v : text = News!Page(v)[u]
<1>1. News!Page(v) = [u \in 1..v |-> IF u = 1 THEN <<1, v>> ELSE <<u, u>>]
    BY DEF News!Page
<1>2. ASSUME NEW u \in 1..v PROVE News!Page(v)[u] \in News!Listed(v) /\ News!Page(v)[u][1] = u
    BY <1>1, NewsBounds DEF News!Listed
<1>3. News!Listed(v) \subseteq News!Texts
    BY DEF News!Texts
<1>4. \A text \in News!Listed(v) : \E u \in 1..v : text = News!Page(v)[u]
    BY <1>1, NewsBounds DEF News!Listed
<1>. QED
    BY <1>2, <1>3, <1>4

(* A sequence with one more element.                                       *)
LEMMA Appended ==
    ASSUME NEW S, NEW s \in Seq(S), NEW e \in S
    PROVE  /\ Append(s, e) \in Seq(S)
           /\ Append(s, e)[Len(s) + 1] = e /\ Len(s) + 1 \in DOMAIN Append(s, e)
           /\ \A i \in DOMAIN s : Append(s, e)[i] = s[i]
           /\ \A i \in DOMAIN Append(s, e) : i \in DOMAIN s \/ i = Len(s) + 1
           /\ DOMAIN s \subseteq DOMAIN Append(s, e)
<1>1. /\ Append(s, e) \in Seq(S) /\ Len(Append(s, e)) = Len(s) + 1
      /\ Append(s, e)[Len(s) + 1] = e /\ \A i \in 1..Len(s) : Append(s, e)[i] = s[i]
    BY AppendProperties
<1>2. Len(s) \in Nat /\ DOMAIN s = 1..Len(s) /\ DOMAIN Append(s, e) = 1..(Len(s) + 1)
    BY <1>1, LenProperties
<1>. QED
    BY <1>1, <1>2

(* The keywords give every text a label.                                   *)
LEMMA LabelsOf == \A text : News!Keywords(text) \in News!Labels
BY DEF News!Keywords, News!Labels

(* A further alert, if there is none of the text.                          *)
LEMMA StoreAlertSound ==
    ASSUME NEW before, NEW al, AlertsSound(al), GoesOn(before, al), NEW text \in News!Texts
    PROVE  AlertsSound(News!StoreAlert(al, text)) /\ GoesOn(before, News!StoreAlert(al, text))
<1>. DEFINE row == [text |-> text, label |-> "alarm", pushed |-> 0, shared |-> News!Together]
            new == News!StoreAlert(al, text)
<1>1. CASE \A a \in DOMAIN al : al[a].text # text
    <2>1. new = Append(al, row)
        BY <1>1 DEF News!StoreAlert
    <2>2. row \in AlertRecords /\ row.text = text /\ row.pushed = 0 /\ row.shared = News!Together
        BY DEF AlertRecords, News!Labels, News!Together
    <2>. HIDE DEF row, new
    <2>3. al \in Seq(AlertRecords)
        BY DEF AlertsSound
    <2>4. /\ new \in Seq(AlertRecords)
          /\ new[Len(al) + 1] = row /\ \A a \in DOMAIN al : new[a] = al[a]
          /\ \A a \in DOMAIN new : a \in DOMAIN al \/ a = Len(al) + 1
          /\ DOMAIN al \subseteq DOMAIN new
        BY <2>1, <2>2, <2>3, Appended
    <2>5. AlertsSound(new)
        <3>1. ASSUME NEW a \in DOMAIN new, NEW b \in DOMAIN new, new[a].text = new[b].text
              PROVE  a = b
            <4>1. CASE a \in DOMAIN al /\ b \in DOMAIN al
                BY <2>4, <3>1, <4>1 DEF AlertsSound
            <4>. QED
                BY <1>1, <2>2, <2>4, <3>1, <4>1
        <3>. QED
            BY <2>4, <3>1 DEF AlertsSound
    <2>6. GoesOn(before, new)
        BY <2>2, <2>4 DEF GoesOn
    <2>. QED
        BY <2>5, <2>6 DEF new
<1>2. CASE ~(\A a \in DOMAIN al : al[a].text # text)
    BY <1>2 DEF News!StoreAlert
<1>. QED
    BY <1>1, <1>2

-----------------------------------------------------------------------------
(* What the database is while a page is stored, the first u entries of it. *)
DbSound(db, its, al, v, u) ==
    /\ ItemsSound(db.items) /\ AlertsSound(db.alerts)
    /\ DOMAIN its \subseteq DOMAIN db.items /\ GoesOn(al, db.alerts)
    /\ \A k \in 1..u : Stored(db.items, News!Page(v)[k])

(* _store_item: the items stay one per link and labelled by their text,    *)
(* what was stored of the page stays, and its text u is stored.            *)
LEMMA StoreItemSound ==
    ASSUME NEW its, NEW al, NEW v \in 1..MaxPage, NEW u \in 1..v,
           NEW db, DbSound(db, its, al, v, u - 1)
    PROVE  DbSound(News!StoreItem(db, News!Page(v)[u]), its, al, v, u)
<1>. DEFINE text == News!Page(v)[u]
            row == [text |-> text, judged |-> text, label |-> News!Keywords(text)]
            known == News!ItemOf(db.items, text)
            new == News!StoreItem(db, text)
<1>1. text \in News!Texts /\ text[1] = u
    BY PageTexts
<1>2. \A k \in 1..u : k \in 1..(u - 1) \/ k = u
    OBVIOUS
<1>3. known = {i \in DOMAIN db.items : db.items[i].text[1] = text[1]}
    BY DEF News!ItemOf
<1>4. CASE \E i \in known : db.items[i].text = text
    <2>1. new = db
        BY <1>4 DEF News!StoreItem
    <2>2. Stored(db.items, text)
        BY <1>3, <1>4 DEF Stored
    <2>. QED
        BY <1>2, <2>1, <2>2 DEF DbSound
<1>5. CASE ~(\E i \in known : db.items[i].text = text)
    <2>. DEFINE its2 == IF known = {} THEN Append(db.items, row)
                        ELSE [i \in DOMAIN db.items |-> IF i \in known THEN row ELSE db.items[i]]
                al2 == IF text \in Alarming THEN News!StoreAlert(db.alerts, text) ELSE db.alerts
    <2>1. new = [items |-> its2, alerts |-> al2]
        BY <1>5 DEF News!StoreItem
    <2>2. AlertsSound(al2) /\ GoesOn(al, al2)
        BY <1>1, StoreAlertSound DEF DbSound
    <2>3. row \in ItemRecords /\ row.text = text /\ row.judged = text
        BY <1>1, LabelsOf DEF ItemRecords
    <2>4. /\ db.items \in Seq(ItemRecords) /\ Len(db.items) \in Nat
          /\ DOMAIN db.items = 1..Len(db.items)
        BY DEF DbSound, ItemsSound
    <2>. HIDE DEF row
    <2>5. /\ its2 \in Seq(ItemRecords) /\ DOMAIN db.items \subseteq DOMAIN its2
          /\ \A i \in DOMAIN its2 : \/ its2[i] = row
                                    \/ i \in DOMAIN db.items /\ i \notin known /\ its2[i] = db.items[i]
          /\ \A i \in DOMAIN db.items : i \notin known => its2[i] = db.items[i]
          /\ \E i \in DOMAIN its2 : its2[i] = row
          /\ \A i, j \in DOMAIN its2 : its2[i] = row /\ its2[j] = row => i = j
        <3>1. CASE known = {}
            <4>1. its2 = Append(db.items, row)
                BY <3>1
            <4>2. /\ its2 \in Seq(ItemRecords) /\ DOMAIN its2 = 1..(Len(db.items) + 1)
                  /\ its2[Len(db.items) + 1] = row
                  /\ \A i \in DOMAIN db.items : its2[i] = db.items[i]
                BY <2>3, <2>4, <4>1, AppendProperties
            <4>3. \A i \in DOMAIN db.items : db.items[i] # row
                BY <1>3, <2>3, <3>1
            <4>4. \A i \in DOMAIN its2 : i \in DOMAIN db.items \/ i = Len(db.items) + 1
                BY <2>4, <4>2
            <4>5. DOMAIN db.items \subseteq DOMAIN its2 /\ Len(db.items) + 1 \in DOMAIN its2
                BY <2>4, <4>2
            <4>. HIDE DEF its2, known
            <4>. QED
                BY <3>1, <4>2, <4>3, <4>4, <4>5
        <3>2. CASE known # {}
            <4>1. its2 = [i \in DOMAIN db.items |-> IF i \in known THEN row ELSE db.items[i]]
                BY <3>2
            <4>2. \A i, j \in known : i = j
                BY <1>3 DEF DbSound, ItemsSound
            <4>3. \A i \in DOMAIN db.items : db.items[i] # row
                BY <1>3, <1>5, <2>3
            <4>4. known \subseteq DOMAIN db.items
                BY <1>3
            <4>. HIDE DEF known, its2
            <4>5. /\ DOMAIN its2 = DOMAIN db.items
                  /\ \A i \in DOMAIN its2 : its2[i] = IF i \in known THEN row ELSE db.items[i]
                BY <4>1
            <4>6. its2 \in [1..Len(db.items) -> ItemRecords]
                <5>1. \A i \in DOMAIN db.items : db.items[i] \in ItemRecords
                    BY <2>4
                <5>. QED
                    BY <2>3, <2>4, <4>1, <5>1
            <4>7. its2 \in Seq(ItemRecords)
                BY <2>4, <4>6
            <4>. QED
                BY <3>2, <4>2, <4>3, <4>4, <4>5, <4>7
        <3>. QED
            BY <3>1, <3>2
    <2>. HIDE DEF its2, al2
    <2>6. \A i \in DOMAIN db.items : i \notin known => db.items[i].text[1] # text[1]
        BY <1>3
    <2>. HIDE DEF known
    <2>7. ItemsSound(its2)
        <3>1. ASSUME NEW i \in DOMAIN its2, NEW j \in DOMAIN its2,
                     its2[i].text[1] = its2[j].text[1]
              PROVE  i = j
            <4>1. CASE its2[i] = row /\ its2[j] = row
                BY <2>5, <4>1
            <4>2. CASE its2[i] # row /\ its2[j] # row
                BY <2>5, <3>1, <4>2 DEF DbSound, ItemsSound
            <4>. QED
                BY <2>3, <2>5, <2>6, <3>1, <4>1, <4>2
        <3>2. \A i \in DOMAIN its2 : its2[i].judged = its2[i].text
            BY <2>3, <2>5 DEF DbSound, ItemsSound
        <3>. QED
            BY <2>5, <3>1, <3>2 DEF ItemsSound
    <2>8. ASSUME NEW k \in 1..u PROVE Stored(its2, News!Page(v)[k])
        <3>1. CASE k = u
            BY <2>3, <2>5, <3>1 DEF Stored
        <3>2. CASE k \in 1..(u - 1)
            <4>1. PICK i \in DOMAIN db.items : db.items[i].text = News!Page(v)[k]
                BY <3>2 DEF DbSound, Stored
            <4>2. k \in 1..v /\ k # u
                BY <3>2
            <4>3. News!Page(v)[k][1] = k
                BY <4>2, PageTexts
            <4>4. i \notin known
                BY <1>1, <1>3, <4>1, <4>2, <4>3 DEF known
            <4>5. i \in DOMAIN its2 /\ its2[i].text = News!Page(v)[k]
                BY <2>5, <4>1, <4>4
            <4>. QED
                BY <4>5 DEF Stored
        <3>. QED
            BY <1>2, <3>1, <3>2
    <2>9. new.items = its2 /\ new.alerts = al2
        BY <2>1
    <2>. HIDE DEF new
    <2>10. DOMAIN its \subseteq DOMAIN its2
        BY <2>5 DEF DbSound
    <2>11. DbSound(new, its, al, v, u)
        BY <2>2, <2>7, <2>8, <2>9, <2>10 DEF DbSound
    <2>. QED
        BY <2>11 DEF new
<1>. QED
    BY <1>4, <1>5

(* A page that is stored is stored as a whole.                             *)
LEMMA StorePageSound ==
    ASSUME NewsInv, NEW v \in 1..MaxPage
    PROVE  DbSound(News!StorePage(v), items, alerts, v, v)
<1>. DEFINE S == [items : Seq(ItemRecords), alerts : Seq(AlertRecords)]
            base == [items |-> items, alerts |-> alerts]
            good == [u \in 0..v |-> {db \in S : DbSound(db, items, alerts, v, u)}]
            Step == [x \in (1..v) \X S |-> News!StoreItem(x[2], News!Page(v)[x[1]])]
            Rec(f) == f = [u \in 0..v |-> IF u = 0 THEN base
                                          ELSE News!StoreItem(f[u - 1], News!Page(v)[u])]
<1>1. News!StorePage(v) = (CHOOSE f : Rec(f))[v]
    BY Zenon DEF News!StorePage
<1>2. v \in Nat /\ 0 \in 0..v
    OBVIOUS
<1>3. base \in S /\ base.items = items /\ base.alerts = alerts
    BY DEF NewsInv, ItemsSound, AlertsSound
<1>. HIDE DEF base
<1>4. DbSound(base, items, alerts, v, 0)
    BY <1>3 DEF NewsInv, DbSound, GoesOn, AlertsSound
<1>5. base \in good[0]
    BY <1>2, <1>3, <1>4
<1>6. \A u \in 0..v : good[u] \subseteq S
    OBVIOUS
<1>7. ASSUME NEW u \in 1..v, NEW x \in good[u - 1] PROVE Step[<<u, x>>] \in good[u]
    <2>1. u - 1 \in 0..v /\ u \in 0..v
        OBVIOUS
    <2>2. x \in S /\ DbSound(x, items, alerts, v, u - 1)
        BY <2>1
    <2>3. Step[<<u, x>>] = News!StoreItem(x, News!Page(v)[u])
        BY <2>2
    <2>. DEFINE new == News!StoreItem(x, News!Page(v)[u])
    <2>4. DbSound(new, items, alerts, v, u)
        BY <2>2, StoreItemSound
    <2>5. new \in S
        <3>1. new = x \/ new = [items |-> new.items, alerts |-> new.alerts]
            BY DEF News!StoreItem
        <3>2. new.items \in Seq(ItemRecords) /\ new.alerts \in Seq(AlertRecords)
            BY <2>4 DEF DbSound, ItemsSound, AlertsSound
        <3>. HIDE DEF new
        <3>. QED
            BY <2>2, <3>1, <3>2
    <2>. HIDE DEF Step, new
    <2>. QED
        BY <2>1, <2>3, <2>4, <2>5 DEF new
<1>8. \A u \in 1..v, x \in S : Step[<<u, x>>] = News!StoreItem(x, News!Page(v)[u])
    OBVIOUS
<1>. HIDE DEF good, Step, S
<1>9. SoundSteps(v, S, good, Step, base)
    BY <1>2, <1>5, <1>6, <1>7 DEF SoundSteps
<1>10. \E f : Rec(f)
    <2>1. PICK f \in [0..v -> S] : Follows(f, v, S, Step, base)
        BY <1>9, StepsExist
    <2>2. ASSUME NEW u \in 0..v
          PROVE  f[u] = IF u = 0 THEN base ELSE News!StoreItem(f[u - 1], News!Page(v)[u])
        <3>1. CASE u = 0
            BY <2>1, <3>1 DEF Follows
        <3>2. CASE u # 0
            <4>1. u \in 1..v /\ u - 1 \in 0..v
                BY <3>2
            <4>2. f[u - 1] \in S
                BY <2>1, <4>1
            <4>. QED
                BY <1>8, <2>1, <3>2, <4>1, <4>2 DEF Follows
        <3>. QED
            BY <3>1, <3>2
    <2>3. [u \in 0..v |-> f[u]] = [u \in 0..v |-> IF u = 0 THEN base
                                        ELSE News!StoreItem(f[u - 1], News!Page(v)[u])]
        BY <2>2
    <2>4. Rec(f)
        BY <2>1, <2>3
    <2>. HIDE DEF Rec
    <2>. QED
        BY <2>4
<1>. DEFINE after == CHOOSE f : Rec(f)
<1>11. Rec(after)
    <2>. HIDE DEF Rec
    <2>. QED
        BY <1>10
<1>. HIDE DEF after
<1>12. Follows(after, v, S, Step, base)
    <2>1. \A u \in 0..v : after[u] = IF u = 0 THEN base
                                     ELSE News!StoreItem(after[u - 1], News!Page(v)[u])
        BY <1>11, Zenon
    <2>2. \A u \in 1..v : u \in 0..v /\ u # 0
        OBVIOUS
    <2>. QED
        BY <1>2, <1>8, <2>1, <2>2 DEF Follows
<1>13. \A u \in 0..v : after[u] \in good[u]
    BY <1>9, <1>12, StepsGood
<1>14. after[v] \in good[v] /\ v \in 0..v
    BY <1>2, <1>13
<1>15. DbSound(after[v], items, alerts, v, v)
    BY <1>14 DEF good
<1>. QED
    BY <1>1, <1>15 DEF after

(* A batch is of the queue's first entries, and what is left of its last.  *)
LEMMA BatchSound ==
    ASSUME NEW T, queue \in Seq(T)
    PROVE  /\ News!Batch \in Seq(T) /\ Len(News!Batch) \in Nat
           /\ \A k \in DOMAIN News!Batch : k \in DOMAIN queue /\ News!Batch[k] = queue[k]
           /\ LET rest == SubSeq(queue, Len(News!Batch) + 1, Len(queue))
              IN  /\ rest \in Seq(T)
                  /\ \A k \in DOMAIN rest : \E j \in DOMAIN queue : rest[k] = queue[j]
<1>. DEFINE m == IF Len(queue) < BatchSize THEN Len(queue) ELSE BatchSize
<1>1. Len(queue) \in Nat /\ DOMAIN queue = 1..Len(queue) /\ m \in 0..Len(queue)
    BY NewsBounds
<1>2. News!Batch = SubSeq(queue, 1, m)
    BY DEF News!Batch
<1>. HIDE DEF m
<1>3. \A i \in 1..m : queue[i] \in T
    BY <1>1
<1>4. /\ News!Batch \in Seq(T) /\ Len(News!Batch) = m
      /\ \A k \in 1..m : News!Batch[k] = queue[k]
    <2>1. /\ SubSeq(queue, 1, m) \in Seq(T)
          /\ Len(SubSeq(queue, 1, m)) = IF 1 <= m THEN m - 1 + 1 ELSE 0
          /\ \A i \in 1..(m - 1 + 1) : SubSeq(queue, 1, m)[i] = queue[1 + i - 1]
        BY <1>1, <1>3, SubSeqProperties
    <2>. QED
        BY <1>1, <1>2, <2>1
<1>5. DOMAIN News!Batch = 1..m
    BY <1>4, LenProperties
<1>. DEFINE rest == SubSeq(queue, m + 1, Len(queue))
<1>6. \A i \in (m + 1)..Len(queue) : queue[i] \in T
    BY <1>1
<1>7. /\ rest \in Seq(T)
      /\ Len(rest) = IF m + 1 <= Len(queue) THEN Len(queue) - (m + 1) + 1 ELSE 0
      /\ \A i \in 1..(Len(queue) - (m + 1) + 1) : rest[i] = queue[(m + 1) + i - 1]
    BY <1>1, <1>6, SubSeqProperties
<1>. HIDE DEF rest
<1>8. ASSUME NEW k \in DOMAIN rest PROVE \E j \in DOMAIN queue : rest[k] = queue[j]
    <2>1. k \in 1..(Len(queue) - m)
        <3>1. DOMAIN rest = 1..Len(rest)
            BY <1>7, LenProperties
        <3>2. CASE m + 1 <= Len(queue)
            BY <1>1, <1>7, <3>1, <3>2
        <3>3. CASE ~(m + 1 <= Len(queue))
            BY <1>1, <1>7, <3>1, <3>3
        <3>. QED
            BY <3>2, <3>3
    <2>2. m + k \in DOMAIN queue
        BY <1>1, <2>1
    <2>3. k \in 1..(Len(queue) - (m + 1) + 1) /\ (m + 1) + k - 1 = m + k
        BY <1>1, <2>1
    <2>4. rest[k] = queue[(m + 1) + k - 1]
        BY <1>7, <2>3
    <2>. QED
        BY <2>2, <2>3, <2>4
<1>. QED
    BY <1>1, <1>4, <1>5, <1>7, <1>8 DEF rest

(* What is to be classified refers to items.                               *)
LEMMA NewItemsSound ==
    ASSUME NewsInv PROVE QueueSound(News!NewItems, items)
<1>. DEFINE n == Len(items)
            S == Seq(Nat \X News!Texts)
            good == [i \in 0..n |-> {q \in S : QueueSound(q, items)}]
            Extended(i, q) == IF i > reader["collect"].news /\ items[i].text \notin labelled
                              THEN Append(q, <<i, items[i].text>>) ELSE q
            Step == [x \in (1..n) \X S |-> Extended(x[1], x[2])]
            Rec(f) == f = [i \in 0..n |-> IF i = 0 THEN <<>>
                                          ELSE IF /\ i > reader["collect"].news
                                                  /\ items[i].text \notin labelled
                                               THEN Append(f[i - 1], <<i, items[i].text>>)
                                               ELSE f[i - 1]]
<1>1. News!NewItems = (CHOOSE f : Rec(f))[n]
    BY Zenon DEF News!NewItems
<1>2. n \in Nat /\ 0 \in 0..n /\ n \in 0..n /\ items \in Seq(ItemRecords)
      /\ DOMAIN items = 1..n
    BY DEF NewsInv, ItemsSound
<1>3. <<>> \in good[0] /\ \A i \in 0..n : good[i] \subseteq S
    BY <1>2 DEF QueueSound
<1>4. ASSUME NEW i \in 1..n, NEW q \in S
      PROVE  Step[<<i, q>>] = Extended(i, q)
    OBVIOUS
<1>5. ASSUME NEW i \in 1..n, NEW q \in good[i - 1] PROVE Step[<<i, q>>] \in good[i]
    <2>1. q \in S /\ QueueSound(q, items) /\ i \in 0..n
        BY <1>2
    <2>2. items[i] \in ItemRecords /\ i \in DOMAIN items
        BY <1>2
    <2>. DEFINE e == <<i, items[i].text>>
    <2>3. e \in Nat \X News!Texts /\ e[1] = i
        BY <1>2, <2>2 DEF ItemRecords
    <2>. HIDE DEF e
    <2>4. Append(q, e) \in S /\ QueueSound(Append(q, e), items)
        <3>1. \A k \in DOMAIN Append(q, e) : Append(q, e)[k] = e \/ (k \in DOMAIN q /\ Append(q, e)[k] = q[k])
            BY <2>1, <2>3, Appended
        <3>2. Append(q, e) \in S
            BY <2>1, <2>3, Appended
        <3>. QED
            BY <2>1, <2>2, <2>3, <3>1, <3>2 DEF QueueSound
    <2>5. Extended(i, q) \in {q, Append(q, e)}
        BY DEF e
    <2>6. Step[<<i, q>>] \in {q, Append(q, e)}
        BY <1>4, <2>1, <2>5
    <2>7. \A x \in {q, Append(q, e)} : x \in good[i]
        BY <2>1, <2>4
    <2>. HIDE DEF Extended, Step, good
    <2>. QED
        BY <2>6, <2>7
<1>6. \A f : Rec(f) => \A i \in 0..n : f[i] = IF i = 0 THEN <<>> ELSE Extended(i, f[i - 1])
    BY Zenon
<1>7. ASSUME NEW f, \A i \in 0..n : f[i] = IF i = 0 THEN <<>> ELSE Extended(i, f[i - 1]),
             f = [i \in 0..n |-> f[i]]
      PROVE  Rec(f)
    <2>1. [i \in 0..n |-> f[i]] = [i \in 0..n |-> IF i = 0 THEN <<>> ELSE Extended(i, f[i - 1])]
        BY <1>7
    <2>. QED
        BY <1>7, <2>1, Zenon
<1>. HIDE DEF good, Step, S, Extended
<1>8. SoundSteps(n, S, good, Step, <<>>)
    BY <1>2, <1>3, <1>5 DEF SoundSteps
<1>9. \A i \in 1..n : i \in 0..n /\ i - 1 \in 0..n /\ i # 0
    OBVIOUS
<1>10. \E f : Rec(f)
    <2>1. PICK f \in [0..n -> S] : Follows(f, n, S, Step, <<>>)
        BY <1>8, StepsExist
    <2>2. ASSUME NEW i \in 0..n PROVE f[i] = IF i = 0 THEN <<>> ELSE Extended(i, f[i - 1])
        <3>1. CASE i = 0
            BY <2>1, <3>1 DEF Follows
        <3>2. CASE i # 0
            <4>1. i \in 1..n /\ f[i - 1] \in S
                BY <2>1, <3>2
            <4>. QED
                BY <1>4, <2>1, <3>2, <4>1 DEF Follows
        <3>. QED
            BY <3>1, <3>2
    <2>. HIDE DEF Rec
    <2>. QED
        BY <1>7, <2>1, <2>2
<1>. DEFINE after == CHOOSE f : Rec(f)
<1>11. Rec(after)
    <2>. HIDE DEF Rec
    <2>. QED
        BY <1>10
<1>. HIDE DEF after
<1>12. Follows(after, n, S, Step, <<>>)
    <2>1. \A i \in 0..n : after[i] = IF i = 0 THEN <<>> ELSE Extended(i, after[i - 1])
        <3>. HIDE DEF Rec
        <3>. QED
            BY <1>6, <1>11
    <2>. QED
        BY <1>2, <1>4, <1>9, <2>1 DEF Follows
<1>13. after[n] \in good[n]
    BY <1>2, <1>8, <1>12, StepsGood
<1>14. QueueSound(after[n], items)
    BY <1>2, <1>13 DEF good
<1>. QED
    BY <1>1, <1>14 DEF after

(* The labels of a batch change no alert's text and push none.             *)
LEMMA RelabelledSound ==
    ASSUME NewsInv, NEW judged, judged \subseteq News!Texts, NEW label \in [judged -> News!Labels]
    PROVE  /\ AlertsSound(News!Relabelled(label, judged))
           /\ GoesOn(alerts, News!Relabelled(label, judged))
<1>. DEFINE n == Len(News!Batch)
            S == Seq(AlertRecords)
            Whole(al) == AlertsSound(al) /\ GoesOn(alerts, al)
            good == [k \in 0..n |-> {al \in S : Whole(al)}]
            updated == [a \in DOMAIN alerts |->
                          IF alerts[a].text \in judged
                          THEN [alerts[a] EXCEPT !.label = label[alerts[a].text]] ELSE alerts[a]]
            Extended(k, al) == IF News!Batch[k][2] \in judged /\ label[News!Batch[k][2]] = "alarm"
                               THEN News!StoreAlert(al, News!Batch[k][2]) ELSE al
            Step == [x \in (1..n) \X S |-> Extended(x[1], x[2])]
            Rec(f) == f = [k \in 0..n |-> IF k = 0 THEN updated
                                          ELSE IF /\ News!Batch[k][2] \in judged
                                                  /\ label[News!Batch[k][2]] = "alarm"
                                               THEN News!StoreAlert(f[k - 1], News!Batch[k][2])
                                               ELSE f[k - 1]]
<1>1. News!Relabelled(label, judged) = (CHOOSE f : Rec(f))[n]
    BY Zenon DEF News!Relabelled
<1>2. n \in Nat /\ 0 \in 0..n /\ n \in 0..n
    <2>1. queue \in Seq(Nat \X News!Texts)
        BY DEF NewsInv, QueueSound
    <2>2. n \in Nat
        BY <2>1, BatchSound
    <2>. QED
        BY <2>2
<1>3. updated \in S /\ Whole(updated)
    <2>1. /\ alerts \in Seq(AlertRecords) /\ Len(alerts) \in Nat
          /\ DOMAIN alerts = 1..Len(alerts) /\ \A a \in DOMAIN alerts : alerts[a] \in AlertRecords
        BY DEF NewsInv, AlertsSound
    <2>2. ASSUME NEW a \in DOMAIN alerts
          PROVE  /\ updated[a] \in AlertRecords /\ updated[a].text = alerts[a].text
                 /\ updated[a].pushed = alerts[a].pushed /\ updated[a].shared = alerts[a].shared
        BY <2>1 DEF AlertRecords
    <2>3. DOMAIN updated = DOMAIN alerts
        OBVIOUS
    <2>4. updated \in [1..Len(alerts) -> AlertRecords]
        BY <2>1, <2>2
    <2>. HIDE DEF updated
    <2>5. updated \in Seq(AlertRecords)
        BY <2>1, <2>4
    <2>. QED
        BY <2>2, <2>3, <2>5 DEF NewsInv, AlertsSound, GoesOn
<1>. HIDE DEF updated
<1>4. updated \in good[0] /\ \A k \in 0..n : good[k] \subseteq S
    BY <1>2, <1>3
<1>5. ASSUME NEW k \in 1..n, NEW al \in S PROVE Step[<<k, al>>] = Extended(k, al)
    OBVIOUS
<1>6. ASSUME NEW k \in 1..n, NEW al \in good[k - 1] PROVE Step[<<k, al>>] \in good[k]
    <2>1. al \in S /\ Whole(al) /\ k \in 0..n
        BY <1>2
    <2>. DEFINE text == News!Batch[k][2]
    <2>2. CASE text \in judged /\ label[text] = "alarm"
        <3>1. Extended(k, al) = News!StoreAlert(al, text)
            BY <2>2
        <3>. HIDE DEF text, Extended
        <3>2. Whole(News!StoreAlert(al, text))
            BY <2>1, <2>2, StoreAlertSound
        <3>3. News!StoreAlert(al, text) \in S
            BY <3>2 DEF AlertsSound
        <3>. QED
            BY <1>5, <2>1, <3>1, <3>2, <3>3
    <2>3. CASE ~(text \in judged /\ label[text] = "alarm")
        <3>1. Extended(k, al) = al
            BY <2>3
        <3>. QED
            BY <1>5, <2>1, <3>1
    <2>. QED
        BY <2>2, <2>3
<1>7. \A f : Rec(f) => \A k \in 0..n : f[k] = IF k = 0 THEN updated ELSE Extended(k, f[k - 1])
    BY Zenon
<1>8. ASSUME NEW f, \A k \in 0..n : f[k] = IF k = 0 THEN updated ELSE Extended(k, f[k - 1]),
             f = [k \in 0..n |-> f[k]]
      PROVE  Rec(f)
    <2>1. [k \in 0..n |-> f[k]] = [k \in 0..n |-> IF k = 0 THEN updated ELSE Extended(k, f[k - 1])]
        BY <1>8
    <2>. QED
        BY <1>8, <2>1, Zenon
<1>. HIDE DEF good, Step, S, Extended
<1>9. SoundSteps(n, S, good, Step, updated)
    BY <1>2, <1>4, <1>6 DEF SoundSteps
<1>10. \A k \in 1..n : k \in 0..n /\ k - 1 \in 0..n /\ k # 0
    OBVIOUS
<1>11. \E f : Rec(f)
    <2>1. PICK f \in [0..n -> S] : Follows(f, n, S, Step, updated)
        BY <1>9, StepsExist
    <2>2. ASSUME NEW k \in 0..n PROVE f[k] = IF k = 0 THEN updated ELSE Extended(k, f[k - 1])
        <3>1. CASE k = 0
            BY <2>1, <3>1 DEF Follows
        <3>2. CASE k # 0
            <4>1. k \in 1..n /\ f[k - 1] \in S
                BY <2>1, <3>2
            <4>. QED
                BY <1>5, <2>1, <3>2, <4>1 DEF Follows
        <3>. QED
            BY <3>1, <3>2
    <2>. HIDE DEF Rec
    <2>. QED
        BY <1>8, <2>1, <2>2
<1>. DEFINE after == CHOOSE f : Rec(f)
<1>12. Rec(after)
    <2>. HIDE DEF Rec
    <2>. QED
        BY <1>11
<1>. HIDE DEF after
<1>13. Follows(after, n, S, Step, updated)
    <2>1. \A k \in 0..n : after[k] = IF k = 0 THEN updated ELSE Extended(k, after[k - 1])
        <3>. HIDE DEF Rec
        <3>. QED
            BY <1>7, <1>12
    <2>. QED
        BY <1>2, <1>5, <1>10, <2>1 DEF Follows
<1>14. after[n] \in good[n]
    BY <1>2, <1>9, <1>13, StepsGood
<1>15. Whole(after[n])
    BY <1>2, <1>14 DEF good
<1>. QED
    BY <1>1, <1>15 DEF after

-----------------------------------------------------------------------------
(* The readers go on, and none that pushes begins.                         *)
NoneBegins(rs, rs2) ==
    \A r \in News!Pushing : rs2[r].at # "idle" =>
        rs[r].at # "idle" /\ rs2[r].alert = rs[r].alert

(* A step that only adds alerts, in which nobody begins, pushes nothing    *)
(* twice.                                                                  *)
LEMMA PushedOnceKept ==
    ASSUME PushedOnce(alerts, reader), NEW al, GoesOn(alerts, al),
           NEW rs, NoneBegins(reader, rs)
    PROVE  PushedOnce(al, rs)
<1>1. ASSUME NEW a \in DOMAIN al, ~al[a].shared, a \in DOMAIN alerts
      PROVE  /\ al[a].pushed = alerts[a].pushed /\ ~alerts[a].shared
    BY <1>1 DEF GoesOn
<1>2. ASSUME NEW a \in DOMAIN al, ~al[a].shared, a \notin DOMAIN alerts
      PROVE  al[a].pushed = 0 /\ ~News!Together
    BY <1>2 DEF GoesOn
<1>3. ASSUME ~News!Together,
             NEW q \in News!Pushing, NEW r \in News!Pushing, rs[q].at # "idle", rs[r].at # "idle"
      PROVE  q = r
    BY <1>3 DEF News!Together, NoneBegins
<1>4. ASSUME NEW a \in DOMAIN al, ~al[a].shared
      PROVE  /\ al[a].pushed <= 1
             /\ \A r \in News!Pushing : rs[r].at # "idle" /\ a > rs[r].alert =>
                  /\ al[a].pushed = 0
                  /\ \A q \in News!Pushing : rs[q].at # "idle" /\ a > rs[q].alert => q = r
    <2>1. CASE a \in DOMAIN alerts
        BY <1>1, <1>4, <2>1 DEF PushedOnce, NoneBegins
    <2>2. CASE a \notin DOMAIN alerts
        BY <1>2, <1>3, <1>4, <2>2
    <2>. QED
        BY <2>1, <2>2
<1>. QED
    BY <1>4 DEF PushedOnce

(* The reader r is done, and none begins.                                  *)
Ends(r, rs) == rs[r].at = "idle" /\ NoneBegins(reader, rs)

(* Who pushes pushes what was not pushed before, and is done.              *)
LEMMA PushedIsNew ==
    ASSUME PushedOnce(alerts, reader), NEW al, GoesOn(alerts, al), AlertsSound(al),
           NEW r \in News!Pushing, reader[r].at # "idle", NEW all,
           NEW rs, Ends(r, rs)
    PROVE  PushedOnce(News!Pushed(al, reader[r].alert, all), rs)
<1>. DEFINE new == News!Pushed(al, reader[r].alert, all)
<1>1. PushedOnce(al, reader) /\ PushedOnce(al, rs)
    <2>1. NoneBegins(reader, reader) /\ NoneBegins(reader, rs)
        BY DEF NoneBegins, Ends
    <2>. QED
        BY <2>1, PushedOnceKept
<1>2. DOMAIN new = DOMAIN al
    BY DEF News!Pushed
<1>3. ASSUME NEW a \in DOMAIN al
      PROVE  \/ new[a] = al[a]
             \/ /\ a > reader[r].alert
                /\ new[a] = [al[a] EXCEPT !.pushed = IF @ = 2 THEN 2 ELSE @ + 1]
    BY DEF News!Pushed
<1>. HIDE DEF new
<1>4. ASSUME NEW a \in DOMAIN al, ~new[a].shared
      PROVE  /\ new[a].pushed <= 1
             /\ \A p \in News!Pushing : rs[p].at # "idle" /\ a > rs[p].alert =>
                  /\ new[a].pushed = 0
                  /\ \A q \in News!Pushing : rs[q].at # "idle" /\ a > rs[q].alert => q = p
    <2>1. CASE new[a] = al[a]
        BY <1>1, <1>4, <2>1 DEF PushedOnce
    <2>2. CASE /\ a > reader[r].alert
               /\ new[a] = [al[a] EXCEPT !.pushed = IF @ = 2 THEN 2 ELSE @ + 1]
        <3>1. al[a] \in AlertRecords
            BY DEF AlertsSound
        <3>2. ~al[a].shared
            BY <1>4, <2>2, <3>1 DEF AlertRecords
        <3>3. /\ al[a].pushed = 0
              /\ \A q \in News!Pushing : reader[q].at # "idle" /\ a > reader[q].alert => q = r
            BY <1>1, <2>2, <3>2 DEF PushedOnce
        <3>4. new[a].pushed = 1
            BY <2>2, <3>1, <3>3 DEF AlertRecords
        <3>5. \A p \in News!Pushing : ~(rs[p].at # "idle" /\ a > rs[p].alert)
            BY <3>3 DEF Ends, NoneBegins
        <3>. QED
            BY <3>4, <3>5
    <2>. QED
        BY <1>3, <2>1, <2>2
<1>5. PushedOnce(new, rs)
    BY <1>2, <1>4 DEF PushedOnce
<1>. QED
    BY <1>5 DEF new

(* Pushing alerts changes no text.                                         *)
LEMMA PushedSound ==
    ASSUME NEW al, AlertsSound(al), NEW from, NEW all
    PROVE  AlertsSound(News!Pushed(al, from, all))
<1>. DEFINE new == News!Pushed(al, from, all)
<1>1. /\ al \in Seq(AlertRecords) /\ Len(al) \in Nat
      /\ DOMAIN al = 1..Len(al) /\ \A a \in DOMAIN al : al[a] \in AlertRecords
    BY DEF AlertsSound
<1>2. new = [a \in DOMAIN al |-> new[a]]
    BY DEF News!Pushed
<1>3. ASSUME NEW a \in DOMAIN al PROVE new[a] \in AlertRecords /\ new[a].text = al[a].text
    <2>1. al[a] \in AlertRecords
        BY <1>1
    <2>2. \/ new[a] = al[a]
          \/ new[a] = [al[a] EXCEPT !.pushed = IF @ = 2 THEN 2 ELSE @ + 1]
        BY DEF News!Pushed
    <2>. HIDE DEF new
    <2>. QED
        BY <2>1, <2>2 DEF AlertRecords
<1>. HIDE DEF new
<1>4. DOMAIN new = DOMAIN al
    BY <1>2
<1>5. new \in Seq(AlertRecords)
    BY <1>1, <1>2, <1>3
<1>6. AlertsSound(new)
    BY <1>3, <1>4, <1>5 DEF AlertsSound
<1>. QED
    BY <1>6 DEF new

(* Alerts go on from themselves.                                           *)
LEMMA GoesOnSelf == ASSUME NEW al, AlertsSound(al) PROVE GoesOn(al, al)
BY DEF GoesOn

-----------------------------------------------------------------------------
(* Before the first fetch nothing is stored and no reader is at work.      *)
LEMMA NewsInit == ASSUME News!Init PROVE NewsInv
<1>. USE DEF News!Init, News!Idle
<1>1. /\ page \in 1..MaxPage /\ etag \in 0..MaxPage /\ newsRestarts \in 0..MaxRestarts
    BY NewsBounds
<1>2. items = <<>> /\ items \in Seq(ItemRecords) /\ alerts = <<>> /\ alerts \in Seq(AlertRecords)
    OBVIOUS
<1>3. ItemsSound(items) /\ AlertsSound(alerts)
    BY <1>2 DEF ItemsSound, AlertsSound
<1>4. reader \in [News!Readers -> ReaderRecords]
    BY NewsBounds DEF ReaderRecords
<1>5. QueueSound(queue, items)
    BY DEF QueueSound
<1>6. News!EtagTellsItems
    BY DEF News!EtagTellsItems
<1>7. PushedOnce(alerts, reader)
    BY DEF PushedOnce
<1>8. labelled \subseteq News!Texts
    OBVIOUS
<1>. QED
    BY <1>1, <1>3, <1>4, <1>5, <1>6, <1>7, <1>8 DEF NewsInv

(* The source's page changes; what is stored does not.                     *)
LEMMA PublishPageKeeps == ASSUME NewsInv, News!PublishPage PROVE NewsInv'
<1>1. page' \in 1..MaxPage
    BY NewsBounds DEF NewsInv, News!PublishPage
<1>. QED
    BY <1>1 DEF NewsInv, News!PublishPage, News!EtagTellsItems

(* A restart ends the readers and forgets the queue.                       *)
LEMMA NewsRestartKeeps == ASSUME NewsInv, News!Restart PROVE NewsInv'
<1>. USE DEF News!Restart
<1>1. newsRestarts' \in 0..MaxRestarts
    BY NewsBounds DEF NewsInv
<1>2. reader' \in [News!Readers -> ReaderRecords]
    BY NewsBounds DEF ReaderRecords, News!Idle
<1>3. QueueSound(queue', items')
    BY DEF QueueSound
<1>4. PushedOnce(alerts', reader')
    <2>1. NoneBegins(reader, reader')
        BY DEF NoneBegins, News!Idle, News!Pushing, News!Readers
    <2>2. GoesOn(alerts, alerts)
        BY GoesOnSelf DEF NewsInv
    <2>3. PushedOnce(alerts, reader)
        BY DEF NewsInv
    <2>4. PushedOnce(alerts, reader')
        BY <2>1, <2>2, <2>3, PushedOnceKept
    <2>. QED
        BY <2>4
<1>. QED
    BY <1>1, <1>2, <1>3, <1>4 DEF NewsInv, News!EtagTellsItems

(* A fetch begins: it remembers the newest alert, and behind it there is   *)
(* none that was pushed.                                                   *)
LEMMA BeginFetchKeeps ==
    ASSUME NewsInv, NEW r \in News!Readers, News!BeginFetch(r) PROVE NewsInv'
<1>. DEFINE new == [at |-> "asking", sent |-> etag, got |-> 0,
                    news |-> IF r = "collect" THEN Len(items) ELSE 0,
                    alert |-> IF r \in News!Pushing THEN Len(alerts) ELSE 0]
<1>1. Len(items) \in Nat /\ Len(alerts) \in Nat /\ DOMAIN alerts = 1..Len(alerts)
    BY DEF NewsInv, ItemsSound, AlertsSound
<1>2. new \in ReaderRecords /\ (r \in News!Pushing => new.alert = Len(alerts))
    BY <1>1, NewsBounds DEF NewsInv, ReaderRecords
<1>3. reader' = [reader EXCEPT ![r] = new]
    BY DEF News!BeginFetch
<1>. HIDE DEF new
<1>4. /\ reader' \in [News!Readers -> ReaderRecords] /\ reader'[r] = new
      /\ \A q \in News!Readers : q # r => reader'[q] = reader[q]
    BY <1>2, <1>3 DEF NewsInv
<1>5. UNCHANGED <<page, items, alerts, etag, labelled, queue, newsRestarts>>
    BY DEF News!BeginFetch
<1>6. PushedOnce(alerts, reader) /\ News!Pushing \subseteq News!Readers
    BY DEF NewsInv, News!Pushing, News!Readers
<1>7. ASSUME NEW a \in DOMAIN alerts, NEW q \in News!Pushing, a > reader'[q].alert
      PROVE  reader'[q] = reader[q]
    BY <1>1, <1>2, <1>4, <1>6, <1>7
<1>8. PushedOnce(alerts, reader')
    BY <1>6, <1>7 DEF PushedOnce
<1>. QED
    BY <1>4, <1>5, <1>8 DEF NewsInv, News!EtagTellsItems

(* The source answers with its page, or with nothing new to an etag.       *)
LEMMA AnswerKeeps ==
    ASSUME NewsInv, NEW r \in News!Readers, News!Answer(r) PROVE NewsInv'
<1>. DEFINE got == IF reader[r].sent = page THEN 0 ELSE page
            new == [reader[r] EXCEPT !.at = "answered", !.sent = 0, !.got = got]
<1>1. reader[r] \in ReaderRecords /\ reader \in [News!Readers -> ReaderRecords]
    BY DEF NewsInv
<1>2. got \in 0..MaxPage /\ 0 \in 0..MaxPage
    BY NewsBounds DEF NewsInv
<1>3. reader' = [reader EXCEPT ![r] = new]
    BY <1>1 DEF News!Answer
<1>. HIDE DEF got
<1>4. new \in ReaderRecords /\ new.alert = reader[r].alert
    BY <1>1, <1>2 DEF ReaderRecords
<1>. HIDE DEF new
<1>5. UNCHANGED <<page, items, alerts, etag, labelled, queue, newsRestarts>>
      /\ reader[r].at # "idle"
    BY DEF News!Answer
<1>6. reader' \in [News!Readers -> ReaderRecords] /\ NoneBegins(reader, reader')
    BY <1>1, <1>3, <1>4, <1>5 DEF NoneBegins, News!Pushing, News!Readers
<1>7. PushedOnce(alerts, reader')
    BY <1>6, GoesOnSelf, PushedOnceKept DEF NewsInv
<1>. QED
    BY <1>5, <1>6, <1>7 DEF NewsInv, News!EtagTellsItems

(* A reader that was under way goes on.                                    *)
LEMMA FetchedGoesOn ==
    ASSUME NewsInv, NEW r \in News!Readers, News!Fetched(r)
    PROVE  /\ reader' \in [News!Readers -> ReaderRecords]
           /\ reader[r].at # "idle" => NoneBegins(reader, reader')
           /\ r \in Manual => reader'[r].at = "idle"
<1>. DEFINE new == IF r = "collect"
                   THEN [reader[r] EXCEPT !.at = "fetched", !.sent = 0, !.got = 0] ELSE News!Idle
<1>1. reader[r] \in ReaderRecords /\ reader \in [News!Readers -> ReaderRecords]
    BY DEF NewsInv
<1>2. reader' = [reader EXCEPT ![r] = new]
    BY <1>1 DEF News!Fetched
<1>3. News!Idle \in ReaderRecords /\ News!Idle.at = "idle"
    BY NewsBounds DEF News!Idle, ReaderRecords
<1>4. /\ new \in ReaderRecords
      /\ new.at # "idle" => new.alert = reader[r].alert
      /\ r \in Manual => new.at = "idle"
    <2>1. CASE r = "collect"
        <3>1. /\ new = [reader[r] EXCEPT !.at = "fetched", !.sent = 0, !.got = 0]
              /\ 0 \in 0..MaxPage /\ r \notin Manual
            BY <2>1, NewsBounds
        <3>. QED
            BY <1>1, <3>1 DEF ReaderRecords
    <2>2. CASE r # "collect"
        BY <1>3, <2>2
    <2>. QED
        BY <2>1, <2>2
<1>. HIDE DEF new
<1>5. /\ reader' \in [News!Readers -> ReaderRecords] /\ reader'[r] = new
      /\ \A q \in News!Readers : q # r => reader'[q] = reader[q]
    BY <1>1, <1>2, <1>4
<1>. QED
    BY <1>4, <1>5 DEF NoneBegins, News!Pushing, News!Readers

(* A fetch fails: nothing is stored.                                       *)
LEMMA FetchFailsKeeps ==
    ASSUME NewsInv, NEW r \in News!Readers, News!FetchFails(r) PROVE NewsInv'
<1>1. /\ News!Fetched(r) /\ reader[r].at # "idle"
      /\ UNCHANGED <<page, items, alerts, etag, labelled, queue, newsRestarts>>
    BY DEF News!FetchFails
<1>2. reader' \in [News!Readers -> ReaderRecords] /\ NoneBegins(reader, reader')
    BY <1>1, FetchedGoesOn
<1>3. PushedOnce(alerts, reader')
    BY <1>2, GoesOnSelf, PushedOnceKept DEF NewsInv
<1>. QED
    BY <1>1, <1>2, <1>3 DEF NewsInv, News!EtagTellsItems

(* What a fetch stores: items and alerts go on, and the etag is of them.   *)
LEMMA FetchStores ==
    ASSUME NewsInv, NEW r \in News!Readers, reader[r].got \in 0..MaxPage
    PROVE  LET db == IF reader[r].got = 0 THEN [items |-> items, alerts |-> alerts]
                     ELSE News!StorePage(reader[r].got)
               tag == IF reader[r].got = 0 THEN etag ELSE reader[r].got
           IN  /\ ItemsSound(db.items) /\ AlertsSound(db.alerts)
               /\ DOMAIN items \subseteq DOMAIN db.items /\ GoesOn(alerts, db.alerts)
               /\ tag \in 0..MaxPage
               /\ tag # 0 => \A text \in News!Listed(tag) : Stored(db.items, text)
<1>1. CASE reader[r].got = 0
    BY <1>1, GoesOnSelf DEF NewsInv, News!EtagTellsItems, Stored
<1>2. CASE reader[r].got # 0
    <2>. DEFINE v == reader[r].got
    <2>1. v \in 1..MaxPage
        BY <1>2, NewsBounds
    <2>. HIDE DEF v
    <2>2. DbSound(News!StorePage(v), items, alerts, v, v)
        BY <2>1, StorePageSound
    <2>3. \A text \in News!Listed(v) : Stored(News!StorePage(v).items, text)
        BY <2>1, <2>2, PageTexts DEF DbSound
    <2>4. v \in 0..MaxPage /\ v # 0
        BY <2>1
    <2>. QED
        BY <1>2, <2>2, <2>3, <2>4 DEF DbSound, v
<1>. QED
    BY <1>1, <1>2

(* fetch_source stores the page and its etag in one commit, or nothing     *)
(* when the etag matched: the etag tells what is stored.                   *)
LEMMA FetchSourceKeeps ==
    ASSUME NewsInv, NEW r \in News!Readers, News!FetchSource(r) PROVE NewsInv'
<1>. DEFINE db == IF reader[r].got = 0 THEN [items |-> items, alerts |-> alerts]
                  ELSE News!StorePage(reader[r].got)
            tag == IF reader[r].got = 0 THEN etag ELSE reader[r].got
<1>1. /\ reader[r].at # "idle" /\ News!Fetched(r)
      /\ items' = db.items /\ etag' = tag
      /\ alerts' = IF r \in Manual THEN News!Pushed(db.alerts, reader[r].alert, TRUE)
                   ELSE db.alerts
      /\ UNCHANGED <<page, labelled, queue, newsRestarts>>
    BY DEF News!FetchSource
<1>2. reader[r].got \in 0..MaxPage
    BY DEF NewsInv, ReaderRecords
<1>3. /\ ItemsSound(db.items) /\ AlertsSound(db.alerts)
      /\ DOMAIN items \subseteq DOMAIN db.items /\ GoesOn(alerts, db.alerts)
      /\ tag \in 0..MaxPage
      /\ tag # 0 => \A text \in News!Listed(tag) : Stored(db.items, text)
    BY <1>2, FetchStores
<1>. HIDE DEF db, tag
<1>4. /\ reader' \in [News!Readers -> ReaderRecords] /\ NoneBegins(reader, reader')
      /\ r \in Manual => reader'[r].at = "idle"
    BY <1>1, FetchedGoesOn
<1>5. AlertsSound(alerts')
    BY <1>1, <1>3, PushedSound
<1>6. QueueSound(queue', items')
    BY <1>1, <1>3 DEF NewsInv, QueueSound
<1>7. News!EtagTellsItems'
    BY <1>1, <1>3 DEF News!EtagTellsItems, Stored
<1>8. PushedOnce(alerts', reader')
    <2>1. PushedOnce(alerts, reader)
        BY DEF NewsInv
    <2>2. CASE r \notin Manual
        BY <1>1, <1>3, <1>4, <2>1, <2>2, PushedOnceKept
    <2>3. CASE r \in Manual
        <3>1. r \in News!Pushing
            BY <2>3 DEF News!Pushing
        <3>2. Ends(r, reader')
            BY <1>4, <2>3 DEF Ends
        <3>3. PushedOnce(News!Pushed(db.alerts, reader[r].alert, TRUE), reader')
            BY <1>1, <1>3, <2>1, <3>1, <3>2, PushedIsNew
        <3>. QED
            BY <1>1, <2>3, <3>3
    <2>. QED
        BY <2>2, <2>3
<1>. QED
    BY <1>1, <1>3, <1>4, <1>5, <1>6, <1>7, <1>8 DEF NewsInv

-----------------------------------------------------------------------------
(* The collection goes on: what it noted at its start stays.               *)
LEMMA CollectGoesOn ==
    ASSUME NewsInv, reader["collect"].at # "idle",
           NEW at \in {"waiting", "notifying"},
           reader' = [reader EXCEPT !["collect"].at = at]
    PROVE  reader' \in [News!Readers -> ReaderRecords] /\ NoneBegins(reader, reader')
<1>1. "collect" \in News!Readers /\ News!Pushing \subseteq News!Readers
    BY DEF News!Readers, News!Pushing
<1>2. reader["collect"] \in ReaderRecords /\ reader \in [News!Readers -> ReaderRecords]
    BY <1>1 DEF NewsInv
<1>. DEFINE new == [reader["collect"] EXCEPT !.at = at]
<1>3. new \in ReaderRecords /\ new.alert = reader["collect"].alert
    BY <1>2 DEF ReaderRecords
<1>4. reader' = [reader EXCEPT !["collect"] = new]
    BY <1>2
<1>. HIDE DEF new
<1>. QED
    BY <1>1, <1>2, <1>3, <1>4 DEF NoneBegins

(* classify_new_news queues the new items by place and text.               *)
LEMMA ClassifyNewNewsKeeps == ASSUME NewsInv, News!ClassifyNewNews PROVE NewsInv'
<1>1. /\ reader["collect"].at # "idle"
      /\ \E at \in {"waiting", "notifying"} : reader' = [reader EXCEPT !["collect"].at = at]
      /\ queue' = News!NewItems \/ queue' = <<>>
      /\ UNCHANGED <<page, items, alerts, etag, labelled, newsRestarts>>
    BY DEF News!ClassifyNewNews
<1>2. reader' \in [News!Readers -> ReaderRecords] /\ NoneBegins(reader, reader')
    BY <1>1, CollectGoesOn
<1>3. QueueSound(queue', items)
    <2>1. QueueSound(<<>>, items)
        BY DEF QueueSound
    <2>. QED
        BY <1>1, <2>1, NewItemsSound
<1>4. PushedOnce(alerts, reader')
    BY <1>2, GoesOnSelf, PushedOnceKept DEF NewsInv
<1>. QED
    BY <1>1, <1>2, <1>3, <1>4 DEF NewsInv, News!EtagTellsItems

(* The model fails on a batch: its items keep the keywords' labels.        *)
LEMMA LabelFailsKeeps == ASSUME NewsInv, News!LabelFails PROVE NewsInv'
<1>1. /\ reader["collect"].at # "idle"
      /\ reader' = [reader EXCEPT !["collect"].at = "notifying"]
      /\ queue' = <<>>
      /\ UNCHANGED <<page, items, alerts, etag, labelled, newsRestarts>>
    BY DEF News!LabelFails
<1>2. reader' \in [News!Readers -> ReaderRecords] /\ NoneBegins(reader, reader')
    BY <1>1, CollectGoesOn
<1>3. QueueSound(queue', items)
    BY <1>1 DEF QueueSound
<1>4. PushedOnce(alerts, reader')
    BY <1>2, GoesOnSelf, PushedOnceKept DEF NewsInv
<1>. QED
    BY <1>1, <1>2, <1>3, <1>4 DEF NewsInv, News!EtagTellsItems

(* What is left of the queue after a batch.                                *)
LEMMA NextBatchKeeps ==
    ASSUME NewsInv, reader["collect"].at # "idle", News!NextBatch
    PROVE  /\ reader' \in [News!Readers -> ReaderRecords] /\ NoneBegins(reader, reader')
           /\ QueueSound(queue', items)
<1>1. \E at \in {"waiting", "notifying"} : reader' = [reader EXCEPT !["collect"].at = at]
    BY DEF News!NextBatch
<1>2. queue \in Seq(Nat \X News!Texts)
    BY DEF NewsInv, QueueSound
<1>. DEFINE rest == SubSeq(queue, Len(News!Batch) + 1, Len(queue))
<1>3. /\ rest \in Seq(Nat \X News!Texts)
      /\ \A k \in DOMAIN rest : \E j \in DOMAIN queue : rest[k] = queue[j]
    BY <1>2, BatchSound
<1>4. queue' = rest
    BY DEF News!NextBatch
<1>. HIDE DEF rest
<1>5. QueueSound(queue', items)
    BY <1>3, <1>4 DEF NewsInv, QueueSound
<1>. QED
    BY <1>1, <1>5, CollectGoesOn

(* The model's labels for a batch are stored where the text is still the   *)
(* one it read.                                                            *)
LEMMA LabelBatchKeeps == ASSUME NewsInv, News!LabelBatch PROVE NewsInv'
<1>. DEFINE judged == {News!Batch[k][2] :
                k \in {j \in DOMAIN News!Batch : items[News!Batch[j][1]].text = News!Batch[j][2]}}
<1>1. /\ reader["collect"].at # "idle" /\ News!NextBatch
      /\ UNCHANGED <<page, etag, newsRestarts>>
    BY DEF News!LabelBatch
<1>2. PICK label \in [judged -> News!Labels] :
        /\ items' = [i \in DOMAIN items |->
               IF items[i].text \in judged
               THEN [items[i] EXCEPT !.label = label[items[i].text], !.judged = items[i].text]
               ELSE items[i]]
        /\ alerts' = News!Relabelled(label, judged)
        /\ labelled' = labelled \cup judged
    BY DEF News!LabelBatch
<1>3. judged \subseteq News!Texts
    <2>1. queue \in Seq(Nat \X News!Texts)
        BY DEF NewsInv, QueueSound
    <2>2. \A k \in DOMAIN News!Batch : k \in DOMAIN queue /\ News!Batch[k] = queue[k]
        BY <2>1, BatchSound
    <2>3. \A k \in DOMAIN queue : queue[k][2] \in News!Texts
        BY <2>1
    <2>. QED
        BY <2>2, <2>3
<1>. HIDE DEF judged
<1>4. AlertsSound(alerts') /\ GoesOn(alerts, alerts')
    BY <1>2, <1>3, RelabelledSound
<1>5. /\ items \in Seq(ItemRecords) /\ Len(items) \in Nat
      /\ DOMAIN items = 1..Len(items) /\ \A i \in DOMAIN items : items[i] \in ItemRecords
    BY DEF NewsInv, ItemsSound
<1>6. ASSUME NEW i \in DOMAIN items
      PROVE  /\ items'[i] \in ItemRecords /\ items'[i].text = items[i].text
             /\ items'[i].judged = items'[i].text
    BY <1>2, <1>5 DEF ItemRecords, NewsInv, ItemsSound
<1>7. DOMAIN items' = DOMAIN items /\ items' = [i \in DOMAIN items |-> items'[i]]
    BY <1>2
<1>8. items' \in Seq(ItemRecords)
    BY <1>5, <1>6, <1>7
<1>9. ItemsSound(items')
    BY <1>6, <1>7, <1>8 DEF NewsInv, ItemsSound
<1>10. News!EtagTellsItems'
    BY <1>1, <1>6, <1>7 DEF NewsInv, News!EtagTellsItems
<1>11. /\ reader' \in [News!Readers -> ReaderRecords] /\ NoneBegins(reader, reader')
       /\ QueueSound(queue', items')
    BY <1>1, <1>7, NextBatchKeeps DEF QueueSound
<1>12. PushedOnce(alerts', reader')
    BY <1>4, <1>11, PushedOnceKept DEF NewsInv
<1>13. labelled' \subseteq News!Texts
    BY <1>2, <1>3 DEF NewsInv
<1>. QED
    BY <1>1, <1>4, <1>9, <1>10, <1>11, <1>12, <1>13 DEF NewsInv

(* The collection pushes the alerts that are newer than its start.         *)
LEMMA SendNotificationsKeeps == ASSUME NewsInv, News!SendNotifications PROVE NewsInv'
<1>1. /\ reader["collect"].at # "idle"
      /\ alerts' = News!Pushed(alerts, reader["collect"].alert, FALSE)
      /\ reader' = [reader EXCEPT !["collect"] = News!Idle]
      /\ UNCHANGED <<page, items, etag, labelled, queue, newsRestarts>>
    BY DEF News!SendNotifications
<1>2. /\ reader' \in [News!Readers -> ReaderRecords]
      /\ Ends("collect", reader')
    BY <1>1, NewsBounds DEF NewsInv, News!Idle, News!Readers, News!Pushing, ReaderRecords,
                            Ends, NoneBegins
<1>3. AlertsSound(alerts')
    BY <1>1, PushedSound DEF NewsInv
<1>4. PushedOnce(alerts', reader')
    <2>1. PushedOnce(alerts, reader) /\ AlertsSound(alerts) /\ GoesOn(alerts, alerts)
        BY GoesOnSelf DEF NewsInv
    <2>2. "collect" \in News!Pushing
        BY DEF News!Pushing
    <2>3. PushedOnce(News!Pushed(alerts, reader["collect"].alert, FALSE), reader')
        BY <1>1, <1>2, <2>1, <2>2, PushedIsNew
    <2>. QED
        BY <1>1, <2>3
<1>. QED
    BY <1>1, <1>2, <1>3, <1>4 DEF NewsInv, News!EtagTellsItems

(* Every step of the news keeps their invariant.                           *)
LEMMA NewsKept == ASSUME NewsInv, [News!Next]_(News!vars) PROVE NewsInv'
<1>1. CASE News!PublishPage
    BY <1>1, PublishPageKeeps
<1>2. CASE News!Restart
    BY <1>2, NewsRestartKeeps
<1>3. ASSUME NEW r \in News!Readers, News!BeginFetch(r) PROVE NewsInv'
    BY <1>3, BeginFetchKeeps
<1>4. ASSUME NEW r \in News!Readers, News!Answer(r) PROVE NewsInv'
    BY <1>4, AnswerKeeps
<1>5. ASSUME NEW r \in News!Readers, News!FetchSource(r) PROVE NewsInv'
    BY <1>5, FetchSourceKeeps
<1>6. ASSUME NEW r \in News!Readers, News!FetchFails(r) PROVE NewsInv'
    BY <1>6, FetchFailsKeeps
<1>7. CASE News!ClassifyNewNews
    BY <1>7, ClassifyNewNewsKeeps
<1>8. CASE News!LabelBatch
    BY <1>8, LabelBatchKeeps
<1>9. CASE News!LabelFails
    BY <1>9, LabelFailsKeeps
<1>10. CASE News!SendNotifications
    BY <1>10, SendNotificationsKeeps
<1>11. CASE UNCHANGED News!vars
    BY <1>11 DEF News!vars, NewsInv, News!EtagTellsItems
<1>. QED
    BY <1>1, <1>2, <1>3, <1>4, <1>5, <1>6, <1>7, <1>8, <1>9, <1>10, <1>11 DEF News!Next

(* A step of the composition is a step of the news or leaves them alone.   *)
LEMMA NewsOnly ==
    ASSUME [Next]_vars PROVE [News!Next]_(News!vars)
BY DEF Next, vars, YahooStep, NewsStep, CacheStep, SleeperStep, AnalysisStep, SeasonStep,
       LineupStep, newsVars, News!vars

-----------------------------------------------------------------------------
(* Season plans.  Numbers of elements, by the names the instance has.      *)
LEMMA SeasonNumbers ==
    /\ \A S : Season!Cardinality(S) = Cardinality(S)
    /\ \A S : Season!IsFiniteSet(S) = IsFiniteSet(S)
BY DEF Season!Cardinality, Cardinality, Season!IsFiniteSet, IsFiniteSet

(* What is assumed of the season's sets and rules.                         *)
LEMMA SeasonBounds ==
    /\ Weeks \subseteq Nat /\ IsFiniteSet(Weeks)
    /\ IsFiniteSet(Games) /\ IsFiniteSet(Teams)
    /\ IsFiniteSet(Entries) /\ Entries = 1..Cardinality(Entries) /\ Cardinality(Entries) \in Nat
    /\ RuleChoices \subseteq Season!Rules
    /\ \A g \in Games, choice \in GameChoices : choice[g].week \in Nat
    /\ \A picks \in SavedChoices : picks \subseteq Season!SavedPicks /\ IsFiniteSet(picks)
<1>1. /\ Weeks \subseteq Nat /\ IsFiniteSet(Weeks)
      /\ IsFiniteSet(Games) /\ IsFiniteSet(Teams)
      /\ IsFiniteSet(Entries) /\ Entries = 1..Cardinality(Entries)
      /\ RuleChoices \subseteq Season!Rules
      /\ \A g \in Games, choice \in GameChoices : choice[g].week \in Nat
      /\ \A picks \in SavedChoices : picks \subseteq Season!SavedPicks /\ IsFiniteSet(picks)
    BY SeasonAssumption, SeasonNumbers DEF Season!PoolAdviceAssumption
<1>. QED
    BY <1>1, FS_CardinalityType

(* The plan of an entry is one a save would accept the picks of.           *)
SeasonInv ==
    /\ Season!TypeOK
    /\ plans \in Seq(SUBSET (Teams \X Games))
    /\ plan # {} => Season!Entry \in Entries /\ rules.type = "survivor" /\ Season!Plannable
    /\ plan \subseteq Season!Candidates
    /\ plan # {} => Season!Feasible(plan)

-----------------------------------------------------------------------------
(* The edges with capacity left, by where they lead.                       *)
Team(t) == <<"team", t>>
Match(g) == <<"game", g>>
Week(w) == <<"week", w>>

EdgeSound(e) ==
    \/ \E t \in Teams : /\ e.from = Season!Source /\ e.to = Team(t)
                        /\ Cardinality(Season!OfTeam(t)) < Season!Capacity(t)
    \/ \E c \in Season!Candidates \ plan : e.from = Team(c[1]) /\ e.to = Match(c[2])
    \/ \E c \in Season!Candidates : /\ Season!OfGame(c[2]) = {}
                                    /\ e.from = Match(c[2]) /\ e.to = Week(games[c[2]].week)
    \/ \E w \in Weeks : /\ e.from = Week(w) /\ e.to = Season!Sink
                        /\ Cardinality(Season!OfWeek(w)) < Season!Need(w)
    \/ \E c \in plan : e.from = Match(c[2]) /\ e.to = Team(c[1])
    \/ \E c \in plan : e.from = Week(games[c[2]].week) /\ e.to = Match(c[2])

(* Every residual edge of _allocate leads between its two kinds of nodes,  *)
(* and has capacity left.                                                  *)
LEMMA ResidualSound == \A e \in Season!Residual : EdgeSound(e)
<1>. SUFFICES ASSUME NEW e \in Season!Residual PROVE EdgeSound(e)
    OBVIOUS
<1>1. \A from, to, cost : /\ Season!Edge(from, to, cost).from = from
                          /\ Season!Edge(from, to, cost).to = to
    BY DEF Season!Edge
<1>2. CASE \E t \in {t \in Teams : Season!Cardinality(Season!OfTeam(t)) < Season!Capacity(t)} :
               e = Season!Edge(Season!Source, <<"team", t>>, 0)
    BY <1>1, <1>2, SeasonNumbers DEF EdgeSound, Team
<1>3. CASE \E c \in Season!Candidates \ plan :
               e = Season!Edge(<<"team", c[1]>>, <<"game", c[2]>>, Season!Cost(c))
    BY <1>1, <1>3 DEF EdgeSound, Team, Match
<1>4. CASE \E g \in {c[2] : c \in {c \in Season!Candidates : Season!OfGame(c[2]) = {}}} :
               e = Season!Edge(<<"game", g>>, <<"week", games[g].week>>, 0)
    BY <1>1, <1>4 DEF EdgeSound, Match, Week
<1>5. CASE \E w \in {w \in Weeks : Season!Cardinality(Season!OfWeek(w)) < Season!Need(w)} :
               e = Season!Edge(<<"week", w>>, Season!Sink, 0)
    BY <1>1, <1>5, SeasonNumbers DEF EdgeSound, Week
<1>6. CASE \E c \in plan :
               e = Season!Edge(<<"game", c[2]>>, <<"team", c[1]>>, -Season!Cost(c))
    BY <1>1, <1>6 DEF EdgeSound, Team, Match
<1>7. CASE \E c \in plan :
               e = Season!Edge(<<"week", games[c[2]].week>>, <<"game", c[2]>>, 0)
    BY <1>1, <1>7 DEF EdgeSound, Match, Week
<1>. QED
    BY <1>2, <1>3, <1>4, <1>5, <1>6, <1>7, Zenon
       DEF Season!Residual, Season!Forward, Season!Backward

(* The kinds of nodes are told apart.                                      *)
LEMMA Nodes ==
    /\ \A x, y : Team(x) # Match(y) /\ Team(x) # Week(y) /\ Match(x) # Week(y)
    /\ \A x : /\ Team(x) \notin {Season!Source, Season!Sink}
              /\ Match(x) \notin {Season!Source, Season!Sink}
              /\ Week(x) \notin {Season!Source, Season!Sink}
    /\ Season!Source # Season!Sink
    /\ \A x, y : /\ Team(x) = Team(y) => x = y
                 /\ Match(x) = Match(y) => x = y
                 /\ Week(x) = Week(y) => x = y
BY DEF Team, Match, Week, Season!Source, Season!Sink

-----------------------------------------------------------------------------
(* A path goes from its node to the sink and passes no node twice.         *)
PathSound(at, steps) ==
    /\ \A e \in steps : EdgeSound(e)
    /\ \A e, f \in steps : (e.to = f.to \/ e.from = f.from) => e = f
    /\ \A e \in steps : e.to = Season!Sink \/ \E f \in steps : f.from = e.to
    /\ \A e \in steps : e.from = at \/ \E f \in steps : f.to = e.from
    /\ \A e \in steps : e.to # at
    /\ at = Season!Sink \/ \E e \in steps : e.from = at

(* No edge leads back to its own node.                                     *)
LEMMA NoLoops == ASSUME NEW e, EdgeSound(e) PROVE e.from # e.to
BY Nodes DEF EdgeSound

(* An edge to the start of a path, from a node the path does not enter,    *)
(* makes a path.                                                           *)
LEMMA LongerPath ==
    ASSUME NEW at, NEW steps, PathSound(at, steps),
           NEW e, EdgeSound(e), e.to = at, \A f \in steps : e.from # f.to
    PROVE  PathSound(e.from, {e} \cup steps)
<1>. DEFINE longer == {e} \cup steps
<1>1. e.from # e.to
    BY NoLoops
<1>2. \A f \in longer : EdgeSound(f)
    BY DEF PathSound
<1>3. ASSUME NEW f \in longer, NEW h \in longer, f.to = h.to \/ f.from = h.from PROVE f = h
    <2>1. ASSUME NEW x \in steps PROVE x.to # e.to /\ x.from # e.from
        BY <1>1 DEF PathSound
    <2>. QED
        BY <1>3, <2>1 DEF PathSound
<1>4. \A f \in longer : f.to = Season!Sink \/ \E h \in longer : h.from = f.to
    BY DEF PathSound
<1>5. \A f \in longer : f.from = e.from \/ \E h \in longer : h.to = f.from
    BY DEF PathSound
<1>6. \A f \in longer : f.to # e.from
    BY <1>1
<1>. QED
    BY <1>2, <1>3, <1>4, <1>5, <1>6 DEF PathSound

(* The recursion that collects the paths has a function, and what it       *)
(* collects are paths.                                                     *)
LEMMA PathsSound ==
    ASSUME NEW path \in Season!Paths
    PROVE  path.at = Season!Source /\ PathSound(Season!Source, path.steps)
<1>. DEFINE edges == Season!Residual
            Before(p) ==
                IF p.at = Season!Source THEN {p}
                ELSE {[at |-> e.from, cost |-> e.cost + p.cost, steps |-> {e} \cup p.steps] :
                         e \in {e \in edges : /\ e.to = p.at
                                              /\ \A f \in p.steps : e.from # f.to}}
            longest == 2 + Season!Cardinality(Teams) + Season!Cardinality(Games)
                         + Season!Cardinality(Weeks)
            base == {[at |-> Season!Sink, cost |-> 0, steps |-> {}]}
            Longer(all) == UNION {Before(p) : p \in all}
            Collects(f, n) == f = [i \in 0..n |-> IF i = 0 THEN base ELSE Longer(f[i - 1])]
            collected == CHOOSE f : Collects(f, longest)
<1>1. Season!Paths = {p \in collected[longest] : p.at = Season!Source}
    BY Zenon DEF Season!Paths
<1>2. longest \in Nat
    BY SeasonBounds, SeasonNumbers, FS_CardinalityType
<1>3. \A p \in base : PathSound(p.at, p.steps)
    BY DEF PathSound
<1>4. ASSUME NEW p, PathSound(p.at, p.steps), NEW q \in Before(p)
      PROVE  PathSound(q.at, q.steps)
    <2>1. CASE p.at = Season!Source
        BY <1>4, <2>1
    <2>2. CASE p.at # Season!Source
        <3>1. PICK e \in edges : /\ e.to = p.at /\ \A f \in p.steps : e.from # f.to
                                 /\ q = [at |-> e.from, cost |-> e.cost + p.cost,
                                         steps |-> {e} \cup p.steps]
            BY <1>4, <2>2
        <3>2. EdgeSound(e) /\ q.at = e.from /\ q.steps = {e} \cup p.steps
            BY <3>1, ResidualSound
        <3>3. PathSound(e.from, {e} \cup p.steps)
            BY <1>4, <3>1, <3>2, LongerPath
        <3>. QED
            BY <3>2, <3>3
    <2>. QED
        BY <2>1, <2>2
<1>5. ASSUME NEW all, \A p \in all : PathSound(p.at, p.steps), NEW q \in Longer(all)
      PROVE  PathSound(q.at, q.steps)
    <2>. HIDE DEF Before
    <2>1. PICK p \in all : q \in Before(p)
        BY <1>5
    <2>. QED
        BY <1>4, <1>5, <2>1
<1>. HIDE DEF Longer, base, longest
<1>6. \E f : Collects(f, longest)
    <2>. DEFINE T == {n \in 0..longest : \E f : Collects(f, n)}
    <2>1. 0 \in T
        <3>. DEFINE f == [i \in 0..0 |-> base]
        <3>1. 0..0 = {0} /\ \A i \in 0..0 : i = 0
            OBVIOUS
        <3>2. Collects(f, 0)
            BY <3>1
        <3>. HIDE DEF Collects
        <3>. QED
            BY <1>2, <3>2
    <2>2. ASSUME NEW n \in 0..(longest - 1), n \in T PROVE n + 1 \in T
        <3>1. PICK f : Collects(f, n)
            BY <2>2
        <3>. DEFINE g == [i \in 0..(n + 1) |-> IF i <= n THEN f[i] ELSE Longer(f[n])]
        <3>2. ASSUME NEW i \in 0..(n + 1)
              PROVE  g[i] = IF i = 0 THEN base ELSE Longer(g[i - 1])
            <4>1. CASE i = 0
                <5>1. 0 \in 0..n /\ 0 <= n
                    BY <1>2
                <5>. QED
                    BY <3>1, <4>1, <5>1
            <4>2. CASE i \in 1..n
                <5>1. i \in 0..n /\ i - 1 \in 0..(n + 1) /\ i <= n /\ i - 1 <= n /\ i # 0
                    BY <4>2
                <5>2. g[i] = f[i] /\ g[i - 1] = f[i - 1]
                    BY <5>1
                <5>3. f[i] = Longer(f[i - 1])
                    BY <3>1, <5>1
                <5>. HIDE DEF g
                <5>. QED
                    BY <5>1, <5>2, <5>3
            <4>3. CASE i = n + 1
                <5>1. n + 1 \in 0..(n + 1) /\ n \in 0..(n + 1) /\ (n + 1) - 1 = n /\ n + 1 # 0
                      /\ ~(n + 1 <= n) /\ n <= n
                    OBVIOUS
                <5>2. g[n + 1] = Longer(f[n]) /\ g[n] = f[n]
                    BY <5>1
                <5>. HIDE DEF g
                <5>. QED
                    BY <4>3, <5>1, <5>2
            <4>. QED
                BY <4>1, <4>2, <4>3
        <3>3. [i \in 0..(n + 1) |-> g[i]]
                  = [i \in 0..(n + 1) |-> IF i = 0 THEN base ELSE Longer(g[i - 1])]
            <4>. HIDE DEF g
            <4>. QED
                BY <3>2
        <3>4. g = [i \in 0..(n + 1) |-> g[i]]
            BY Zenon
        <3>. HIDE DEF g
        <3>5. Collects(g, n + 1)
            BY <3>3, <3>4, Zenon
        <3>. HIDE DEF Collects
        <3>. QED
            BY <1>2, <3>5
    <2>. HIDE DEF T
    <2>3. 0..longest \subseteq T
        BY <1>2, <2>1, <2>2, CountUpTo
    <2>4. longest \in T
        BY <1>2, <2>3
    <2>. QED
        BY <2>4 DEF T
<1>7. Collects(collected, longest)
    <2>. HIDE DEF Collects
    <2>. QED
        BY <1>6
<1>. HIDE DEF collected
<1>8. \A p \in collected[longest] : PathSound(p.at, p.steps)
    <2>. DEFINE U == {n \in 0..longest : \A p \in collected[n] : PathSound(p.at, p.steps)}
    <2>1. \A i \in 0..longest : collected[i] = IF i = 0 THEN base ELSE Longer(collected[i - 1])
        BY <1>7, Zenon
    <2>2. 0 \in U
        BY <1>2, <1>3, <2>1
    <2>3. ASSUME NEW n \in 0..(longest - 1), n \in U PROVE n + 1 \in U
        <3>1. n + 1 \in 0..longest /\ n + 1 # 0 /\ (n + 1) - 1 = n
            BY <1>2
        <3>2. collected[n + 1] = Longer(collected[n])
            BY <2>1, <3>1
        <3>. QED
            BY <1>5, <2>3, <3>1, <3>2
    <2>. HIDE DEF U
    <2>4. 0..longest \subseteq U
        BY <1>2, <2>2, <2>3, CountUpTo
    <2>5. longest \in U
        BY <1>2, <2>4
    <2>. QED
        BY <2>5 DEF U
<1>. QED
    BY <1>1, <1>8

-----------------------------------------------------------------------------
(* What a path through the plan's games, weeks and teams does there.       *)
LEMMA IntoMatch ==
    ASSUME plan \subseteq Teams \X Games, NEW e, EdgeSound(e), NEW g, e.to = Match(g)
    PROVE  \/ \E t \in Teams : e.from = Team(t) /\ <<t, g>> \in Season!Candidates \ plan
           \/ e.from = Week(games[g].week) /\ \E c \in plan : c[2] = g
<1>1. \A c \in Season!Candidates : c = <<c[1], c[2]>> /\ c[1] \in Teams
    BY DEF Season!Candidates
<1>. QED
    BY <1>1, Nodes DEF EdgeSound

(* A path leaves a game for its week, if no team is planned in it, or      *)
(* back to a team that is.                                                 *)
LEMMA OutOfMatch ==
    ASSUME plan \subseteq Teams \X Games, NEW e, EdgeSound(e), NEW g, e.from = Match(g)
    PROVE  \/ e.to = Week(games[g].week) /\ Season!OfGame(g) = {}
           \/ \E t \in Teams : e.to = Team(t) /\ <<t, g>> \in plan
<1>1. \A c \in plan : c = <<c[1], c[2]>> /\ c[1] \in Teams
    OBVIOUS
<1>. QED
    BY <1>1, Nodes DEF EdgeSound

(* A path comes into a week from a game of that week.                      *)
LEMMA IntoWeek ==
    ASSUME NEW e, EdgeSound(e), NEW w, e.to = Week(w)
    PROVE  \E g \in Games : e.from = Match(g) /\ games[g].week = w
BY Nodes DEF EdgeSound, Season!Candidates

(* A path leaves a week for the sink, while it needs a pick, or back to a  *)
(* planned game.                                                           *)
LEMMA OutOfWeek ==
    ASSUME NEW e, EdgeSound(e), NEW w, e.from = Week(w)
    PROVE  \/ e.to = Season!Sink /\ Cardinality(Season!OfWeek(w)) < Season!Need(w)
           \/ \E c \in plan : e.to = Match(c[2]) /\ games[c[2]].week = w
BY Nodes DEF EdgeSound

(* A path comes to a team from the source, while it has a use left, or     *)
(* from a game it is planned in.                                           *)
LEMMA IntoTeam ==
    ASSUME plan \subseteq Teams \X Games, NEW e, EdgeSound(e), NEW t, e.to = Team(t)
    PROVE  \/ Cardinality(Season!OfTeam(t)) < Season!Capacity(t)
           \/ \E g \in Games : e.from = Match(g) /\ <<t, g>> \in plan
<1>1. \A c \in plan : c = <<c[1], c[2]>> /\ c[2] \in Games
    OBVIOUS
<1>. QED
    BY <1>1, Nodes DEF EdgeSound

-----------------------------------------------------------------------------
(* The plan after one unit of flow more.                                   *)
Moved(steps) == {<<e.from, e.to>> : e \in steps}

After(steps) ==
    (plan \ {c \in plan : <<Match(c[2]), Team(c[1])>> \in Moved(steps)})
    \cup {c \in Season!Candidates : <<Team(c[1]), Match(c[2])>> \in Moved(steps)}

(* What is in it was kept or comes from a step into its game.              *)
LEMMA AfterHas ==
    ASSUME NEW steps, NEW c \in After(steps)
    PROVE  \/ c \in plan /\ ~\E e \in steps : e.from = Match(c[2]) /\ e.to = Team(c[1])
           \/ /\ c \in Season!Candidates
              /\ \E e \in steps : e.from = Team(c[1]) /\ e.to = Match(c[2])
BY DEF After, Moved

(* Flow that enters a game, week or team of the path also leaves it, and   *)
(* the other way round.                                                    *)
LEMMA FlowGoesOn ==
    ASSUME NEW steps, PathSound(Season!Source, steps), NEW e \in steps
    PROVE  /\ e.to # Season!Sink => \E f \in steps : f.from = e.to
           /\ e.from # Season!Source => \E f \in steps : f.to = e.from
BY DEF PathSound

(* A game that keeps its pick is not entered, ...                          *)
LEMMA KeptNotEntered ==
    ASSUME plan \subseteq Teams \X Games, Season!Feasible(plan),
           NEW steps, PathSound(Season!Source, steps), NEW c \in plan,
           ~\E e \in steps : e.from = Match(c[2]) /\ e.to = Team(c[1])
    PROVE  ~\E e \in steps : e.to = Match(c[2])
<1>. SUFFICES ASSUME NEW e \in steps, e.to = Match(c[2]) PROVE FALSE
    OBVIOUS
<1>1. PICK f \in steps : f.from = Match(c[2])
    BY FlowGoesOn, Nodes
<1>2. EdgeSound(f)
    BY DEF PathSound
<1>3. CASE Season!OfGame(c[2]) = {}
    BY <1>3 DEF Season!OfGame
<1>4. CASE \E t \in Teams : f.to = Team(t) /\ <<t, c[2]>> \in plan
    <2>1. PICK t \in Teams : f.to = Team(t) /\ <<t, c[2]>> \in plan
        BY <1>4
    <2>2. <<t, c[2]>> = c
        BY <2>1 DEF Season!Feasible
    <2>. QED
        BY <1>1, <2>1, <2>2
<1>. QED
    BY <1>1, <1>2, <1>3, <1>4, OutOfMatch

(* ... so that a game has one pick after it.                               *)
LEMMA AfterOfGame ==
    ASSUME plan \subseteq Teams \X Games, Season!Feasible(plan),
           NEW steps, PathSound(Season!Source, steps),
           NEW c \in After(steps), NEW d \in After(steps), c[2] = d[2]
    PROVE  c = d
<1>1. CASE c \in plan /\ d \in plan
    BY <1>1 DEF Season!Feasible
<1>2. ASSUME NEW x \in After(steps), NEW y \in After(steps), x[2] = y[2], x \in plan, y \notin plan
      PROVE  FALSE
    <2>1. PICK e \in steps : e.to = Match(y[2])
        BY <1>2, AfterHas
    <2>2. \/ ~\E f \in steps : f.from = Match(x[2]) /\ f.to = Team(x[1])
          \/ \E f \in steps : f.from = Team(x[1]) /\ f.to = Match(x[2])
        BY <1>2, AfterHas
    <2>3. ASSUME NEW f \in steps, f.from = Team(x[1]), f.to = Match(x[2]) PROVE FALSE
        <3>1. EdgeSound(f)
            BY DEF PathSound
        <3>2. \E t \in Teams : f.from = Team(t) /\ <<t, x[2]>> \notin plan
            BY <2>3, <3>1, IntoMatch, Nodes
        <3>3. x = <<x[1], x[2]>>
            BY <1>2
        <3>. QED
            BY <1>2, <2>3, <3>2, <3>3, Nodes
    <2>. QED
        BY <1>2, <2>1, <2>2, <2>3, KeptNotEntered
<1>3. CASE c \notin plan /\ d \notin plan
    <2>1. PICK e \in steps : e.from = Team(c[1]) /\ e.to = Match(c[2])
        BY <1>3, AfterHas
    <2>2. PICK f \in steps : f.from = Team(d[1]) /\ f.to = Match(d[2])
        BY <1>3, AfterHas
    <2>3. e = f
        BY <2>1, <2>2 DEF PathSound
    <2>4. c[1] = d[1] /\ c \in Teams \X Games /\ d \in Teams \X Games
        BY <1>3, <2>1, <2>2, <2>3, AfterHas, Nodes DEF Season!Candidates
    <2>. QED
        BY <2>4
<1>. QED
    BY <1>1, <1>2, <1>3

-----------------------------------------------------------------------------
(* What a function makes of a finite set is no more than the set, and as   *)
(* much where it tells the elements apart.                                 *)
LEMMA ImageBound ==
    ASSUME NEW S, IsFiniteSet(S), NEW f, DOMAIN f = S
    PROVE  /\ IsFiniteSet({f[x] : x \in S}) /\ Cardinality({f[x] : x \in S}) <= Cardinality(S)
           /\ (\A x, y \in S : f[x] = f[y] => x = y) =>
                Cardinality(S) <= Cardinality({f[x] : x \in S})
<1>. DEFINE T == {f[x] : x \in S}
            g == [x \in S |-> f[x]]
<1>1. g \in Surjection(S, T)
    BY DEF Surjection
<1>2. IsFiniteSet(T) /\ Cardinality(T) <= Cardinality(S)
    BY <1>1, FS_Surjection
<1>3. ASSUME \A x, y \in S : f[x] = f[y] => x = y PROVE Cardinality(S) <= Cardinality(T)
    <2>1. g \in [S -> T] /\ \A x, y \in S : g[x] = g[y] => x = y
        BY <1>3
    <2>2. g \in Injection(S, T)
        BY <2>1 DEF Injection, IsInjective
    <2>. QED
        BY <1>2, <2>2, FS_Injection
<1>. QED
    BY <1>2, <1>3

(* One element for another, or one more.                                   *)
LEMMA OneForAnother ==
    ASSUME NEW S, IsFiniteSet(S), NEW x, NEW y \in S
    PROVE  /\ IsFiniteSet((S \ {y}) \cup {x})
           /\ Cardinality((S \ {y}) \cup {x}) <= Cardinality(S)
<1>1. IsFiniteSet(S \ {y}) /\ Cardinality(S \ {y}) = Cardinality(S) - 1
    BY FS_RemoveElement
<1>2. /\ IsFiniteSet((S \ {y}) \cup {x})
      /\ Cardinality((S \ {y}) \cup {x}) \in {Cardinality(S \ {y}), Cardinality(S \ {y}) + 1}
    BY <1>1, FS_AddElement
<1>3. Cardinality(S) \in Nat
    BY FS_CardinalityType
<1>. QED
    BY <1>1, <1>2, <1>3

(* One element more than fewer than n is not more than n.                  *)
LEMMA OneMore ==
    ASSUME NEW S, IsFiniteSet(S), NEW x, NEW n \in Int, Cardinality(S) < n
    PROVE  IsFiniteSet(S \cup {x}) /\ Cardinality(S \cup {x}) <= n
<1>1. Cardinality(S) \in Nat
    BY FS_CardinalityType
<1>2. IsFiniteSet(S \cup {x}) /\ Cardinality(S \cup {x}) \in {Cardinality(S), Cardinality(S) + 1}
    BY FS_AddElement
<1>. QED
    BY <1>1, <1>2

(* The picks of a week are as many as its games that have one.             *)
InWeekOf(set, w) == {c \in set : games[c[2]].week = w}

GamesIn(set, w) == {c[2] : c \in InWeekOf(set, w)}

(* A set of teams with their games is finite.                              *)
LEMMA ChoicesFinite ==
    ASSUME NEW set, set \subseteq Teams \X Games PROVE IsFiniteSet(set)
<1>1. IsFiniteSet(Teams \X Games)
    BY SeasonBounds, FS_Product
<1>. QED
    BY <1>1, FS_Subset

(* A set with one team a game has as many elements in a week as games.     *)
LEMMA GamesCount ==
    ASSUME NEW set, set \subseteq Teams \X Games, \A c, d \in set : c[2] = d[2] => c = d, NEW w
    PROVE  /\ IsFiniteSet(GamesIn(set, w)) /\ IsFiniteSet(InWeekOf(set, w))
           /\ Cardinality(InWeekOf(set, w)) = Cardinality(GamesIn(set, w))
<1>. DEFINE S == InWeekOf(set, w)
            f == [c \in S |-> c[2]]
<1>1. S \subseteq set /\ IsFiniteSet(S)
    BY ChoicesFinite DEF InWeekOf
<1>. HIDE DEF S
<1>2. DOMAIN f = S /\ \A c, d \in S : f[c] = f[d] => c = d
    BY <1>1
<1>3. {f[c] : c \in S} = GamesIn(set, w)
    BY DEF GamesIn, S
<1>. HIDE DEF f
<1>4. /\ IsFiniteSet(GamesIn(set, w))
      /\ Cardinality(GamesIn(set, w)) <= Cardinality(S)
      /\ Cardinality(S) <= Cardinality(GamesIn(set, w))
    BY <1>1, <1>2, <1>3, ImageBound
<1>5. Cardinality(S) \in Nat /\ Cardinality(GamesIn(set, w)) \in Nat
    BY <1>1, <1>4, FS_CardinalityType
<1>. QED
    BY <1>1, <1>4, <1>5 DEF S

(* A feasible plan has no more picks in a week than the week needs.        *)
LEMMA NeedBounds ==
    ASSUME NEW w, Season!Need(w) \in Nat, Season!Feasible(plan), w \in Weeks
    PROVE  Cardinality(Season!OfWeek(w)) <= Season!Need(w)
BY SeasonNumbers DEF Season!Feasible, Season!OfWeek

(* A week has no more picks after it than are needed.                      *)
LEMMA AfterOfWeek ==
    ASSUME plan \subseteq Teams \X Games, Season!Feasible(plan),
           NEW steps, PathSound(Season!Source, steps), After(steps) \subseteq Teams \X Games,
           NEW w \in Weeks, Season!Need(w) \in Nat
    PROVE  Cardinality(InWeekOf(After(steps), w)) <= Season!Need(w)
<1>. DEFINE new == After(steps)
            before == GamesIn(plan, w)
            after == GamesIn(new, w)
<1>1. \A c, d \in new : c[2] = d[2] => c = d
    BY AfterOfGame
<1>2. \A c, d \in plan : c[2] = d[2] => c = d
    BY DEF Season!Feasible
<1>3. /\ IsFiniteSet(after) /\ Cardinality(InWeekOf(new, w)) = Cardinality(after)
      /\ IsFiniteSet(before) /\ Cardinality(InWeekOf(plan, w)) = Cardinality(before)
    BY <1>1, <1>2, GamesCount
<1>4. Cardinality(before) = Cardinality(Season!OfWeek(w))
    BY <1>3 DEF InWeekOf, Season!OfWeek
<1>5. Cardinality(before) <= Season!Need(w) /\ Cardinality(before) \in Nat
      /\ Cardinality(after) \in Nat
    BY <1>3, <1>4, NeedBounds, FS_CardinalityType
(* A game that is new there passes the flow on to its week.                *)
<1>6. ASSUME NEW g \in after, g \notin before
      PROVE  \E e \in steps : e.from = Match(g) /\ e.to = Week(w)
    <2>1. PICK c \in new : c[2] = g /\ games[g].week = w
        BY <1>6 DEF GamesIn, InWeekOf
    <2>2. \A d \in plan : d[2] # g
        BY <1>6, <2>1 DEF GamesIn, InWeekOf
    <2>3. PICK e \in steps : e.to = Match(g)
        BY <2>1, <2>2, AfterHas
    <2>4. PICK f \in steps : f.from = Match(g)
        BY <2>3, FlowGoesOn, Nodes
    <2>5. EdgeSound(f)
        BY DEF PathSound
    <2>6. f.to = Week(games[g].week)
        <3>1. \A t : <<t, g>> \notin plan
            BY <2>2
        <3>. HIDE DEF new, before, after
        <3>. QED
            BY <2>4, <2>5, <3>1, OutOfMatch
    <2>. QED
        BY <2>1, <2>4, <2>6
<1>. HIDE DEF new, before, after
<1>7. CASE after \subseteq before
    <2>1. Cardinality(after) <= Cardinality(before)
        BY <1>3, <1>7, FS_Subset
    <2>. QED
        BY <1>3, <1>5, <2>1 DEF new
<1>8. CASE ~(after \subseteq before)
    <2>1. PICK g \in after : g \notin before
        BY <1>8
    <2>2. PICK e \in steps : e.from = Match(g) /\ e.to = Week(w)
        BY <1>6, <2>1
    <2>3. after \subseteq before \cup {g}
        <3>1. ASSUME NEW h \in after, h \notin before PROVE h = g
            <4>1. PICK f \in steps : f.from = Match(h) /\ f.to = Week(w)
                BY <1>6, <3>1
            <4>2. e = f
                BY <2>2, <4>1 DEF PathSound
            <4>. QED
                BY <2>2, <4>1, <4>2, Nodes
        <3>. QED
            BY <3>1
    <2>4. PICK f \in steps : f.from = Week(w)
        BY <2>2, FlowGoesOn, Nodes
    <2>5. EdgeSound(f)
        BY DEF PathSound
    <2>6. CASE Cardinality(Season!OfWeek(w)) < Season!Need(w)
        <3>1. /\ IsFiniteSet(before \cup {g})
              /\ Cardinality(before \cup {g}) <= Season!Need(w)
            <4>1. Cardinality(before) < Season!Need(w) /\ Season!Need(w) \in Int
                BY <1>4, <2>6
            <4>. QED
                BY <1>3, <4>1, OneMore
        <3>2. Cardinality(after) <= Cardinality(before \cup {g})
            BY <2>3, <3>1, FS_Subset
        <3>3. Cardinality(before \cup {g}) \in Nat
            BY <3>1, FS_CardinalityType
        <3>. QED
            BY <1>3, <1>5, <3>1, <3>2, <3>3 DEF new
    <2>7. CASE \E c \in plan : f.to = Match(c[2]) /\ games[c[2]].week = w
        <3>1. PICK c \in plan : f.to = Match(c[2]) /\ games[c[2]].week = w
            BY <2>7
        <3>. DEFINE h == c[2]
        <3>2. h \in before
            BY <3>1 DEF before, GamesIn, InWeekOf
        <3>3. h \notin after
            <4>. SUFFICES ASSUME h \in after PROVE FALSE
                OBVIOUS
            <4>1. PICK d \in After(steps) : d[2] = h
                BY DEF after, GamesIn, InWeekOf, new
            <4>2. CASE d \in plan /\ ~\E x \in steps : x.from = Match(d[2]) /\ x.to = Team(d[1])
                BY <3>1, <4>1, <4>2, KeptNotEntered
            <4>3. CASE \E x \in steps : x.from = Team(d[1]) /\ x.to = Match(d[2])
                <5>1. PICK x \in steps : x.from = Team(d[1]) /\ x.to = Match(h)
                    BY <4>1, <4>3
                <5>2. x = f
                    BY <3>1, <5>1 DEF PathSound
                <5>. QED
                    BY <2>4, <5>1, <5>2, Nodes
            <4>. QED
                BY <4>1, <4>2, <4>3, AfterHas
        <3>. HIDE DEF h
        <3>4. after \subseteq (before \ {h}) \cup {g}
            BY <2>3, <3>3
        <3>5. /\ IsFiniteSet((before \ {h}) \cup {g})
              /\ Cardinality((before \ {h}) \cup {g}) <= Cardinality(before)
            BY <1>3, <3>2, OneForAnother
        <3>6. Cardinality(after) <= Cardinality((before \ {h}) \cup {g})
            BY <3>4, <3>5, FS_Subset
        <3>7. Cardinality((before \ {h}) \cup {g}) \in Nat
            BY <3>5, FS_CardinalityType
        <3>. QED
            BY <1>3, <1>5, <3>5, <3>6, <3>7 DEF new
    <2>. QED
        BY <2>4, <2>5, <2>6, <2>7, OutOfWeek
<1>. QED
    BY <1>7, <1>8

(* A team is not used more often after it than it may be.                  *)
LEMMA AfterOfTeam ==
    ASSUME plan \subseteq Teams \X Games, Season!Feasible(plan),
           NEW steps, PathSound(Season!Source, steps), After(steps) \subseteq Teams \X Games,
           NEW t \in Teams, NEW n \in Int, Season!Capacity(t) = n,
           Cardinality(Season!OfTeam(t)) <= n
    PROVE  Cardinality({c \in After(steps) : c[1] = t}) <= n
<1>. DEFINE before == Season!OfTeam(t)
            after == {c \in After(steps) : c[1] = t}
<1>1. before \subseteq plan /\ before \subseteq Teams \X Games /\ after \subseteq Teams \X Games
    BY DEF Season!OfTeam
<1>2. /\ IsFiniteSet(before) /\ Cardinality(before) \in Nat
      /\ IsFiniteSet(after) /\ Cardinality(after) \in Nat
    BY <1>1, ChoicesFinite, FS_CardinalityType
<1>3. ASSUME NEW c \in after, c \notin before
      PROVE  \E e \in steps : e.from = Team(t) /\ e.to = Match(c[2])
    BY <1>3, AfterHas DEF Season!OfTeam
<1>4. \A c \in after : c = <<t, c[2]>>
    BY <1>1
<1>5. CASE after \subseteq before
    <2>1. Cardinality(after) <= Cardinality(before)
        BY <1>2, <1>5, FS_Subset
    <2>. QED
        BY <1>2, <2>1
<1>6. CASE ~(after \subseteq before)
    <2>1. PICK c \in after : c \notin before
        BY <1>6
    <2>2. PICK e \in steps : e.from = Team(t) /\ e.to = Match(c[2])
        BY <1>3, <2>1
    <2>3. after \subseteq before \cup {c}
        <3>1. ASSUME NEW d \in after, d \notin before PROVE d = c
            <4>1. PICK f \in steps : f.from = Team(t) /\ f.to = Match(d[2])
                BY <1>3, <3>1
            <4>2. e = f
                BY <2>2, <4>1 DEF PathSound
            <4>3. c[2] = d[2]
                BY <2>2, <4>1, <4>2, Nodes
            <4>. QED
                BY <1>4, <4>3
        <3>. QED
            BY <3>1
    <2>4. PICK f \in steps : f.to = Team(t)
        BY <2>2, FlowGoesOn, Nodes
    <2>5. EdgeSound(f)
        BY DEF PathSound
    <2>6. CASE Cardinality(before) < n
        <3>1. IsFiniteSet(before \cup {c}) /\ Cardinality(before \cup {c}) <= n
            BY <1>2, <2>6, OneMore
        <3>2. Cardinality(after) <= Cardinality(before \cup {c})
            BY <2>3, <3>1, FS_Subset
        <3>3. Cardinality(before \cup {c}) \in Nat
            BY <3>1, FS_CardinalityType
        <3>. QED
            BY <1>2, <3>1, <3>2, <3>3
    <2>7. CASE \E g \in Games : f.from = Match(g) /\ <<t, g>> \in plan
        <3>1. PICK g \in Games : f.from = Match(g) /\ <<t, g>> \in plan
            BY <2>7
        <3>. DEFINE d == <<t, g>>
        <3>2. d \in before
            BY <3>1 DEF Season!OfTeam
        <3>3. d \notin after
            <4>. SUFFICES ASSUME d \in After(steps) PROVE FALSE
                OBVIOUS
            <4>1. d[1] = t /\ d[2] = g
                OBVIOUS
            <4>2. PICK x \in steps : x.from = Team(t) /\ x.to = Match(g)
                BY <2>4, <3>1, <4>1, AfterHas
            <4>3. EdgeSound(x)
                BY DEF PathSound
            <4>4. PICK y \in Teams : x.from = Team(y) /\ <<y, g>> \notin plan
                <5>. HIDE DEF before, after, d
                <5>1. x.from # Week(games[g].week)
                    BY <4>2, Nodes
                <5>. QED
                    BY <4>2, <4>3, <5>1, IntoMatch
            <4>5. y = t
                BY <4>2, <4>4, Nodes
            <4>. QED
                BY <3>1, <4>4, <4>5
        <3>. HIDE DEF d
        <3>4. after \subseteq (before \ {d}) \cup {c}
            BY <2>3, <3>3
        <3>5. /\ IsFiniteSet((before \ {d}) \cup {c})
              /\ Cardinality((before \ {d}) \cup {c}) <= Cardinality(before)
            BY <1>2, <3>2, OneForAnother
        <3>6. Cardinality(after) <= Cardinality((before \ {d}) \cup {c})
            BY <3>4, <3>5, FS_Subset
        <3>7. Cardinality((before \ {d}) \cup {c}) \in Nat
            BY <3>5, FS_CardinalityType
        <3>. QED
            BY <1>2, <3>5, <3>6, <3>7
    <2>. QED
        BY <2>4, <2>5, <2>6, <2>7, IntoTeam
<1>. QED
    BY <1>5, <1>6

-----------------------------------------------------------------------------
(* What the rows are of the entry that is planned for.                     *)
LEMMA EntryRows ==
    ASSUME Season!TypeOK, Season!Entry \in Entries
    PROVE  /\ rules \in Season!Rules /\ rules.slots \in Nat /\ rules.uses \in Nat
           /\ saved[Season!Entry] \subseteq Season!SavedPicks /\ IsFiniteSet(saved[Season!Entry])
           /\ \A t : Season!Used(t) \in Nat
           /\ \A w : Season!Need(w) \in Nat
<1>1. saved[Season!Entry] \in SavedChoices /\ rules \in RuleChoices
    BY DEF Season!TypeOK
<1>2. /\ saved[Season!Entry] \subseteq Season!SavedPicks /\ IsFiniteSet(saved[Season!Entry])
      /\ rules \in Season!Rules
    BY <1>1, SeasonBounds
<1>3. rules.slots \in Nat /\ rules.uses \in Nat
    BY <1>2 DEF Season!Rules
<1>4. ASSUME NEW t PROVE Season!Used(t) \in Nat
    <2>1. Season!Used(t) = Cardinality({p \in saved[Season!Entry] : p.team = t})
        BY SeasonNumbers DEF Season!Used
    <2>2. IsFiniteSet({p \in saved[Season!Entry] : p.team = t})
        BY <1>2, FS_Subset
    <2>. QED
        BY <2>1, <2>2, FS_CardinalityType
<1>5. ASSUME NEW w PROVE Season!Need(w) \in Nat
    <2>. DEFINE filled == Season!InWeek(Season!Fixed, w)
    <2>1. filled \subseteq saved[Season!Entry]
        BY DEF Season!InWeek, Season!Fixed
    <2>2. Cardinality(filled) \in Nat
        BY <1>2, <2>1, FS_Subset, FS_CardinalityType
    <2>3. Season!Need(w) = IF Cardinality(filled) > rules.slots THEN 0
                           ELSE rules.slots - Cardinality(filled)
        BY SeasonNumbers DEF Season!Need
    <2>. HIDE DEF filled
    <2>. QED
        BY <1>3, <2>2, <2>3
<1>. QED
    BY <1>2, <1>3, <1>4, <1>5

(* Whatever was planned so far is feasible: nothing is, to begin with.     *)
LEMMA PlanFeasible ==
    ASSUME SeasonInv, Season!Entry \in Entries, Season!Plannable
    PROVE  Season!Feasible(plan) /\ plan \subseteq Teams \X Games
<1>1. plan \subseteq Teams \X Games /\ Season!TypeOK
    BY DEF SeasonInv, Season!TypeOK
<1>2. CASE plan = {}
    <2>1. \A w \in Weeks : {c \in plan : games[c[2]].week = w} = {}
        BY <1>2
    <2>2. \A t \in Teams : {c \in plan : c[1] = t} = {}
        BY <1>2
    <2>3. Cardinality({}) = 0
        BY FS_EmptySet
    <2>4. \A w \in Weeks : Cardinality({c \in plan : games[c[2]].week = w}) <= Season!Need(w)
        BY <1>1, <2>1, <2>3, EntryRows
    <2>5. ASSUME NEW t \in Teams, rules.uses > 0
          PROVE  Cardinality({c \in plan : c[1] = t}) + Season!Used(t) <= rules.uses
        <3>1. Season!Used(t) <= rules.uses
            BY <2>5 DEF Season!Plannable
        <3>2. Season!Used(t) \in Nat
            BY <1>1, EntryRows
        <3>. QED
            BY <2>2, <2>3, <3>1, <3>2
    <2>. QED
        BY <1>1, <1>2, <2>4, <2>5, SeasonNumbers DEF Season!Feasible
<1>3. CASE plan # {}
    BY <1>1, <1>3 DEF SeasonInv
<1>. QED
    BY <1>2, <1>3

(* A path leaves a plan that is feasible.                                  *)
LEMMA AfterFeasible ==
    ASSUME SeasonInv, Season!Entry \in Entries, Season!Plannable,
           NEW steps, PathSound(Season!Source, steps)
    PROVE  After(steps) \subseteq Season!Candidates /\ Season!Feasible(After(steps))
<1>1. Season!Feasible(plan) /\ plan \subseteq Teams \X Games
    BY PlanFeasible
<1>2. After(steps) \subseteq Season!Candidates
    BY DEF After, SeasonInv
<1>3. After(steps) \subseteq Teams \X Games
    BY <1>2 DEF Season!Candidates
<1>4. \A c, d \in After(steps) : c # d => c[2] # d[2]
    BY <1>1, AfterOfGame
<1>5. Season!TypeOK
    BY DEF SeasonInv
<1>6. ASSUME NEW w \in Weeks
      PROVE  Cardinality({c \in After(steps) : games[c[2]].week = w}) <= Season!Need(w)
    <2>1. Season!Need(w) \in Nat
        BY <1>5, EntryRows
    <2>2. Cardinality(InWeekOf(After(steps), w)) <= Season!Need(w)
        BY <1>1, <1>3, <2>1, AfterOfWeek
    <2>. QED
        BY <2>2 DEF InWeekOf
<1>7. ASSUME NEW t \in Teams, rules.uses > 0
      PROVE  Cardinality({c \in After(steps) : c[1] = t}) + Season!Used(t) <= rules.uses
    <2>. DEFINE n == rules.uses - Season!Used(t)
                of == {c \in After(steps) : c[1] = t}
    <2>1. Season!Used(t) \in Nat /\ rules.uses \in Nat
        BY <1>5, EntryRows
    <2>2. n \in Int /\ Season!Capacity(t) = n
        BY <1>7, <2>1 DEF Season!Capacity
    <2>3. Cardinality(Season!OfTeam(t)) + Season!Used(t) <= rules.uses
        BY <1>1, <1>7, SeasonNumbers DEF Season!Feasible, Season!OfTeam
    <2>4. Cardinality(Season!OfTeam(t)) \in Nat /\ Cardinality(of) \in Nat
        <3>1. Season!OfTeam(t) \subseteq Teams \X Games /\ of \subseteq Teams \X Games
            BY <1>1, <1>3 DEF Season!OfTeam
        <3>. QED
            BY <3>1, ChoicesFinite, FS_CardinalityType
    <2>5. Cardinality(Season!OfTeam(t)) <= n
        BY <2>1, <2>3, <2>4
    <2>. HIDE DEF n
    <2>6. Cardinality(of) <= n
        BY <1>1, <1>3, <2>2, <2>5, AfterOfTeam
    <2>. HIDE DEF of
    <2>7. Cardinality(of) + Season!Used(t) <= rules.uses
        BY <2>1, <2>4, <2>6 DEF n
    <2>. QED
        BY <2>7 DEF of
<1>. QED
    BY <1>2, <1>4, <1>6, <1>7, SeasonNumbers DEF Season!Feasible

-----------------------------------------------------------------------------
(* At the start nothing is planned.                                        *)
LEMMA SeasonInit == ASSUME Season!Init PROVE SeasonInv
<1>1. Len(plans) = 0 /\ plans \in Seq(SUBSET (Teams \X Games)) /\ plan = {}
    BY DEF Season!Init
<1>2. Season!Entry \in 1..(Season!Cardinality(Entries) + 1)
    BY <1>1, SeasonBounds, SeasonNumbers DEF Season!Entry
<1>. QED
    BY <1>1, <1>2 DEF Season!Init, SeasonInv, Season!TypeOK

(* What a plan is judged by reads the rows and the number of the entry.    *)
LEMMA SameRows ==
    ASSUME UNCHANGED <<rules, games, saved, plans>>
    PROVE  /\ Season!Entry' = Season!Entry
           /\ Season!Plannable <=> Season!Plannable'
           /\ Season!Candidates' = Season!Candidates
           /\ Season!Feasible(plan') => (Season!Feasible(plan))'
<1>1. Season!Entry' = Season!Entry
    BY DEF Season!Entry
<1>2. Season!Fixed' = Season!Fixed
    BY <1>1 DEF Season!Fixed
<1>3. ASSUME NEW t PROVE Season!Used(t)' = Season!Used(t)
    BY <1>1 DEF Season!Used
<1>4. ASSUME NEW w PROVE Season!Need(w)' = Season!Need(w)
    BY <1>2 DEF Season!Need, Season!InWeek
<1>5. ASSUME NEW p
      PROVE  Season!EntryResult(rules, games, saved[Season!Entry], p)'
                 = Season!EntryResult(rules, games, saved[Season!Entry], p)
    BY <1>1
<1>6. Season!Eliminated(rules, games, saved[Season!Entry], 31)'
          <=> Season!Eliminated(rules, games, saved[Season!Entry], 31)
    BY <1>1
<1>7. Season!Plannable <=> Season!Plannable'
    BY <1>1, <1>2, <1>3, <1>5, <1>6 DEF Season!Plannable, Season!InWeek
<1>8. Season!Candidates' = Season!Candidates
    BY <1>2 DEF Season!Candidates, Season!Supported, Season!GameLocked, Season!WeekBegan,
                Season!GamesOf, Season!TeamBarred, Season!Now, Season!TeamsOf
<1>9. Season!Feasible(plan') => (Season!Feasible(plan))'
    BY <1>3, <1>4 DEF Season!Feasible
<1>. QED
    BY <1>1, <1>7, <1>8, <1>9

(* Augmenting along a path keeps the plan feasible.                        *)
LEMMA AugmentKeeps == ASSUME SeasonInv, Season!Augment PROVE SeasonInv'
<1>1. /\ Season!Entry \in Entries /\ rules.type = "survivor" /\ Season!Plannable
      /\ UNCHANGED <<rules, games, saved, plans>>
    BY DEF Season!Augment
<1>2. PICK path \in Season!ShortestPaths :
        LET steps == {<<e.from, e.to>> : e \in path.steps}
        IN  plan' = (plan \ {c \in plan : <<<<"game", c[2]>>, <<"team", c[1]>>>> \in steps})
                    \cup {c \in Season!Candidates : <<<<"team", c[1]>>, <<"game", c[2]>>>> \in steps}
    BY DEF Season!Augment
<1>3. PathSound(Season!Source, path.steps)
    BY PathsSound DEF Season!ShortestPaths
<1>4. plan' = After(path.steps)
    BY <1>2 DEF After, Moved, Team, Match
<1>5. plan' \subseteq Season!Candidates /\ Season!Feasible(plan')
    BY <1>1, <1>3, <1>4, AfterFeasible
<1>6. /\ Season!Entry' = Season!Entry /\ Season!Plannable'
      /\ plan' \subseteq Season!Candidates' /\ Season!Feasible(plan)'
    BY <1>1, <1>5, SameRows
<1>7. plan' \subseteq Teams \X Games
    BY <1>5 DEF Season!Candidates
<1>8. Season!TypeOK'
    BY <1>1, <1>6, <1>7 DEF SeasonInv, Season!TypeOK
<1>. QED
    BY <1>1, <1>6, <1>8 DEF SeasonInv

(* The next entry's plan starts empty.                                     *)
LEMMA NextEntryKeeps == ASSUME SeasonInv, Season!NextEntry PROVE SeasonInv'
<1>1. /\ Season!Entry \in Entries /\ UNCHANGED <<rules, games, saved>>
      /\ plans' = Append(plans, Season!Output) /\ plan' = {}
    BY DEF Season!NextEntry
<1>2. plans \in Seq(SUBSET (Teams \X Games)) /\ Season!Output \in SUBSET (Teams \X Games)
    <2>1. plan \subseteq Teams \X Games /\ plans \in Seq(SUBSET (Teams \X Games))
        BY DEF SeasonInv, Season!TypeOK
    <2>2. ASSUME NEW p \in Season!Fixed PROVE p.team \in Teams /\ p.game \in Games
        <3>1. p \in saved[Season!Entry] /\ saved[Season!Entry] \in SavedChoices
            BY <1>1, <2>2 DEF Season!Fixed, SeasonInv, Season!TypeOK
        <3>2. p \in Season!SavedPicks
            BY <3>1, SeasonAssumption DEF Season!PoolAdviceAssumption
        <3>. QED
            BY <3>2 DEF Season!SavedPicks
    <2>. QED
        BY <2>1, <2>2 DEF Season!Output
<1>3. /\ plans' \in Seq(SUBSET (Teams \X Games)) /\ Len(plans) \in Nat
      /\ Len(plans') = Len(plans) + 1
    BY <1>1, <1>2, AppendProperties, LenProperties
<1>4. Season!Entry' \in 1..(Season!Cardinality(Entries) + 1)
    BY <1>1, <1>3, SeasonBounds, SeasonNumbers DEF Season!Entry
<1>5. Season!TypeOK'
    BY <1>1, <1>4, SeasonNumbers DEF SeasonInv, Season!TypeOK
<1>. QED
    BY <1>1, <1>3, <1>5 DEF SeasonInv

(* Every step of the planning keeps its invariant.                         *)
LEMMA SeasonKept == ASSUME SeasonInv, [Season!Next]_(Season!vars) PROVE SeasonInv'
<1>1. CASE UNCHANGED Season!vars
    <2>1. UNCHANGED <<rules, games, saved, plans, plan>>
        BY <1>1 DEF Season!vars
    <2>2. /\ Season!Entry' = Season!Entry /\ (Season!Plannable <=> Season!Plannable')
          /\ Season!Candidates' = Season!Candidates
          /\ Season!Feasible(plan) => (Season!Feasible(plan))'
        BY <2>1, SameRows
    <2>3. Season!TypeOK'
        BY <2>1, <2>2 DEF SeasonInv, Season!TypeOK
    <2>. QED
        BY <2>1, <2>2, <2>3 DEF SeasonInv
<1>. QED
    BY <1>1, AugmentKeeps, NextEntryKeeps DEF Season!Next

(* A step of the composition is a step of the planning or leaves it        *)
(* alone.                                                                  *)
LEMMA SeasonOnly ==
    ASSUME [Next]_vars PROVE [Season!Next]_(Season!vars)
BY DEF Next, vars, YahooStep, NewsStep, CacheStep, SleeperStep, AnalysisStep, SeasonStep,
       LineupStep, seasonVars, Season!vars

-----------------------------------------------------------------------------
(* A card of saved picks and advised ones is accepted if the saved ones    *)
(* are by themselves, the advised ones are open, and they do not meet.     *)
SavedSound(kept, week, all) ==
    /\ \A p \in kept :
        /\ p.game \in Season!GamesOf(games, week) /\ p.team \in Season!TeamsOf(p.game)
        /\ ~Season!TeamBarred(rules, p.team) /\ ~Season!UsedUp(rules, all, p.team, week)
        /\ p.slot \in 1..rules.slots /\ p.confidence = 0
    /\ \A p, q \in kept : p # q => p.game # q.game /\ p.team # q.team /\ p.slot # q.slot

AdvisedSound(advised, kept, week, all) ==
    /\ ~Season!WeekLocked(rules, games, week, Season!Now)
    /\ \A c \in advised :
        /\ c[2] \in Season!GamesOf(games, week) /\ c[1] \in Season!TeamsOf(c[2])
        /\ ~Season!TeamBarred(rules, c[1]) /\ ~Season!UsedUp(rules, all, c[1], week)
        /\ ~Season!GameLocked(games[c[2]], Season!Now)
        /\ \A p \in kept : p.game # c[2] /\ p.team # c[1]
    /\ \A c, d \in advised : c # d => c[1] # d[1] /\ c[2] # d[2]

(* A card that adds advised picks to saved ones, each of which is          *)
(* allowed, open and not used up, is accepted by save_weekly_card.         *)
LEMMA CardAccepted ==
    ASSUME rules.type = "survivor", NEW picks, NEW week, NEW advised, NEW all,
           SavedSound(Season!InWeek(picks, week), week, all),
           AdvisedSound(advised, Season!InWeek(picks, week), week, all),
           NEW card \in Season!Filled(picks, week, advised)
    PROVE  /\ ~Season!HasFindings(rules, games, all, week, card)
           /\ ~Season!HasConflicts(rules, games, Season!InWeek(picks, week), week, card,
                                   Season!Now)
<1>. DEFINE kept == Season!InWeek(picks, week)
            open == (1..rules.slots) \ {p.slot : p \in kept}
            New(f, c) == [week |-> week, slot |-> f[c], game |-> c[2], team |-> c[1],
                          confidence |-> 0]
<1>1. PICK f \in [advised -> open] :
        /\ \A c, d \in advised : c # d => f[c] # f[d]
        /\ card = kept \cup {New(f, c) : c \in advised}
    BY DEF Season!Filled
<1>. HIDE DEF kept
<1>2. ASSUME NEW p \in card
      PROVE  p \in kept \/ \E c \in advised : p = New(f, c)
    BY <1>1
<1>3. ASSUME NEW c \in advised
      PROVE  /\ New(f, c).slot \in 1..rules.slots /\ \A p \in kept : p.slot # New(f, c).slot
             /\ New(f, c).game = c[2] /\ New(f, c).team = c[1] /\ New(f, c).confidence = 0
    BY <1>1
<1>4. ASSUME NEW c \in advised, NEW d \in advised, New(f, c) # New(f, d)
      PROVE  /\ New(f, c).slot # New(f, d).slot /\ New(f, c).game # New(f, d).game
             /\ New(f, c).team # New(f, d).team
    <2>1. c # d
        BY <1>4
    <2>. QED
        BY <1>1, <2>1 DEF AdvisedSound, kept
<1>. HIDE DEF New
<1>5. ASSUME NEW p \in card
      PROVE  /\ p.game \in Season!GamesOf(games, week) /\ p.team \in Season!TeamsOf(p.game)
             /\ ~Season!TeamBarred(rules, p.team) /\ ~Season!UsedUp(rules, all, p.team, week)
             /\ p.slot \in 1..rules.slots /\ p.confidence = 0
    <2>1. CASE p \in kept
        BY <2>1 DEF SavedSound, kept
    <2>2. ASSUME NEW c \in advised, p = New(f, c)
          PROVE  /\ p.game \in Season!GamesOf(games, week) /\ p.team \in Season!TeamsOf(p.game)
                 /\ ~Season!TeamBarred(rules, p.team) /\ ~Season!UsedUp(rules, all, p.team, week)
                 /\ p.slot \in 1..rules.slots /\ p.confidence = 0
        BY <1>3, <2>2 DEF AdvisedSound
    <2>. QED
        BY <1>2, <2>1, <2>2
<1>6. ASSUME NEW p \in kept, NEW c \in advised
      PROVE  /\ p.game # New(f, c).game /\ p.team # New(f, c).team /\ p.slot # New(f, c).slot
    BY <1>3 DEF AdvisedSound, kept
<1>7. ASSUME NEW p \in card, NEW q \in card, p # q
      PROVE  p.game # q.game /\ p.team # q.team /\ p.slot # q.slot
    <2>1. CASE p \in kept /\ q \in kept
        BY <1>7, <2>1 DEF SavedSound, kept
    <2>. QED
        BY <1>2, <1>4, <1>6, <1>7, <2>1
<1>8. ~Season!HasFindings(rules, games, all, week, card)
    <2>1. ~Season!WeightCountMismatch(rules, games, week)
        BY DEF Season!WeightCountMismatch
    <2>2. ASSUME NEW p \in card
          PROVE  ~Season!RepeatedIn(card, p) /\ ~Season!BadPlace(rules, games, week, card, p)
        BY <1>5, <1>7 DEF Season!RepeatedIn, Season!BadPlace
    <2>. QED
        BY <1>5, <2>1, <2>2 DEF Season!HasFindings
<1>9. \A p \in kept : p \in card /\ Season!Unchanged(rules, card, p)
                      /\ Season!Unchanged(rules, kept, p)
    BY <1>1 DEF Season!Unchanged, Season!SameChoice
<1>10. \A p \in card : p \notin kept =>
           /\ ~Season!WeekLocked(rules, games, week, Season!Now)
           /\ ~Season!GameLocked(games[p.game], Season!Now)
    BY <1>2, <1>3 DEF AdvisedSound
<1>11. ~Season!HasConflicts(rules, games, kept, week, card, Season!Now)
    BY <1>9, <1>10 DEF Season!HasConflicts
<1>. QED
    BY <1>8, <1>11 DEF kept

(* What is recommended beside an accepted card is accepted with it.        *)
LEMMA RecommendedAccepted == ASSUME SeasonInv PROVE Season!RecommendationsLegal
<1>. SUFFICES ASSUME rules.type = "survivor", NEW e \in Entries, NEW week \in Weeks,
                     NEW c \in Season!Recommended(saved[e], week),
                     Season!Accepts(saved[e], week, Season!InWeek(saved[e], week)),
                     NEW card \in Season!Filled(saved[e], week, {c})
              PROVE  Season!Accepts(saved[e], week, card)
    BY DEF Season!RecommendationsLegal
<1>. DEFINE picks == saved[e]
            kept == Season!InWeek(picks, week)
<1>1. /\ ~Season!WeekLocked(rules, games, week, Season!Now)
      /\ c \in Season!OpenChoices(picks, week)
    BY DEF Season!Recommended
<1>2. AdvisedSound({c}, kept, week, picks)
    BY <1>1 DEF AdvisedSound, Season!OpenChoices, Season!Supported, Season!GamesOf
<1>3. SavedSound(kept, week, picks)
    <2>1. ~Season!HasFindings(rules, games, picks, week, kept)
        BY DEF Season!Accepts
    <2>2. \A p \in kept : ~Season!RepeatedIn(kept, p) /\ ~Season!BadPlace(rules, games, week, kept, p)
        BY <2>1 DEF Season!HasFindings
    <2>. QED
        BY <2>1, <2>2 DEF SavedSound, Season!HasFindings, Season!RepeatedIn, Season!BadPlace
<1>. HIDE DEF picks, kept
<1>4. /\ ~Season!HasFindings(rules, games, picks, week, card)
      /\ ~Season!HasConflicts(rules, games, kept, week, card, Season!Now)
    BY <1>2, <1>3, CardAccepted DEF picks, kept
<1>. QED
    BY <1>4 DEF Season!Accepts, picks, kept

-----------------------------------------------------------------------------
(* The picks a plan adds, as they are saved.                               *)
PlannedPick(c) ==
    [week |-> games[c[2]].week, slot |-> 1, game |-> c[2], team |-> c[1], confidence |-> 0]

WithPlan == saved[Season!Entry] \cup {PlannedPick(c) : c \in plan}

(* A team in a feasible plan, or in a saved pick, is not used up by the    *)
(* other picks: one of its uses is in the week itself.                     *)
LEMMA NotUsedUp ==
    ASSUME SeasonInv, Season!Entry \in Entries, Season!Plannable,
           NEW week \in Weeks, NEW t \in Teams,
           \/ \E p \in saved[Season!Entry] : p.team = t /\ p.week = week
           \/ \E c \in plan : c[1] = t /\ games[c[2]].week = week
    PROVE  ~Season!UsedUp(rules, WithPlan, t, week)
<1>. SUFFICES ASSUME rules.uses > 0
              PROVE  Cardinality({q \in WithPlan : q.team = t /\ q.week < week})
                         \in 0..(rules.uses - 1)
    <2>1. Season!PriorUses(WithPlan, t, week)
              = Cardinality({q \in WithPlan : q.team = t /\ q.week < week})
        BY SeasonNumbers DEF Season!PriorUses
    <2>2. rules.uses \in Nat
        BY EntryRows DEF SeasonInv
    <2>3. \A n \in 0..(rules.uses - 1) : ~(n >= rules.uses)
        BY <2>2
    <2>. QED
        BY <2>1, <2>3 DEF Season!UsedUp
<1>. DEFINE mine == {p \in saved[Season!Entry] : p.team = t}
            ofTeam == Season!OfTeam(t)
            prior == {q \in WithPlan : q.team = t /\ q.week < week}
<1>1. Season!Feasible(plan) /\ plan \subseteq Teams \X Games /\ Season!TypeOK
    BY PlanFeasible DEF SeasonInv
<1>2. /\ IsFiniteSet(saved[Season!Entry]) /\ rules.uses \in Nat
      /\ saved[Season!Entry] \subseteq Season!SavedPicks
    BY <1>1, EntryRows
<1>3. /\ IsFiniteSet(mine) /\ Cardinality(mine) \in Nat
      /\ Cardinality(mine) = Season!Used(t)
    BY <1>2, FS_Subset, FS_CardinalityType, SeasonNumbers DEF Season!Used
<1>4. IsFiniteSet(ofTeam) /\ Cardinality(ofTeam) \in Nat
    <2>1. ofTeam \subseteq Teams \X Games
        BY <1>1 DEF Season!OfTeam
    <2>. QED
        BY <2>1, ChoicesFinite, FS_CardinalityType
<1>5. Cardinality(ofTeam) + Cardinality(mine) <= rules.uses
    BY <1>1, <1>3, SeasonNumbers DEF Season!Feasible, Season!OfTeam
<1>6. ASSUME NEW A, NEW B, A \subseteq mine, B \subseteq ofTeam,
             Cardinality(A) + Cardinality(B) < Cardinality(ofTeam) + Cardinality(mine),
             prior \subseteq A \cup {PlannedPick(c) : c \in B}
      PROVE  Cardinality(prior) \in 0..(rules.uses - 1)
    <2>. DEFINE f == [c \in B |-> PlannedPick(c)]
                image == {f[c] : c \in B}
    <2>1. IsFiniteSet(A) /\ IsFiniteSet(B)
        BY <1>3, <1>4, <1>6, FS_Subset
    <2>2. IsFiniteSet(image) /\ Cardinality(image) <= Cardinality(B)
        BY <2>1, ImageBound
    <2>3. image = {PlannedPick(c) : c \in B}
        OBVIOUS
    <2>. HIDE DEF image, f
    <2>4. /\ IsFiniteSet(A \cup image) /\ IsFiniteSet(A \cap image)
          /\ Cardinality(A \cup image)
                = Cardinality(A) + Cardinality(image) - Cardinality(A \cap image)
        BY <2>1, <2>2, FS_Union, FS_Intersection
    <2>5. IsFiniteSet(prior) /\ Cardinality(prior) <= Cardinality(A \cup image)
        BY <1>6, <2>3, <2>4, FS_Subset
    <2>6. /\ Cardinality(A) \in Nat /\ Cardinality(B) \in Nat /\ Cardinality(image) \in Nat
          /\ Cardinality(A \cap image) \in Nat /\ Cardinality(A \cup image) \in Nat
          /\ Cardinality(prior) \in Nat
        BY <2>1, <2>2, <2>4, <2>5, FS_CardinalityType
    <2>. QED
        BY <1>2, <1>3, <1>4, <1>5, <1>6, <2>2, <2>4, <2>5, <2>6
<1>7. ASSUME NEW q \in prior
      PROVE  \/ q \in mine /\ q.week < week
             \/ \E c \in ofTeam : q = PlannedPick(c) /\ games[c[2]].week < week
    BY DEF WithPlan, PlannedPick, Season!OfTeam
<1>8. ~(week < week)
    BY SeasonBounds
<1>. HIDE DEF prior
<1>9. CASE \E p \in saved[Season!Entry] : p.team = t /\ p.week = week
    <2>1. PICK p \in mine : p.week = week
        BY <1>9
    <2>2. Cardinality(mine \ {p}) = Cardinality(mine) - 1
        BY <1>3, FS_RemoveElement
    <2>3. prior \subseteq (mine \ {p}) \cup {PlannedPick(c) : c \in ofTeam}
        BY <1>7, <1>8, <2>1
    <2>. HIDE DEF mine, ofTeam
    <2>4. Cardinality(prior) \in 0..(rules.uses - 1)
        BY <1>3, <1>4, <1>6, <2>2, <2>3
    <2>. QED
        BY <2>4 DEF prior
<1>10. CASE \E c \in plan : c[1] = t /\ games[c[2]].week = week
    <2>1. PICK c \in ofTeam : games[c[2]].week = week
        BY <1>10 DEF Season!OfTeam
    <2>2. Cardinality(ofTeam \ {c}) = Cardinality(ofTeam) - 1
        BY <1>4, FS_RemoveElement
    <2>3. prior \subseteq mine \cup {PlannedPick(d) : d \in ofTeam \ {c}}
        BY <1>7, <1>8, <2>1
    <2>. HIDE DEF mine, ofTeam
    <2>4. Cardinality(prior) \in 0..(rules.uses - 1)
        BY <1>3, <1>4, <1>6, <2>2, <2>3
    <2>. QED
        BY <2>4 DEF prior
<1>. QED
    BY <1>9, <1>10

(* What is planned for a week is accepted with what is saved for it.       *)
LEMMA PlanAccepted == ASSUME SeasonInv PROVE Season!PlanIsLegal
<1>. SUFFICES ASSUME Season!Entry \in Entries, rules.type = "survivor", Season!Plannable,
                     NEW week \in Weeks, Season!PlayOnce(week), Season!Planned(week) # {},
                     Season!WeekLocked(rules, games, week, Season!Now) => Season!WeekBegan(week),
                     NEW card \in Season!Filled(saved[Season!Entry], week, Season!Planned(week))
              PROVE  /\ ~Season!HasFindings(rules, games, WithPlan, week, card)
                     /\ ~Season!HasConflicts(rules, games, Season!InWeek(saved[Season!Entry], week),
                                             week, card, Season!Now)
    BY DEF Season!PlanIsLegal, WithPlan, PlannedPick
<1>. DEFINE picks == saved[Season!Entry]
            kept == Season!InWeek(picks, week)
            advised == Season!Planned(week)
<1>1. /\ Season!Feasible(plan) /\ plan \subseteq Teams \X Games /\ Season!TypeOK
      /\ plan \subseteq Season!Candidates
    BY PlanFeasible DEF SeasonInv
<1>2. picks \subseteq Season!SavedPicks
    BY <1>1, EntryRows
<1>3. kept \subseteq picks /\ \A p \in kept : p.week = week /\ p.game \in Games /\ p.team \in Teams
    BY <1>2 DEF Season!InWeek, Season!SavedPicks
<1>4. ASSUME NEW p \in kept PROVE ~Season!Malformed(rules, games, picks, p)
    BY <1>3, <1>4 DEF Season!Plannable, Season!EntryResult
<1>5. advised \subseteq plan /\ \A c \in advised : /\ games[c[2]].week = week
                                               /\ c[2] \in Games /\ c[1] \in Teams
    BY <1>1 DEF Season!Planned
<1>6. SavedSound(kept, week, WithPlan)
    <2>1. ASSUME NEW p \in kept
          PROVE  /\ p.game \in Season!GamesOf(games, week) /\ p.team \in Season!TeamsOf(p.game)
                 /\ ~Season!TeamBarred(rules, p.team)
                 /\ p.slot \in 1..rules.slots /\ p.confidence = 0
        BY <1>3, <1>4 DEF Season!Malformed, Season!GamesOf
    <2>2. ASSUME NEW p \in kept PROVE ~Season!UsedUp(rules, WithPlan, p.team, week)
        BY <1>3, NotUsedUp
    <2>3. ASSUME NEW p \in kept, NEW q \in kept, p # q
          PROVE  p.game # q.game /\ p.team # q.team /\ p.slot # q.slot
        <3>1. q \in {x \in picks \ {p} : x.week = p.week}
            BY <1>3, <2>3
        <3>. HIDE DEF kept, picks
        <3>. QED
            BY <1>4, <3>1 DEF Season!Malformed
    <2>. HIDE DEF kept, picks
    <2>. QED
        BY <2>1, <2>2, <2>3 DEF SavedSound
<1>7. AdvisedSound(advised, kept, week, WithPlan)
    <2>1. PICK first \in advised : TRUE
        OBVIOUS
    <2>2. ASSUME NEW c \in advised
          PROVE  /\ c[2] \in Season!GamesOf(games, week) /\ c[1] \in Season!TeamsOf(c[2])
                 /\ ~Season!TeamBarred(rules, c[1])
                 /\ ~Season!GameLocked(games[c[2]], Season!Now) /\ ~Season!WeekBegan(week)
        BY <1>1, <1>5 DEF Season!Candidates, Season!GamesOf, Season!Supported
    <2>3. ~Season!WeekLocked(rules, games, week, Season!Now)
        BY <2>1, <2>2
    <2>4. ASSUME NEW c \in advised PROVE ~Season!UsedUp(rules, WithPlan, c[1], week)
        BY <1>5, NotUsedUp
    <2>5. ASSUME NEW c \in advised, NEW d \in advised, c # d PROVE c[1] # d[1] /\ c[2] # d[2]
        <3>1. c[2] # d[2]
            BY <1>1, <1>5, <2>5 DEF Season!Feasible
        <3>2. Season!TeamsOf(c[2]) \cap Season!TeamsOf(d[2]) = {}
            BY <2>2, <3>1 DEF Season!PlayOnce
        <3>. QED
            BY <2>2, <3>1, <3>2
    <2>6. ASSUME NEW c \in advised, NEW p \in kept PROVE p.game # c[2] /\ p.team # c[1]
        <3>1. p \in Season!Fixed
            BY <1>3 DEF Season!Fixed
        <3>2. p.game # c[2]
            BY <1>1, <1>5, <3>1 DEF Season!Candidates
        <3>3. Season!TeamsOf(c[2]) \cap Season!TeamsOf(p.game) = {}
            BY <1>6, <2>2, <3>2 DEF Season!PlayOnce, SavedSound
        <3>4. p.team \in Season!TeamsOf(p.game)
            BY <1>6 DEF SavedSound
        <3>. QED
            BY <2>2, <3>2, <3>3, <3>4
    <2>. HIDE DEF advised, kept, picks
    <2>. QED
        BY <2>2, <2>3, <2>4, <2>5, <2>6 DEF AdvisedSound
<1>. QED
    BY <1>6, <1>7, CardAccepted

-----------------------------------------------------------------------------
(* A lineup.  The latest rows of the league tell of its last import, and a *)
(* request that no row has overtaken has that import's roster.             *)
ImportRecords == [source : {"scrape", "yahoo"}, at : Nat, ok : BOOLEAN]

(* What the latest rows tell of an import.                                 *)
LatestTold(rows, last) ==
    LET n == Len(rows)
    IN  /\ rows[n].ok => last.at = rows[n].at
        /\ rows[n].source = "scrape" => last.whole = rows[n].ok
        /\ rows[n].source = "yahoo" =>
            /\ n > 1 /\ rows[n - 1].at = rows[n].at
            /\ last.whole = (rows[n].ok /\ rows[n - 1].ok)

LineupInv ==
    /\ Lineup!TypeOK /\ Lineup!WholeImports /\ Lineup!AdviceFromFreshRoster
    /\ imports \in Seq(ImportRecords) /\ imports # <<>>
    /\ LatestTold(imports, imported)
    /\ asked # Lineup!NotAsked =>
        /\ asked.at = "loaded" /\ asked.now \in Nat
        /\ asked.rows \in Nat /\ asked.rows <= Len(imports)
        /\ asked.rows = Len(imports) => asked.imported = imported.at
    /\ advice.given \in BOOLEAN

(* What is assumed of the hours and the number of imports.                 *)
LEMMA LineupBounds ==
    Fresh \in Nat /\ MaxTime \in Nat /\ MaxRows \in Nat \ {0}
BY LineupAssumption DEF Lineup!WeeklyLineupAssumption

(* The type invariant of the lineups, part by part.                        *)
LEMMA LineupTypes ==
    ASSUME Lineup!TypeOK
    PROVE  /\ hour \in 0..MaxTime /\ forecast \in Forecasts /\ slots \in TeamRosters
           /\ Len(imports) <= MaxRows
           /\ imported.at \in {Lineup!Never} \cup 0..MaxTime /\ imported.whole \in BOOLEAN
           /\ asked.at \in {"idle", "loaded"} /\ (asked.at = "loaded" => asked.kind \in Lineup!Kinds)
BY DEF Lineup!TypeOK

(* At the start the roster was just imported, and nothing is advised.       *)
LEMMA LineupInit == Lineup!Init => LineupInv
<1>. SUFFICES ASSUME Lineup!Init PROVE LineupInv
    OBVIOUS
<1>. DEFINE row == [source |-> "scrape", at |-> 0, ok |-> TRUE]
<1>1. /\ imports = <<row>> /\ imported = [at |-> 0, whole |-> TRUE]
      /\ asked = [at |-> "idle"] /\ advice = [given |-> FALSE]
      /\ hour = 0 /\ forecast \in Forecasts /\ slots \in TeamRosters
    BY DEF Lineup!Init, Lineup!NotAsked, Lineup!Unanswered
<1>2. row \in ImportRecords /\ row.ok /\ row.at = 0 /\ row.source = "scrape"
    BY DEF ImportRecords
<1>. HIDE DEF row
<1>3. imports \in Seq(ImportRecords) /\ Len(imports) = 1 /\ imports[1] = row /\ imports # <<>>
    BY <1>1, <1>2
<1>4. LatestTold(imports, imported)
    BY <1>1, <1>2, <1>3 DEF LatestTold
<1>5. Lineup!TypeOK
    <2>1. 1 <= MaxRows
        BY LineupBounds
    <2>. QED
        BY <1>1, <1>3, <2>1, LineupBounds DEF Lineup!TypeOK
<1>6. Lineup!WholeImports /\ Lineup!AdviceFromFreshRoster
    BY <1>1 DEF Lineup!WholeImports, Lineup!AdviceFromFreshRoster
<1>. QED
    BY <1>1, <1>3, <1>4, <1>5, <1>6 DEF LineupInv, Lineup!NotAsked

(* An import: its rows tell of it, and overtake what was loaded before.    *)
LEMMA ImportKeeps ==
    ASSUME LineupInv, NEW rows \in Seq(ImportRecords), rows # <<>>, NEW read \in BOOLEAN,
           Lineup!Import(rows, read),
           \A i \in DOMAIN rows : rows[i].at = hour,
           rows[Len(rows)].ok = read,
           \/ Len(rows) = 1 /\ rows[1].source = "scrape"
           \/ Len(rows) = 2 /\ rows[2].source = "yahoo"
    PROVE  LineupInv'
<1>1. /\ hour \in 0..MaxTime /\ forecast \in Forecasts /\ slots \in TeamRosters
      /\ imported.at \in {Lineup!Never} \cup 0..MaxTime /\ imported.whole \in BOOLEAN
      /\ asked.at \in {"idle", "loaded"} /\ (asked.at = "loaded" => asked.kind \in Lineup!Kinds)
    BY LineupTypes DEF LineupInv
<1>2. /\ Len(imports) + Len(rows) <= MaxRows
      /\ imports' = imports \o rows /\ slots' \in TeamRosters
      /\ imported' = [at |-> IF read THEN hour ELSE imported.at,
                      whole |-> \A i \in DOMAIN rows : rows[i].ok]
      /\ UNCHANGED <<hour, forecast, asked, advice>>
    BY <1>1 DEF Lineup!Import
<1>3. /\ imports \in Seq(ImportRecords) /\ Len(imports) \in Nat
      /\ Len(rows) \in Nat /\ Len(rows) > 0 /\ DOMAIN rows = 1..Len(rows)
    BY DEF LineupInv
<1>4. /\ imports' \in Seq(ImportRecords) /\ Len(imports') = Len(imports) + Len(rows)
      /\ \A i \in 1..Len(rows) : imports'[Len(imports) + i] = rows[i]
    BY <1>2, <1>3, ConcatProperties
<1>5. Len(imports') > 0 /\ imports' # <<>> /\ Len(imports) < Len(imports')
    BY <1>3, <1>4
<1>6. LatestTold(imports', imported')
    <2>1. CASE Len(rows) = 1 /\ rows[1].source = "scrape"
        <3>1. /\ imports'[Len(imports')] = rows[1] /\ DOMAIN rows = {1}
              /\ rows[1].ok = read /\ rows[1].at = hour
            BY <1>3, <1>4, <2>1
        <3>2. rows[1].ok \in BOOLEAN
            BY <3>1
        <3>3. imported'.whole = rows[1].ok /\ (read => imported'.at = hour)
            BY <1>2, <3>1, <3>2
        <3>. QED
            BY <2>1, <3>1, <3>3 DEF LatestTold
    <2>2. CASE Len(rows) = 2 /\ rows[2].source = "yahoo"
        <3>1. /\ imports'[Len(imports')] = rows[2] /\ imports'[Len(imports') - 1] = rows[1]
              /\ DOMAIN rows = {1, 2} /\ Len(imports') > 1
              /\ rows[2].ok = read /\ rows[1].at = hour /\ rows[2].at = hour
            BY <1>3, <1>4, <2>2
        <3>2. rows[1].ok \in BOOLEAN /\ rows[2].ok \in BOOLEAN
            <4>1. rows[1] \in ImportRecords
                BY <3>1
            <4>. QED
                BY <3>1, <4>1 DEF ImportRecords
        <3>3. imported'.whole = (rows[2].ok /\ rows[1].ok) /\ (read => imported'.at = hour)
            BY <1>2, <3>1, <3>2
        <3>. QED
            BY <2>2, <3>1, <3>3 DEF LatestTold
    <2>. QED
        BY <2>1, <2>2
<1>7. Lineup!TypeOK'
    <2>1. imported'.at \in {Lineup!Never} \cup 0..MaxTime /\ imported'.whole \in BOOLEAN
        BY <1>1, <1>2
    <2>. QED
        BY <1>1, <1>2, <1>4, <2>1 DEF Lineup!TypeOK
<1>8. Lineup!WholeImports' /\ Lineup!AdviceFromFreshRoster'
    BY <1>2 DEF LineupInv, Lineup!WholeImports, Lineup!AdviceFromFreshRoster
<1>9. asked # Lineup!NotAsked =>
        /\ asked.at = "loaded" /\ asked.now \in Nat
        /\ asked.rows \in Nat /\ asked.rows <= Len(imports') /\ asked.rows # Len(imports')
    BY <1>3, <1>5 DEF LineupInv
<1>. QED
    BY <1>2, <1>4, <1>5, <1>6, <1>7, <1>8, <1>9 DEF LineupInv

(* Both ways to import write the roster and the record of it together.     *)
LEMMA ImportsKeep ==
    ASSUME LineupInv, Lineup!ImportScraped \/ Lineup!ImportPages PROVE LineupInv'
<1>1. hour \in Nat
    BY LineupTypes, LineupBounds DEF LineupInv
<1>2. CASE Lineup!ImportScraped
    <2>1. PICK ok \in BOOLEAN :
            Lineup!Import(<<[source |-> "scrape", at |-> hour, ok |-> ok]>>, ok)
        BY <1>2 DEF Lineup!ImportScraped
    <2>. DEFINE row == [source |-> "scrape", at |-> hour, ok |-> ok]
    <2>2. row \in ImportRecords /\ row.at = hour /\ row.ok = ok /\ row.source = "scrape"
        BY <1>1 DEF ImportRecords
    <2>. HIDE DEF row
    <2>3. /\ <<row>> \in Seq(ImportRecords) /\ Len(<<row>>) = 1 /\ <<row>>[1] = row
          /\ <<row>> # <<>> /\ DOMAIN <<row>> = {1}
        BY <2>2
    <2>4. Lineup!Import(<<row>>, ok)
        BY <2>1 DEF row
    <2>. QED
        BY <2>2, <2>3, <2>4, ImportKeeps
<1>3. CASE Lineup!ImportPages
    <2>1. PICK settings \in BOOLEAN, rosters \in BOOLEAN :
            Lineup!Import(<<[source |-> "yahoo", at |-> hour, ok |-> settings],
                            [source |-> "yahoo", at |-> hour, ok |-> rosters]>>, rosters)
        BY <1>3 DEF Lineup!ImportPages
    <2>. DEFINE row(ok) == [source |-> "yahoo", at |-> hour, ok |-> ok]
                first == row(settings)
                second == row(rosters)
    <2>2. /\ first \in ImportRecords /\ first.at = hour
          /\ second \in ImportRecords /\ second.at = hour /\ second.ok = rosters
          /\ second.source = "yahoo"
        BY <1>1 DEF ImportRecords
    <2>3. Lineup!Import(<<first, second>>, rosters)
        BY <2>1
    <2>. HIDE DEF first, second
    <2>4. /\ <<first, second>> \in Seq(ImportRecords) /\ Len(<<first, second>>) = 2
          /\ <<first, second>>[1] = first /\ <<first, second>>[2] = second
          /\ <<first, second>> # <<>> /\ DOMAIN <<first, second>> = {1, 2}
        BY <2>2
    <2>. HIDE DEF row
    <2>5. \A i \in DOMAIN <<first, second>> : <<first, second>>[i].at = hour
        BY <2>2, <2>4
    <2>. QED
        BY <2>2, <2>3, <2>4, <2>5, ImportKeeps
<1>. QED
    BY <1>2, <1>3

(* What is advised was looked at.                                          *)
LEMMA DecideKeeps ==
    ASSUME LineupInv, Lineup!Decide PROVE LineupInv'
<1>1. /\ hour \in 0..MaxTime /\ forecast \in Forecasts /\ slots \in TeamRosters
      /\ Len(imports) <= MaxRows
      /\ imported.at \in {Lineup!Never} \cup 0..MaxTime /\ imported.whole \in BOOLEAN
      /\ asked.at \in {"idle", "loaded"}
    BY LineupTypes DEF LineupInv
<1>2. /\ asked' = [at |-> "idle"] /\ asked' = Lineup!NotAsked
      /\ UNCHANGED <<hour, forecast, slots, imports, imported>>
    BY DEF Lineup!Decide, Lineup!NotAsked
<1>3. Lineup!TypeOK'
    BY <1>1, <1>2 DEF Lineup!TypeOK
<1>4. ASSUME advice' = [given |-> FALSE, because |-> "withheld"] PROVE LineupInv'
    BY <1>2, <1>3, <1>4 DEF LineupInv, Lineup!WholeImports, Lineup!AdviceFromFreshRoster
<1>5. ASSUME ~Lineup!Withheld, asked # Lineup!NotAsked,
             NEW current, NEW chosen, NEW waivers,
             advice' = [given |-> TRUE, current |-> current, chosen |-> chosen,
                        waivers |-> waivers, roster |-> asked.roster, now |-> asked.now,
                        imported |-> asked.imported, whole |-> imported.whole,
                        overtaken |-> Len(imports) > asked.rows]
      PROVE  LineupInv'
    <2>. DEFINE n == Len(imports)
    <2>1. /\ imports \in Seq(ImportRecords) /\ n \in Nat /\ n > 0
          /\ imports[n] \in ImportRecords /\ DOMAIN imports = 1..n
        BY DEF LineupInv
    <2>2. /\ imports[n].ok
          /\ imports[n].source # "scrape" =>
                \A i \in DOMAIN imports : ~imports[i].ok => imports[i].at # imports[n].at
          /\ ~(asked.now - imports[n].at > Fresh)
        BY <1>5 DEF Lineup!Withheld, Lineup!Incomplete, Lineup!Latest
    <2>3. imported.whole /\ imported.at = imports[n].at
        <3>1. CASE imports[n].source = "scrape"
            BY <2>2, <3>1 DEF LineupInv, LatestTold
        <3>2. CASE imports[n].source = "yahoo"
            <4>1. /\ n > 1 /\ imports[n - 1].at = imports[n].at
                  /\ imported.whole = (imports[n].ok /\ imports[n - 1].ok)
                  /\ imported.at = imports[n].at
                BY <2>2, <3>2 DEF LineupInv, LatestTold
            <4>2. n - 1 \in DOMAIN imports
                BY <2>1, <4>1
            <4>. QED
                BY <2>2, <3>2, <4>1, <4>2
        <3>. QED
            BY <2>1, <3>1, <3>2 DEF ImportRecords
    <2>4. advice'.whole
        BY <1>5, <2>3
    <2>5. advice'.now - advice'.imported <= Fresh \/ advice'.overtaken
        <3>. SUFFICES ASSUME ~(n > asked.rows) PROVE asked.now - asked.imported <= Fresh
            BY <1>5
        <3>1. asked.imported = imported.at /\ asked.now \in Nat
            BY <1>5, <2>1 DEF LineupInv
        <3>2. imports[n].at \in Nat
            BY <2>1 DEF ImportRecords
        <3>. QED
            BY <2>2, <2>3, <3>1, <3>2, LineupBounds
    <2>. QED
        BY <1>2, <1>3, <1>5, <2>4, <2>5
           DEF LineupInv, Lineup!WholeImports, Lineup!AdviceFromFreshRoster
<1>. QED
    BY <1>4, <1>5 DEF Lineup!Decide

(* Every step of imports and decisions keeps their invariant.              *)
LEMMA LineupKept ==
    ASSUME LineupInv, [Lineup!Next]_(Lineup!vars) PROVE LineupInv'
<1>1. /\ hour \in 0..MaxTime /\ forecast \in Forecasts /\ slots \in TeamRosters
      /\ Len(imports) <= MaxRows
      /\ imported.at \in {Lineup!Never} \cup 0..MaxTime /\ imported.whole \in BOOLEAN
      /\ asked.at \in {"idle", "loaded"} /\ (asked.at = "loaded" => asked.kind \in Lineup!Kinds)
    BY LineupTypes DEF LineupInv
<1>2. CASE UNCHANGED Lineup!vars
    BY <1>2 DEF Lineup!vars, LineupInv, Lineup!TypeOK, Lineup!WholeImports,
                Lineup!AdviceFromFreshRoster
<1>3. CASE Lineup!Tick
    <2>1. hour' \in 0..MaxTime /\ UNCHANGED <<forecast, slots, imports, imported, asked, advice>>
        BY <1>1, <1>3, LineupBounds DEF Lineup!Tick
    <2>2. Lineup!TypeOK'
        BY <1>1, <2>1 DEF Lineup!TypeOK
    <2>. QED
        BY <2>1, <2>2 DEF LineupInv, Lineup!WholeImports, Lineup!AdviceFromFreshRoster
<1>4. ASSUME NEW kind \in Lineup!Kinds, Lineup!LoadRoster(kind) PROVE LineupInv'
    <2>1. /\ asked' = [at |-> "loaded", kind |-> kind, roster |-> slots, now |-> hour,
                       imported |-> imported.at, rows |-> Len(imports)]
          /\ UNCHANGED <<hour, forecast, slots, imports, imported, advice>>
        BY <1>4 DEF Lineup!LoadRoster
    <2>2. /\ asked'.at = "loaded" /\ asked'.kind \in Lineup!Kinds
          /\ asked'.rows = Len(imports) /\ asked'.imported = imported.at
        BY <1>4, <2>1
    <2>3. Len(imports) \in Nat /\ asked'.now \in Nat
        BY <1>1, <2>1, LineupBounds DEF LineupInv
    <2>4. Lineup!TypeOK'
        BY <1>1, <2>1, <2>2 DEF Lineup!TypeOK
    <2>. QED
        BY <2>1, <2>2, <2>3, <2>4 DEF LineupInv, Lineup!WholeImports, Lineup!AdviceFromFreshRoster
<1>. QED
    BY <1>2, <1>3, <1>4, ImportsKeep, DecideKeeps DEF Lineup!Next

(* A step of the composition is a step of the lineups or leaves them       *)
(* alone.                                                                  *)
LEMMA LineupOnly ==
    ASSUME [Next]_vars PROVE [Lineup!Next]_(Lineup!vars)
BY DEF Next, vars, YahooStep, NewsStep, CacheStep, SleeperStep, AnalysisStep, SeasonStep,
       LineupStep, lineupVars, Lineup!vars

-----------------------------------------------------------------------------
(* The invariants of all parts.                                            *)
FeedsInv ==
    YahooInv /\ CacheInv /\ SleeperInv /\ AnalysisInv /\ NewsInv /\ SeasonInv /\ LineupInv

(* The invariants of all parts hold throughout.                            *)
LEMMA FeedsInvHolds == Spec => []FeedsInv
<1>1. Init => FeedsInv
    BY YahooInit, CacheInit, SleeperInit, AnalysisInit, NewsInit, SeasonInit, LineupInit
       DEF Init, FeedsInv
<1>2. FeedsInv /\ [Next]_vars => FeedsInv'
    BY YahooKept, YahooOnly, CacheKept, CacheOnly, SleeperKept, SleeperOnly, AnalysisKept,
       AnalysisOnly, NewsKept, NewsOnly, SeasonKept, SeasonOnly, LineupKept, LineupOnly
       DEF FeedsInv
<1>. QED
    BY <1>1, <1>2, PTL DEF Spec

(* Nothing is begun at Yahoo before the time its earlier answers asked     *)
(* for, and unforced downloads of a cached source keep their distance      *)
(* (yahoo_scraper.py, football_sources.py): FetchesSpaced.                 *)
THEOREM FetchesKeepDistance == Spec => FetchesSpaced
<1>1. FeedsInv /\ [Next]_vars
      => [\A r \in Requests : (Yahoo!Is(r, "none") /\ op'[r].kind # "none") => time >= throttled]_(Yahoo!vars)
    BY BegunAfterThrottle, YahooOnly DEF FeedsInv, Yahoo!Is
<1>2. FeedsInv /\ [Next]_vars
      => [begun' # begun =>
            /\ \A i \in DOMAIN snapshots : clock - snapshots[i].at >= Retry
            /\ (begun # Cache!Never /\ cacheRestarts = 0) => clock - begun >= Retry]_(Cache!vars)
    BY DownloadSpaced, CacheOnly DEF FeedsInv
<1>. QED
    BY <1>1, <1>2, FeedsInvHolds, PTL
       DEF Spec, FetchesSpaced, Yahoo!ThrottlesKept, Cache!RequestsSpaced

(* Rosters, labels and etags are of what their sources sent, however many  *)
(* fetches, classifications and restarts interleave, and no alert is       *)
(* pushed again unless two that push were under way when it was stored     *)
(* (yahoo_scraper.py, news.py, scheduler.py, api.py): StoredAsSent.        *)
THEOREM StoredIsAsSent == Spec => []StoredAsSent
<1>1. FeedsInv => StoredAsSent
    BY NewsSound DEF FeedsInv, YahooInv, CacheInv, SleeperInv, SleeperTyped, StoredAsSent
<1>. QED
    BY <1>1, FeedsInvHolds, PTL

(* What was read before an await does not replace newer evidence, and the  *)
(* rules of a pool are those its saved picks were judged by, unless it was *)
(* overtaken (football_sources.py, sleeper_pools.py, routes/pools.py):     *)
(* StaleReadsLose.                                                         *)
THEOREM StaleReadsAlwaysLose == Spec => StaleReadsLose
<1>1. FeedsInv /\ [Next]_vars
      => [clock' <= SeasonEnd => Cache!Evidence' >= Cache!Evidence]_(Cache!vars)
    BY EvidenceGrows, CacheOnly DEF FeedsInv
<1>2. FeedsInv /\ [Next]_vars
      => [/\ (Sleeper!HasPicks /\ ~Sleeper!Overtaking /\ Sleeper!Exists') => Sleeper!RulesStand
          /\ (~Sleeper!Exists /\ Sleeper!Exists') => ~Sleeper!Refreshed]_(Sleeper!vars)
    BY RulesStay, NotRefreshedBack, SleeperOnly DEF FeedsInv, SleeperInv
<1>3. FeedsInv => (Sleeper!Exists /\ ~pool.overtaken => Sleeper!PicksJudgedByRules)
    BY DEF FeedsInv, SleeperInv, Judged, Sleeper!Exists, Sleeper!PicksJudgedByRules
<1>. QED
    BY <1>1, <1>2, <1>3, FeedsInvHolds, PTL
       DEF Spec, StaleReadsLose, Cache!EvidenceForward, Sleeper!RulesFixedOncePicked

(* A proposal is saved over the card it was made for only, while it is     *)
(* recent, and lineups are advised on whole and recent imports             *)
(* (pool_analysis.py, decision_freshness.py): AdviceOnSoundInputs.         *)
THEOREM AdviceIsSound == Spec => []AdviceOnSoundInputs
<1>1. FeedsInv => AdviceOnSoundInputs
    BY AnalysisSound DEF FeedsInv, LineupInv, AdviceOnSoundInputs
<1>. QED
    BY <1>1, FeedsInvHolds, PTL

(* What is recommended for a survivor pool and planned for its season is   *)
(* accepted by a save, for any games, teams, entries and saved picks, and  *)
(* along whatever shortest paths the plan grows (decision.py,              *)
(* pool_strategy.py, pool_week.py): AdviceIsLegal.                         *)
THEOREM AdviceAlwaysLegal == Spec => []AdviceIsLegal
<1>1. FeedsInv => AdviceIsLegal
    BY RecommendedAccepted, PlanAccepted DEF FeedsInv, SeasonInv, AdviceIsLegal
<1>. QED
    BY <1>1, FeedsInvHolds, PTL
=============================================================================
