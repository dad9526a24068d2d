----------------------------- MODULE YahooSync -----------------------------
(***************************************************************************)
(* The Yahoo scraper (services/yahoo_scraper.py, services/yahoo_weekly.py):*)
(* imports of the leagues, weekly comparisons and live draft results, the  *)
(* throttle Yahoo puts on all of them, and rosters that change on Yahoo    *)
(* while their pages are read.  Each league is represented by one player.  *)
(***************************************************************************)
EXTENDS Integers, FiniteSets

CONSTANTS Requests,     \* handlers and the scheduled refresh
          LeagueCount, TeamCount,
          Pause, LongPause,     \* how long Yahoo asks to stay away
          MaxTime,      \* bounds on the clock,
          MaxMoves,     \* the transactions on Yahoo,
          MaxSaves,     \* the settings the owner saves
          MaxRestarts   \* and the restarts

YahooSyncAssumption ==
    /\ IsFiniteSet(Requests)
    /\ LeagueCount \in Nat \ {0} /\ TeamCount \in Nat \ {0}
    /\ Pause \in Nat \ {0} /\ LongPause \in Nat \ {0}
    /\ \A n \in {MaxTime, MaxMoves, MaxSaves, MaxRestarts} : n \in Nat

VARIABLES
    now,
    owner,      \* on Yahoo: the team of each league's player
    moves,
    roster,     \* Player.rostered_by
    latest,     \* the latest yahoo_scrape snapshot of each league
    cooldown,   \* retry_at of the latest yahoo_scrape.cooldown snapshot
    blocked,    \* _LIVE_DRAFT_BLOCKED_UNTIL, of the league that drafts
    weekly,     \* the yahoo_weekly_projection snapshot
    cookie,     \* the saved cookie, by the settings it was saved with
    op,         \* each handler
    restarts,
    throttled,  \* history: the longest any answer of Yahoo asked to stay away
    credible    \* history: what the last import of a league may have stored

vars == <<now, owner, moves, roster, latest, cooldown, blocked, weekly, cookie, op, restarts,
          throttled, credible>>

Leagues == 1..LeagueCount

TeamIds == 1..TeamCount

FreeAgent == 0

Unseen == -1

PoolPage == TeamCount + 1

DraftPage == TeamCount + 2

Idle == [kind |-> "none", league |-> 0, last |-> 0, page |-> 0, seen |-> Unseen,
         complete |-> TRUE, cookie |-> 0, held |-> {}]

TypeOK ==
    /\ now \in 0..MaxTime
    /\ owner \in [Leagues -> TeamIds \cup {FreeAgent}]
    /\ moves \in 0..MaxMoves
    /\ roster \in [Leagues -> TeamIds \cup {FreeAgent}]
    /\ latest \in [Leagues -> {"none", "fresh", "partial", "failed"}]
    /\ {cooldown, blocked, throttled} \subseteq Nat
    /\ weekly \in {"unavailable", "available", "stale"}
    /\ cookie \in 0..MaxSaves
    /\ op \in [Requests -> [kind : {"none", "import", "weekly", "live"},
                            league : Leagues \cup {0}, last : Leagues \cup {0},
                            page : 0..DraftPage, seen : TeamIds \cup {FreeAgent, Unseen},
                            complete : BOOLEAN, cookie : 0..MaxSaves,
                            held : SUBSET (TeamIds \cup {FreeAgent})]]
    /\ restarts \in 0..MaxRestarts
    /\ credible \in [Leagues -> SUBSET (TeamIds \cup {FreeAgent})]

Init ==
    /\ now = 0 /\ moves = 0 /\ restarts = 0
    /\ owner \in [Leagues -> TeamIds \cup {FreeAgent}]
    /\ roster = owner
    /\ latest = [l \in Leagues |-> "none"]
    /\ cooldown = 0 /\ blocked = 0 /\ throttled = 0
    /\ weekly = "unavailable"
    /\ cookie = 0
    /\ op = [r \in Requests |-> Idle]
    /\ credible = [l \in Leagues |-> {roster[l]}]

Later(a, b) == IF a > b THEN a ELSE b

Is(r, kind) == op[r].kind = kind

End(r) == op' = [op EXCEPT ![r] = Idle]

(* job_lock("yahoo-import")                                                *)
ImportLockFree == \A q \in Requests : op[q].kind \notin {"import", "weekly"}

RateLimitRemains == cooldown > now

(* The import is about to read league l.                                   *)
Reading(o, l) ==
    [o EXCEPT !.league = l, !.page = 0, !.seen = Unseen, !.complete = TRUE, !.held = {owner[l]}]

-----------------------------------------------------------------------------
Tick ==
    /\ now < MaxTime
    /\ now' = now + 1
    /\ UNCHANGED <<owner, moves, roster, latest, cooldown, blocked, weekly, cookie, op, restarts,
                   throttled, credible>>

(* A player changes teams on Yahoo.                                        *)
Move ==
    /\ moves < MaxMoves
    /\ moves' = moves + 1
    /\ \E l \in Leagues, t \in TeamIds \cup {FreeAgent} :
        /\ owner[l] # t
        /\ owner' = [owner EXCEPT ![l] = t]
        /\ op' = [r \in Requests |->
                    IF Is(r, "import") /\ op[r].league = l
                    THEN [op[r] EXCEPT !.held = @ \cup {t}] ELSE op[r]]
    /\ UNCHANGED <<now, roster, latest, cooldown, blocked, weekly, cookie, restarts, throttled,
                   credible>>

(* save_scraper_settings with a new cookie.                                *)
SaveScraperSettings ==
    /\ cookie < MaxSaves
    /\ cookie' = cookie + 1
    /\ UNCHANGED <<now, owner, moves, roster, latest, cooldown, blocked, weekly, op, restarts,
                   throttled, credible>>

(* The six hours of a weekly comparison are over.                          *)
WeeklyAges ==
    /\ weekly = "available"
    /\ weekly' = "stale"
    /\ UNCHANGED <<now, owner, moves, roster, latest, cooldown, blocked, cookie, op, restarts,
                   throttled, credible>>

(* sync_scraped_league, sync_scraped_leagues up to their first request; an *)
(* import that is running or a cooldown refuses them.                      *)
SyncScrapedUrls(r) ==
    /\ Is(r, "none") /\ ImportLockFree /\ ~RateLimitRemains
    /\ \E first \in Leagues, last \in Leagues :
        /\ last \in {first, LeagueCount} /\ (last # first => first = 1)
        /\ op' = [op EXCEPT ![r] =
                    Reading([Idle EXCEPT !.kind = "import", !.last = last, !.cookie = cookie],
                            first)]
    /\ UNCHANGED <<now, owner, moves, roster, latest, cooldown, blocked, weekly, cookie, restarts,
                   throttled, credible>>

RefreshWeeklyProjections(r) ==
    /\ Is(r, "none") /\ weekly # "available"
    /\ ImportLockFree /\ ~RateLimitRemains
    /\ op' = [op EXCEPT ![r].kind = "weekly"]
    /\ UNCHANGED <<now, owner, moves, roster, latest, cooldown, blocked, weekly, cookie, restarts,
                   throttled, credible>>

SyncScrapedDraftResults(r) ==
    /\ Is(r, "none") /\ ~RateLimitRemains /\ blocked <= now
    /\ op' = [op EXCEPT ![r].kind = "live"]
    /\ UNCHANGED <<now, owner, moves, roster, latest, cooldown, blocked, weekly, cookie, restarts,
                   throttled, credible>>

-----------------------------------------------------------------------------
(* What a page tells of the player: parse_team_page reads a team's own     *)
(* players, parse_player_page their owners off the player pool.            *)
SeenOn(page, team, listed, before) ==
    CASE page \in TeamIds /\ team = page -> team
      [] page = PoolPage /\ listed /\ before = Unseen -> team
      [] OTHER -> before

(* _scrape_one: the home and settings pages, the page of each team, the    *)
(* player pool, whose pages may be cut off ...                             *)
FetchPage(r) ==
    /\ Is(r, "import") /\ op[r].page < DraftPage
    /\ LET page == op[r].page
           team == owner[op[r].league]
       IN  \E listed \in BOOLEAN :
            /\ ~listed => page = PoolPage
            /\ op' = [op EXCEPT ![r].page = page + 1,
                                ![r].complete = listed,
                                ![r].seen = SeenOn(page, team, listed, @)]
    /\ UNCHANGED <<now, owner, moves, roster, latest, cooldown, blocked, weekly, cookie, restarts,
                   throttled, credible>>

(* The next league, or the end of the import, where a cookie Yahoo has     *)
(* renewed meanwhile replaces the saved one.                               *)
NextLeague(r) ==
    IF op[r].league < op[r].last
    THEN op' = [op EXCEPT ![r] = Reading(@, op[r].league + 1)] /\ UNCHANGED cookie
    ELSE End(r) /\ cookie' \in {cookie, op[r].cookie}

(* Mutant: a player an import does not see is freed.                       *)
FreeUnseen(before, seen) == IF seen = Unseen THEN FreeAgent ELSE seen

(* _upsert_player: a player seen on no page stays as it is.                *)
UpsertPlayer(before, seen) == IF seen = Unseen THEN before ELSE seen

(* ... and the draft results, after which the league is committed.         *)
CommitLeague(r) ==
    /\ Is(r, "import") /\ op[r].page = DraftPage
    /\ LET l == op[r].league
       IN  /\ roster' = [roster EXCEPT ![l] = UpsertPlayer(@, op[r].seen)]
           /\ latest' = [latest EXCEPT ![l] = IF op[r].complete THEN "fresh" ELSE "partial"]
           /\ credible' = [credible EXCEPT ![l] =
                              IF op[r].complete THEN op[r].held ELSE op[r].held \cup {roster[l]}]
    /\ NextLeague(r)
    /\ UNCHANGED <<now, owner, moves, cooldown, blocked, weekly, restarts, throttled>>

(* Any other error is recorded for the league and the import goes on.      *)
LeagueFails(r) ==
    /\ Is(r, "import")
    /\ latest' = [latest EXCEPT ![op[r].league] = "failed"]
    /\ NextLeague(r)
    /\ UNCHANGED <<now, owner, moves, roster, cooldown, blocked, weekly, restarts, throttled,
                   credible>>

FinishWeekly(r) ==
    /\ Is(r, "weekly")
    /\ weekly' \in {"available", weekly}
    /\ End(r)
    /\ UNCHANGED <<now, owner, moves, roster, latest, cooldown, blocked, cookie, restarts,
                   throttled, credible>>

(* Successful, the live sync forgets its own block and stores the picks;   *)
(* after an error it leaves all as it is.                                  *)
FinishLive(r) ==
    /\ Is(r, "live")
    /\ blocked' \in {0, blocked}
    /\ End(r)
    /\ UNCHANGED <<now, owner, moves, roster, latest, cooldown, weekly, cookie, restarts,
                   throttled, credible>>

(* What _fetch makes of an answer 429 or 999: the Retry-After header, or   *)
(* a default.                                                              *)
RetryAfter == {Pause, LongPause}

(* Mutant: the newest answer decides.                                      *)
RecordNewest(r) ==
    /\ ~Is(r, "none")
    /\ \E seconds \in RetryAfter :
        /\ cooldown' = now + seconds
        /\ throttled' = Later(now + seconds, throttled)
        /\ blocked' = IF Is(r, "live") THEN now + seconds ELSE blocked
    /\ End(r)
    /\ UNCHANGED <<now, owner, moves, roster, latest, weekly, cookie, restarts, credible>>

(* Yahoo answers 429 or 999: the operation ends, what it has not committed *)
(* is rolled back and _record_rate_limit keeps the later of the two times. *)
RateLimited(r) ==
    /\ ~Is(r, "none")
    /\ \E seconds \in RetryAfter :
        /\ cooldown' = Later(now + seconds, cooldown)
        /\ throttled' = Later(now + seconds, throttled)
        /\ blocked' = IF Is(r, "live") THEN now + seconds ELSE blocked
    /\ End(r)
    /\ UNCHANGED <<now, owner, moves, roster, latest, weekly, cookie, restarts, credible>>

(* The process is gone, with the lease, the open transactions and the      *)
(* block of the live draft.                                                *)
Restart ==
    /\ restarts < MaxRestarts
    /\ restarts' = restarts + 1
    /\ op' = [r \in Requests |-> Idle]
    /\ blocked' = 0
    /\ UNCHANGED <<now, owner, moves, roster, latest, cooldown, weekly, cookie, throttled,
                   credible>>

Next ==
    \/ Tick \/ Move \/ SaveScraperSettings \/ WeeklyAges \/ Restart
    \/ \E r \in Requests :
        \/ SyncScrapedUrls(r) \/ RefreshWeeklyProjections(r) \/ SyncScrapedDraftResults(r)
        \/ FetchPage(r) \/ CommitLeague(r) \/ LeagueFails(r)
        \/ FinishWeekly(r) \/ FinishLive(r) \/ RateLimited(r)

Spec == Init /\ [][Next]_vars

-----------------------------------------------------------------------------
(* Whatever begins, it begins after the time every earlier answer of Yahoo *)
(* asked for, whoever got it and through restarts (operations-recovery:    *)
(* throttles apply to manual, background and live synchronization).        *)
ThrottlesKept ==
    [][\A r \in Requests : (Is(r, "none") /\ op'[r].kind # "none") => now >= throttled]_vars

(* What an import stores of a roster was so on Yahoo at some moment of the *)
(* import; only a player a partial one did not see keeps an older team.    *)
(* Nobody falls between two pages (_scrape_one).                           *)
RostersCredible == \A l \in Leagues : roster[l] \in credible[l]
=============================================================================
