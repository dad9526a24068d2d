# Formal models of OpenGridiron

TLA+ modules, model-checking configurations and machine-checked proofs for the
stateful core of OpenGridiron (`src/backend/app`, and `src/codex_runner`). Three
groups of parts are modelled. The draft suite: the event log of a draft session,
the Yahoo reconciliation that writes to the same log, the coordinator that makes
each mutation atomic, and the simulations, ranking syncs and uploads around a
session. The weekly pools: an entry's cards under concurrent saves, feeds and locks,
the autosave of the browser tabs that edit them, their settings, and the proposals
and plans made for them. And what feeds and serves both: Yahoo imports, news and
public sources, source jobs, analyses, lineups, backups and the Codex runner.

## Running

    tlc -workers 2 -config MCDraftLog.cfg MCDraftLog
    tlapm DraftReconciliationProofs.tla

and so for each of the other modules named `…Proofs`. A module's check does not
include the proofs of the modules it extends. `PROJECT.json` lists every run with its
configuration, the properties it checks, the theorems and the source lines behind
each definition.

## The system

One FastAPI process with an APScheduler thread, one SQLite database in WAL mode,
an isolated Codex runner container and a React client. Synchronous handlers run
in threads; asynchronous ones interleave at their awaits; jobs run beside both.
Some guards are leases on files, for deployments with several worker processes.

| Component | State it keeps | Operations | Hard behaviour | Module |
|---|---|---|---|---|
| Draft board and reducer (`draft/reducer.py`) | none; derives the board | `reduce_picks`, `snake_team_slot` | chains of reversals and replacements | `DraftBoard` |
| Draft session (`draft/session.py`) | status, geometry, event log, bound inputs, league roster | create, setup, bind inputs, start/pause/resume/complete/abandon/reopen, record, undo, replace | long legal sequences, early completion, publication after commit | `DraftLog` |
| Mock opponents (`draft/mock.py`) | none | one automatic pick | running out of ranked players | `DraftLog` |
| Advice (`draft/recommendations.py`) | one snapshot per sequence and input | publish, read | second commit, publication races | `DraftLog` |
| Mutation coordinator (`draft/events.py`) | per-session lock, SQLite reservation | every mutation | threads, retries, lost replies, busy timeouts, crashes | `DraftCoordinator` |
| Reconciliation (`draft/reconciliation.py`) | source mode, conflicts | sync batch, resolve, change mode | batches, repeated reports, dismissals, authority | `DraftReconciliation` |
| Ranking sync (`draft/router.py`) | rankings, the session's inputs | sync before and during a draft | state read before awaits | `RankingSync` |
| Input previews (`draft/inputs.py`) | previews, datasets | preview, commit | expiry, double commit, late writer | `DraftInputs` |
| Simulations (`draft/simulation.py`) | computation rows | enqueue, complete, recover | stale results, dead workers, restarts | `DraftSimulations` |
| Weekly pool cards (`services/pool_week.py`, `pool_outcomes.py`) | cards, versions, picks, results | save, stamp due games, settle | concurrent saves, kickoff locks, team usage | `PoolCard`, `PoolWeek` |
| Card autosave (`useLatestCardAutosave.ts`) | refs and timers of a tab | queue, pump, retry | lost replies, edits in flight | `PoolAutosave` |
| Game imports (`nflverse.py`, `live_scores.py`) | games, scores, locks | sync | moved kickoffs, late results | `PoolWeek` |
| Pool settings (`sleeper_pools.py`, `routes/pools.py`) | rules, entries | import, refresh, edit, delete | state read before awaits, rules under picks | `SleeperPools` |
| Pool analysis (`services/pool_analysis.py`) | runs with proposals | check in, analyse, apply | evidence, card and time after an await | `PoolAnalysis` |
| Pool advice (`decision.py`, `pool_strategy.py`) | none | recommend, plan a season | choices that compete, rules stated twice | `PoolAdvice` |
| Weekly lineups (`weekly_forecast.py`, `decision_freshness.py`) | none; reads imports | lineup, waivers, gate | optimality, locked and forced players, old imports | `WeeklyLineup` |
| Yahoo scraper (`yahoo_scraper.py`) | players, import records, cooldown | import, compare, live results | rosters that move, one throttle for all | `YahooSync` |
| News (`news.py`, `providers.py`, `push.py`) | items, labels, alerts, etags | fetch, classify, notify | overlapping fetches, labels awaited | `NewsFeed` |
| Public sources (`football_sources.py`) | snapshots | refresh, read evidence | several processes, failed downloads | `SourceCache` |
| Source jobs (`scheduler.py`, `job_locks.py`) | job rows, leases | run, stop, recover | overlapping workers, retry times, restarts | `SourceJobs` |
| Analyses (`league_analysis.py`, `injury_report.py`) | run rows, tasks | start, execute, recover | one active run, recovery by another worker | `Analyses` |
| Backups (`backups.py`) | snapshot files | create, prune, restore | concurrent threads, partial failure | `Backups` |
| Recovery bundles (`operations/recovery.py`) | one archive, one directory | create, restore | a stop between two steps | `RecoveryBundle` |
| Codex runner (`codex_runner/runner.py`) | login session and task, lock, credentials | log in, poll, run | awaits, process death, timeouts | `CodexRunner` |
| Numeric forecasts, prompts, HTTP plumbing, client | little of their own | | not modelled, see below | |

Components interact through database rows and direct calls. The draft session is
where most meet: handlers, mock picks, ranking sync and Yahoo sync all append to
one log under one coordinator, and `current_sequence` is their concurrency
boundary. Pool cards are the other such place: tabs, applied proposals and rule
changes meet in `save_weekly_card`, and the version of a week is their boundary.

What makes each correct, in one line: the **board** is an ordered, gap-free,
duplicate-free reduction of the log; the **session**'s columns can be replayed
from it; the **coordinator** enters each request once and tells the truth about
it; **reconciliation** loses no report, applies only what is safe and respects
the owner's decisions; a **started draft** changes by its events only; a
**simulation** or **dataset** is of the inputs it names; a **card** is one
version's picks, locked at kickoff and within the pool's usage rules; a **pool**
has the rules its picks were judged by; a **proposal** is applied only to what
it was built on; **advice** is legal, and no other is better; an **import** stores
only what was so at its source, and nothing begins before the time a source named;
a **job** or **analysis** has one live run, always ends, and is not failed by
another's recovery; a **backup** to return to is there; a **login** has one
process.

## Modules

| Module | Role |
|---|---|
| `DraftBoard` | pure part: events, snake order, the reducer |
| `DraftLog` | a session as its accepted operations |
| `DraftLogProofs`, `DraftReplayProofs` | theorems about `DraftLog`: its board and picks; what the log alone gives, rosters and opponents |
| `DraftReconciliation` | extends `DraftLog` with Yahoo's feed, keys, conflicts and batches |
| `DraftReconciliationProofs` | theorems about `DraftReconciliation` |
| `DraftLedger` | abstract promise of the coordinator |
| `DraftCoordinator` | threads, lock, transactions, keys, crashes; implements `DraftLedger` |
| `PoolCard` | pure part of the pools: locks, validation, grading |
| `PoolWeek` | an entry's cards: reads, saves, feeds, clock |
| `PoolWeekProofs` | theorems about `PoolWeek` |
| `PoolAutosave` | extends `PoolWeek` with browser tabs and their autosave |
| `PoolAutosaveProofs` | theorems about `PoolAutosave` |
| `DraftSimulations`, `RankingSync`, `DraftInputs` | what else works on a session: simulations, ranking syncs, uploads |
| `SleeperPools`, `PoolAnalysis`, `PoolAdvice` | a pool's settings, proposals for its cards, recommendations and plans |
| `WeeklyLineup` | lineups and waivers, and the imports they are made from |
| `YahooSync`, `NewsFeed`, `SourceCache` | what is downloaded |
| `SourceJobs`, `Analyses` | background work and its recovery |
| `Backups`, `RecoveryBundle`, `CodexRunner` | copies of the data, and the Codex container |
| `MCDraftLog`, `MCDraftReconciliation`, `MCPoolWeek`, `MCPoolAutosave` | small instances for TLC |
| `DraftServices` | the coordinator, simulations, ranking syncs and uploads of a draft, side by side |
| `DraftServicesProofs` | theorems about the coordinator and the others of `DraftServices` |
| `Services` | logins, source jobs, backups, bundles and analyses, side by side |
| `ServicesProofs` | theorems about `Services` |
| `Feeds` | downloads and the advice made from them, side by side |
| `FeedsProofs` | theorems about `Feeds` |
| `MCServices`, `MCFeeds` | small instances of several components side by side |

Each component's module has its state, one action per handler step between two
points where others can act (a statement or commit of a thread, an await of a
coroutine), its properties, and its own bounds and assumptions. The assumption of
a module that is instantiated side by side is a definition, `…Assumption`, which
the module that puts it beside others assumes.

### DraftBoard and DraftLog

`log` is the `draft_events` table of one session; an event's position is its
sequence and its id, so `current_sequence` is `Len(log)`. `board` is what the
handlers compute with `reduce_picks`; the handlers' own arithmetic (`len(picks)`,
the replaced pick) updates it in the model, and `BoardIsReduction` says that this
is what the reducer derives. `status`, `setup`, `sourceMode` and `inputs` are
columns of `DraftSession`, with an input snapshot reduced to its set of players.
`advice` is the latest sequence with a ready recommendation snapshot, and
`roster` is `Player.rostered_by`, with free agents and earlier imports apart.

Each action is one accepted request, its automatic completion and roster
projection included. Refused requests change nothing. Publication is
`PublishOrCrash`: the advice of the new sequence is there, or the process stopped
before the second commit. The opponent's choice (`select_opponent_player`) is any
available ranked and projected player. Only identified players can be entered by
hand. A snapshot is ready when it has candidates: undrafted players of the projection
whose position the owner does not have enough of (`Saturated`), where `DepthTarget`
is what the roster slots call for and `Needs` says which players would still improve
which lineups. Position minima of the readiness check, scores, names and reasons are
abstracted away; archiving and the player queue are left out.

### DraftReconciliation

Adds `feed` (the league's `draft_picks` rows), `keys` (the idempotency key of each
event) and `conflicts` (one row per report). `ReconcileObservations` is the whole
handler: the reports are folded in pick order into a batch of events, keys, board
and conflicts, then completion and publication. `AcceptConflict` and
`DismissConflict` are the two halves of `resolve_conflict`, and `SessionOperation`
is any step of `DraftLog` under a client's fresh key. A report's team is always
the snake team of its pick, as `_legacy_yahoo_observations` makes it.

### DraftLedger and DraftCoordinator

The coordinator model is one level below: a request is received, loads the
session, waits for the lock, begins immediately, checks key and sequence, commits
and publishes, with a possible stop, timeout or lost reply at each point. Rows
carry only key and sequence. The ledger is the promise made to clients: a key is
entered at most once, success is told only of what is entered and a conflict only
of what never will be. The refinement maps `entries` to the keys of the committed
rows. DraftLog's atomic steps are justified by it.

### PoolCard and PoolWeek

`PoolCard` holds the functions of `pool_week.py` and `pool_outcomes.py` that look
at games, picks and rules: when a pick is locked, which findings and conflicts a
requested card has, how saved picks are graded and when an entry is out.

`PoolWeek` is one entry of one pool. `games` is the season's games, `picks` the
`pool_picks` rows and `version` the `pool_entry_weeks` rows, 0 for none; `request`
holds the requests in progress, each with what its session has loaded; `saved` is
history. SQLite starts a transaction at a session's first write only, so a save
has a step that loads (`Put`), one from the claim to the commit (`Commit`, or one
of the refusals) and two reads for the reply (`ReadPicks`, `ReadVersion`), which a
plain read also makes. Loaded objects stay as loaded after the claim: `Seen` mixes
them with games read anew. `SyncSchedule` and `ApplyScoreboard` are the feeds'
writes to one game, `Tick` the clock; `Fail` is every way a request ends without
an answer.

Left out: creating, editing and deleting pools and entries, point spreads and
probabilities, legacy picks without a game, the `result` column (a copy of the
grading), recommendations and the overview.

### PoolAutosave

`tab` holds, per browser tab, the refs of `useLatestCardAutosave` (`version`,
`latest`, `dirty`, `timer`), its displayed state, the version of the page's data, and
whether that data lets the page be saved (`enabled`: the entry is not eliminated and
the week is configured). `Edit` is `queue`, `Send` the start of `pump`, `PumpInVain`
and `RetryInVain` its early returns, and `Reply`, `ReplyEliminated` and `ReplyLost` its
continuations. The server's side is `PoolWeek`, one request per tab. Tabs stay on one
week.

### Around a draft: DraftSimulations, RankingSync, DraftInputs

`DraftSimulations` has the rows (`run`), the queue of the completing thread
(`pending`, `thread`), the one playout process (`playouts`, `broken`) and the
draft's sequence. `Begin`, `Submit`, `ReadDraft` and `Publish` are the statements
of `_complete_simulation` with commits and reads apart, so that picks come between
any two. `RankingSync` has the session's status, sequence and ranking, and the
sync with what it read: `SyncDraftRankings` is the handler up to its first await,
`BindRankingToSession` and `BindLiveRanking` what follows the last one. A write by
the ORM writes only columns that differ from what was loaded; the model does that
too. `DraftInputs` has previews and datasets and threads whose reads precede their
transactions; a unique constraint covers projections' contents only.

### Background work: SourceJobs, Analyses

`SourceJobs` is one source: `rows` are its `JobRun`s, `deployed` the workers,
`task` what each is executing. A lease (`job_lock`) is held exactly by a task in
progress, and a crash frees it. `Analyses` has league analyses (`league`,
`leagueTask`) and runs of the analyst and injury checks (`run`, `runTask`), each a
row and the task that executes it, and the lifespan of each worker, whose startup
recovers what seems to be left over. Tasks are of a worker (`by`), and vanish with
it.

### Copies: Backups, RecoveryBundle

Files of `Backups` are the contents they were copied from, newest first by name;
`Torn` is a file under construction. Creating, pruning and replacing are steps of
threads (the nightly job, manual backups, restores). `RecoveryBundle` has creators
and restorers that may be killed between steps: opening the output exclusively,
writing it, removing it after an error; verifying into a staging directory and
moving piece by piece. `installed` has, for each piece in the output directory, the
restore that put it there; operators restore into a directory one after another.

### CodexRunner

`login` has a session's status and task, `current` the latest session, `request`
the handlers in progress with what they await. `Checked` is the answer of
`codex login status`, which can be false by timeout. Nothing is awaited between
the second look at the session and its replacement in `StartDeviceAuth`.

### Downloads: YahooSync, NewsFeed, SourceCache

In `YahooSync` an operation (`op`) reads a league page by page while `Move` changes
rosters at Yahoo; `roster` is what is stored, `credible` what it could have been
during the import that stored it, `cooldown` the newest of the rate-limit records
and `throttled` the latest time Yahoo asked for. `NewsFeed` has the source's page,
the stored items with labels, etag and alerts, readers that overlap (the collection,
manual fetches and check-ins, the first two of which push what is new at their end)
and a classification of batches. An alert's `shared` is history: two that push were
under way when it was stored. `SourceCache` has snapshots of editions, with the
download a request awaits outside any transaction.

### Advice: SleeperPools, PoolAnalysis, PoolAdvice, WeeklyLineup

`SleeperPools` has the remote league and the local pool, with its rules and its picks,
each with the rules it was judged by; those are the rules loaded with the entry
(`LoadCard`), before the save's claim. `overtaken` is history: the pool's rules were
changed while a card was loaded, or by an edit that had looked before the first pick.
`PoolAnalysis` has versions of card and evidence, check-ins that are reused while
young, the analyst's run and applicants that check, await and check again.
`PoolAdvice` and `WeeklyLineup` are mostly operators: the search the code makes
(residual paths in the flow of `pool_strategy._allocate`, with the exposure to the
picks that earlier entries' plans list; subsets of slots in `assign_lineup`) is
modelled as such, and its result compared with a definition by quantifiers over all
legal cards, plans and lineups. Probabilities are integers from a small set and the
logarithms of the costs a table.

## Runs

| Run | Shows |
|---|---|
| `draft_log` | all of DraftLog's properties, on live and automatic mock drafts of two teams and one round with three players, up to eight events, two input snapshots and either owner slot |
| `draft_reconciliation` | reconciliation properties on a followed live draft of two picks, one of which Yahoo first shows as a placeholder; three reports, five events |
| `draft_services` | the coordinator (two threads, two requests, two attempts each, a crash, an outside writer, a publishing reader) implements its ledger; results belong to their inputs; a started draft stands; attempts and simulations end |
| `pool_week` | two requests on two weeks (three games, the third between teams of the first two) of survivor pools with game and week locks and of a confidence pool; a game that may be postponed or moved, and lost |
| `pool_autosave` | two tabs on one week with two choices, three edits, a failure, a kickoff and a lost game, after which pages are read-only; safety, and settling of queued changes on pages that are not |
| `services` | device logins, source jobs, analyses, backups and bundles through crashes, timeouts and restarts: exclusion, what must be remembered, copies and installed pieces, recoveries, and that work ends |
| `feeds` | downloads and the advice made from them: what begins is spaced, credibility, old reads that lose, sound inputs, legal and best advice |
| `reconciliation_duplicate` | violated: one pick per player |
| `reconciliation_roster` | violated: a full live draft sets the roster |
| `ranking_sync` | violated: rankings are synchronized only before the draft starts |
| `pool_usage` | violated: saves respect the uses of prior weeks |
| `pool_overwrite` | violated: two tabs do not overwrite each other |

**Side by side.** `draft_services`, `services` and `feeds` check several components
in one run. `part` chooses one at the start and the others stay in their initial
state, so the states are the sum of the components' states, not the product: the
components share no state their properties are about. A property of such a run is
a conjunction of the components' own, which their modules state and explain; it
groups what answers one question. `DraftServices`, `Services` and `Feeds` leave
their constants open, so that the same properties are checked on an instance
(`MCServices`, `MCFeeds`) and proved for all.

**Bounds.** Two picks with three players are enough for a wrong order, a duplicate
and a hole; two teams make both owner positions occur, and eight events allow
complete–reopen–correct–complete (`MCRepeats`: three picks and three reversals, two
replacements, completions and reopenings, other events once). One player is of a
position without a slot, so that saturation occurs. More rounds change only `SnakeTeam`, whose role in
the invariants is proved for every geometry. In the reconciliation run, reports
include a correction of one pick and a second pick behind it; the session keeps
its inputs and always publishes (the `draft_log` run covers both), never returns
to manual mode, and holds at most two conflicts (the configuration's constraints
name these). Two threads make every two-party race; a third only waits for the
same lock. Two attempts under one key are a lost reply and its retry.
Deadlock is not checked where a session or a bounded history may simply be over.

In the pool run two requests make every race of a save with a save or a read, and
one entry suffices because entries share only the games. The constraints bound
two accepted saves in all (`TwoSaves`; a third would only repeat the replacement
of a saved card), and while both requests have loaded, neither the clock nor the
games have moved since (`OneRace`: a race of two saves, or of a save with the
feeds, not both). `UsefulRequests` drops steps that cannot matter to the
properties: reads that stamp nothing, claims that are stale twice over, failures
of the re-read. Cards include an empty one, invalid ones and ones that reuse a team
in the other week. In the autosave run `Narrowed` lets only the first tab fetch its
page again and ties the kickoff and the score to one of its saves.

The components side by side have two actors of each kind, one crash or restart (two
stops of a source job, so that a recovery is followed by another), and a clock that
reaches past the longest delay. Every bound is a `Max…` constant with its value in the
configuration or the MC module. Two simulations can wait while a third runs; three
source-job rows put a failure behind a shutdown; retention is two files of three; two
logins are one that is replaced. Three restrictions keep the runs small. `MCNext` of
`MCServices` has two league analyses or two analyst runs, not both: they share no row.
`OneTrouble` of `MCFeeds` has moving rosters, saved cookies or throttles, not two of
them: a throttle stops an import without storing anything. Its `MCNext` interleaves
imports with one forecast (`Sample`) and decides on all others, and `MCInit` starts
parts that are not exercised in one way. News has two manual fetches, which are
symmetric, and one check-in beside the collection; while the check-in fetches,
`MCFetches` has one manual fetch at most. A lineup has four players for a running
back's place and a flexible one, with negative and missing projections, an injured
player and locked starters; a season has two weeks of two games, every team twice, six
sets of rules, and two entries.

**Fairness.** `draft_log` assumes that an open draft room keeps reading advice
while the session is live: `DraftCockpit.tsx` polls every five seconds then, and
only then. `draft_services` assumes that each attempt's thread goes on when it can,
and the thread that completes simulations; SQLite's five-second `busy_timeout` means
no statement waits forever, and a playout is awaited for two seconds. Nothing is
assumed of the playout process: if it dies, what is queued behind it may stay
queued, so `SimulationsEnd` excepts a broken one. Attempts are bounded, so a thread
cannot be overtaken for ever at the lock. `pool_autosave` assumes of each tab that a
set timer goes off, a sent request is served, or fails, and its reply is handled;
nothing is assumed of the owner. `QueuedChangesSettle` excepts pages that have turned
read-only: the pump returns before it sends, and the page goes on saying that changes
are queued for as long as it is open. `services` assumes of a login its fifteen-minute
timeout, the answer of its status check and the end of a stopped process (`GoOn`),
not the owner's approval; of jobs that the clock goes on, the scheduler calls,
operations end (each download has a timeout) and a stopped worker is started again
(`restart: unless-stopped` of the compose file); of analyses the same for their
tasks and workers. `JobsEnd` is for one worker: with two, the recovery of one skips
a lease the other holds.

**Violations.** The violated claims are quotations of the design documents and of the
code; `PROJECT.json` quotes them. Two concern the reconciliation path, which repeats
parts of the manual path without all of its checks; for manual operations the same
properties are proved (`NoPlayerTwice`, `RosterAlwaysFollows`). Two concern reads
outside a transaction: a save decides on the other weeks' picks as they were before
its claim (`pool_usage`; grading still never counts a team too often,
`UsesThatCountAreLimited`), and a page can pair an old card with a new version
(`pool_overwrite`). One concerns an await: a ranking sync that began in the setup
writes the status it computed over that of a draft that has started meanwhile
(`ranking_sync`; without such an overlap `StartedDraftStands` holds, which the live
sync owes to looking again under the session's lock).

Some disagreements met while modelling have no run of their own, and the properties
that pass except them by name. A conflict can be resolved, and a batch applied, in a
session that is neither live nor paused (`draft-suite.md:490`); what results is still
sound (`ReconciledLogIsSound`). Two commits of one ranking preview can each make a
ranking (`draft-operations.md:69`); projections cannot (`ProjectionsCommitOnce`).
Where the playout process has died, the simulations behind it wait for a restart. A
lineup page reads the roster before the forecasts it awaits, so an import may overtake
it (`AdviceFromFreshRoster` excepts those). When the owner has enough of every
position that the projection has left, there is no candidate, no ready advice, and so,
until that changes, no owner pick (`draft-suite.md:465`; `AdviceEventuallyPublished`
says that advice comes wherever there is a candidate). A save judges its card by the
rules its pool had when the entry was loaded, before the claim, and not, as
`pool-week-workspace.md:248` and `sleeper_pools.py:274` say, by those it has then; and
an edit of a pool's settings looks for picks before it holds the writer, so it can
race the first save (`RulesFixedOncePicked` excepts both, as `overtaken`). A fetch of
news pushes every alert stored since it began, so one stored while two that push were
under way is pushed by both (`NotifiedOnce` excepts it). An import of Yahoo under way
goes on with its pages after another request was throttled (`ThrottlesKept` is about
what begins). A season plan looks at kickoffs, not at stamped locks, for pools locked
by the week, and where a team has two games in a week it may use the team in both,
which a save refuses (`PlanIsLegal` excepts such weeks).

## Proofs

`DraftLogProofs` proves, for every set of players, geometry, input snapshots and
bounds, that `Spec` implies:

* `TypesHold` – `[]TypeOK`;
* `BoardStaysInOrder` – `[]BoardInOrder`;
* `NoPlayerTwice` – `[]OnePickPerPlayer`;
* `OwnerPicksAreAdvised` – `[]OwnerPickAdvised`;
* `StartsAreFinal` and `BoardOnlyMovesInPlay`, together `PlayStaysOrderly` –
  the action property `PlayIsOrderly`.

The assumptions are the named `ASSUME`s of `DraftBoard` and `DraftLog`, which TLC
evaluates on each run. The argument is one inductive invariant, `IInv`: the type
invariant, `NothingBeforeStart` (an unstarted session has an empty log and an open
board, so that setup edits cannot re-deal recorded picks), `BoardInOrder`,
`OnePickPerPlayer` and `OwnerPickAdvised`. `BoardInOrder` is needed for
`OnePickPerPlayer`: only because the filled picks are `1..c` is the next pick open.
`NothingBeforeStart` is needed for `BoardInOrder` and `OwnerPickAdvised` under
`UpdateSetup`. Lemmas about the snake order, filled picks, and appending to, clearing
and replacing on a board come first; the induction step has one case per action.

`DraftReplayProofs` proves, under the same assumptions, that `Spec` implies:

* `BoardIsAlwaysReduction` – `[]BoardIsReduction`;
* `StatusAlwaysReplays` – `[]StatusIsReplayable`;
* `RosterAlwaysFollows` – `[]RosterFollowsBoard`;
* `OpponentsNeverStuck` – `[]OpponentNeverStuck`.

`BoardIsReduction` is an equation with a recursive function, and every operation
may add several events. The proof therefore speaks of any sequence of events: one
more event takes the boards of a reduction one step further (`AfterEvent`), a
reduction is unique, and `LogSound` holds of a log, a board and a status that
belong together. It says besides that a reversal supersedes an earlier event and
that a pick on the board names the event that made it; without these a reversal
could clear a pick the handlers do not clear. Induction is over sets of numbers
(`LeastNumber`, `CountingUp`), since the library's induction theorems take an
operator. `PlaySound` is the invariant: types, a board without gaps, `LogSound`.
For `RosterFollowsBoard` the roster is set only at completion and a completed board
cannot change. `OpponentNeverStuck` needs `RankingCovers`: what was checked at the
start (as many rankable players as picks) stands while the inputs do, and the
board, which has no hole, uses one player a pick.

`DraftReconciliationProofs` proves, for every set of reports and placeholders as
well, that `ReconciliationSpec` implies:

* `ReconciledLogStaysSound` – `[]ReconciledLogIsSound`;
* `DismissalsStand` – the action property `DismissalStands`;
* `SyncsApplySafely` – `[]SyncAppliesSafePicksOnly`;
* `SyncsLoseNoReport` – `[]SyncAccountsForReports`;
* `SyncsAreIdempotent` – `[]SyncIsIdempotent`.

The assumptions are those of `DraftLog`, `ReportsAssumption` and
`PlaceholdersAssumption`. The invariant `RInv` adds to `PlaySound` what keeps
idempotency keys apart: a key's position is that of its own event or, for
completions and resolutions, of an earlier one (`KeysPlaced`), and an open conflict
was detected after all earlier resolutions of its report (`ConflictsAreNew`), so
that settling it makes a new key. `OnePickPerPlayer` is not part of it, and is
false here (`reconciliation_duplicate`). A batch is a pass over the picks,
`BatchSound` what each report preserves. To say what a whole pass does to one pick,
the proof follows the batches of a pass (`Passes`) and shows that a report touches
only its own pick and its own conflict. Each of the last three theorems holds in
every state in which a sync could run. Idempotence is that a pass settles each report
(`SettledAt`), later reports of the same pass do not unsettle it, and a settled
report changes nothing.

`PoolWeekProofs` proves, for every schedule, feed, set of cards, rules and number
of concurrent requests:

* `TypesHold` – `[]TypeOK`;
* `ClaimsSeeTheirCards` – `[]ClaimSeesItsCard`;
* `StoredCardsWereAccepted` – `[]StoredCardIsTheOneAccepted`;
* `NoCardRepeats` – `[]CardsHaveNoRepeats`;
* `CountedUsesAreLimited` – `[]UsesThatCountAreLimited`;
* `LocksAreFinal` and `LockedPicksAreKept` – the two action properties.

The assumptions are `PoolCardAssumption` and `PoolWeekAssumption`. The inductive
invariant `CardInv` adds `ClaimsAreFresh` to the first four: a loaded save was
sent with a version that existed, and if its week still has that version, its
loaded card is the stored one. The order on versions is what makes this
inductive: a commit raises the version above every earlier claim of its week.
From there a commit's effect on its week is exact (`CommittedCards`: the locked
picks and the new rows), validation gives what the new rows need
(`AcceptedCard`), and the slot assignment gives the rest (`RowSlots`). Steps are
sorted into quiet ones, loads and commits (`StepKinds`), so that each invariant
has a case per kind; they are of the cards of any set (`EntryStep`), so that the
lemmas serve the tabs too. `UsesThatCountAreLimited` does not depend on how cards come
to be saved: of the picks of a team that count, the one with the most prior uses has
all others among them. It needs that an entry has finitely many picks
(`FinitePicks`).

`PoolAutosaveProofs` proves, for every number of tabs, edits and failures, that
`AutosaveSpec` implies:

* `SavedCardsWereAccepted` – `[]SavedMeansAccepted`;
* `TabsKeepCardsSound` – three of the invariants above, for the tabs' saves.

The assumption is `PoolAutosaveAssumption`. The invariant `AutosaveInv` is `CardInv`
and, per tab, `TabFits`: a card being shown was accepted, and a draft that is not
dirty is what was sent. This is why "saved" is right even for a save whose reply was
lost and whose retry finds its own card: the cards are compared in the reply.

`DraftServicesProofs` has two parts. The first proves, for every set of threads and
requests, every number of attempts and every number of crashes:

* `RequestsFound` – `[]RequestsFindTheirLog`;
* `LedgerImplemented` – `ImplementsLedger`, the refinement of `DraftLedger`.

The assumption is `CoordinatorAssumption`. The inductive invariant `RequestsInv`
has the types and three parts. `ThreadsUpToDate`: after `BEGIN IMMEDIATE`, what a
transaction read is current, because it alone writes (it holds the writer); an
appended event is new and expected; a thread past its commit has recorded its
request. `ExtendsWhatWasSeen` is needed so that a request's expectation cannot be
met a second time by an old event, and `AnswersTrue` (a success is recorded; a
conflict is not and expects a sequence that is over) makes the refinement: the
step that tells a conflict is a step of the ledger only because no later attempt
under that key can enter any more. `LedgerStep` maps each step: commits enter,
endings tell, all others stutter. The ledger has no fairness, so the theorem is
the whole refinement.

The second proves, for every number of runs, events, rankings, uploads, threads and
restarts:

* `DraftStandsOnceStarted` – the action property `StartedDraftStands`;
* `ResultsFound` – `[]ResultsAreOfTheirInputs`.

The assumptions are `RankingAssumption`, `SimulationsAssumption` and
`InputsAssumption`. `RankingInv`: a setup sync works beside a started draft only if
the draft was started over it, and what a live sync goes to bind is stored.
`SimsInv`: the row the thread executes is running, and its playouts ended between
the sequence they are of and the sequence read for publishing. `InputsInv`: there
is one dataset of projections per content, and whatever a preview names or a
thread is about to name is one with the preview's content.

`ServicesProofs` proves, for every set of requests, keys, workers, threads, pieces
and every number of rows, runs, restarts and crashes:

* `WorkDoneOnce` – `[]WorkIsExclusive`;
* `FailuresRemembered` – `[]FailuresAreRemembered`;
* `CopiesKeptSafe` – `CopiesStay`, invariants and an action property;
* `OutcomesKept` – the action property `OutcomesStand`.

The assumptions are the five `…Assumption`s of `Services`. Each component has an
inductive invariant that no step of another can touch (`…Only`), and `ServicesInv` is
their conjunction. `RunnerInv` says that a login waits just as long as its process is
watched or verified, and that one request at a time signs in with a key. `JobsInv`:
the run that is executed is the latest row, and none began in the future, so a new run
begins after every retry time the check passed. `CopiesInv`: a thread's copy is there
unless `Keep` later files are, and no other thread writes into its file, so what is
pruned is too old to be its copy. `BundleInv` gives the path to one writer and the
directory to one restore, whose pieces are the only ones there. `AnalysisInv` adds
what holds of a lone worker (`AloneSound`): what it executes is its own and is
running, and its startup still has to recover what died with its predecessor; a
recovery therefore fails nothing that is executed.

`FeedsProofs` proves, for every league, page, set of labels that alarm, pool, season,
roster and every number of requests, manual fetches, check-ins, applicants, restarts
and moves:

* `FetchesKeepDistance` – the action property `FetchesSpaced`;
* `StoredIsAsSent` – `[]StoredAsSent`;
* `StaleReadsAlwaysLose` – `StaleReadsLose`, an invariant and action properties;
* `AdviceIsSound` – `[]AdviceOnSoundInputs`;
* `AdviceAlwaysLegal` – `[]AdviceIsLegal`.

The assumptions are the seven `…Assumption`s of `Feeds`, and `FeedsInv` is the
conjunction of an invariant per part. `YahooInv`: no time Yahoo asked for lies beyond
the stored cooldown, and what an import saw of a player was so since it began; a
complete pass has seen everybody somewhere. `CacheInv`: one download is under way at a
time and no snapshot is newer than its edition, which is why a late answer cannot take
evidence back. `SleeperInv` types what requests carry across their awaits, and says
that picks and loaded cards have the pool's rules unless it is overtaken (`Judged`);
the rules stay because `save_import` looks again at what is stored once it has the
writer. `AnalysisInv`: applicants rely on completed runs, which do not change, and
what was applied is over a version that is gone, so no second proposal finds it.
`NewsInv`: a link has one item and a text one alert, so what a page or batch stores
`GoesOn` from what was there, and a reader that pushes finds nothing pushed behind the
alert it began with, but for shared alerts (`PushedOnce`); pages and batches are
recursions over their entries, followed one at a time (`StepsGood`). `LineupInv`: the
newest record tells when and how the stored roster was imported.

`SeasonInv` says that the plan is `Feasible`: a team a game, no more uses of a team
than the rules leave, no more picks in a week than it needs. Augmenting keeps it
since a path of `_allocate`'s search passes no node twice (`PathsSound`), so it
enters each game, week and team at most once and leaves what it enters: a game gets
the team it comes from in place of the one it gives back (`AfterOfGame`), and counts
change at the two ends only (`AfterOfWeek`, `AfterOfTeam`). That the recursive search
has values at all is proved by counting (`CountUpTo`, `StepsExist`). A feasible plan
uses no team up (`NotUsedUp`), and a card of allowed, open and unused picks beside the
saved ones is accepted (`CardAccepted`), which also gives the recommendations. The
theorem is about every plan on the way, not only the finished one.

The specification the theorems are about is the `Spec` of the composition. The
configurations of `services` and `feeds` check it from fewer initial states and under
a narrower next-state relation (`MCInit`, `MCNext`); the theorems have no such
restriction.

Only model-checked: all liveness, which needs fairness and `ENABLED`, and
`AdviceIsBest`. That no card, plan or lineup is better is a statement about sums over
sets and sequences, which folds compute; it takes induction over the data, and for the
plans the optimality of shortest augmenting paths. TLC compares the searches with
their definitions on every season and roster of the run. The five violated claims are
TLC's as well.

## Not modelled

Numeric forecasts (`weekly_model.py`, `player_points.py`, `nflverse_draft.py`, the
statistical half of `weekly_forecast.py`) are floating-point functions without
state. Prompt assembly, schema validation and calls of external models in
`providers.py` are wording and input/output; the states of the runs they belong to
are in `Analyses`, `NewsFeed` and `PoolAnalysis`. Parsing of pages, feeds and files
is abstracted to what it finds. Of `api.py`, `security.py` and `main.py` only the
routes and the startup of modelled services are; sign-in, sessions, request limits
and plain reads and writes of single rows are not. Archiving of drafts, the player
queue, creation of local pools, against-spread grading and the overview change
nothing the modelled properties are about. Presentation is left out, except the
autosave.
