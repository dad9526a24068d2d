---------------------------- MODULE SleeperPools ----------------------------
(***************************************************************************)
(* The settings of one pool (services/sleeper_pools.py, routes/pools.py):  *)
(* imports and refreshes that await Sleeper, the owner's own edits, card   *)
(* saves and deletions, on requests that overlap.                          *)
(***************************************************************************)
EXTENDS Integers, FiniteSets

CONSTANTS Requests,
          RuleSets,     \* the rule sets a pool can have
          Rosters,      \* the entries of the owner's on Sleeper
          Ids,          \* row ids; SQLite gives the id of a deleted row again
          MaxChanges    \* bound on the changes on Sleeper

SleeperPoolsAssumption == MaxChanges \in Nat /\ RuleSets # {} /\ Ids # {}

VARIABLES
    remote,     \* the pool on Sleeper: its rules and the owner's rosters
    changes,
    pool,       \* the row, or NoPool
    request     \* each handler

vars == <<remote, changes, pool, request>>

(* A pool has its rules; whether it is linked to Sleeper; the rosters that *)
(* have an entry; and their saved picks, each with, as history, the rules  *)
(* it was judged by.  overtaken is history as well: see WithRules and      *)
(* UpdatePool.                                                             *)
NoPool == [id |-> 0]

Picks == [entry : Rosters, rules : RuleSets]

Pools == [id : Ids, linked : BOOLEAN, rules : RuleSets, entries : SUBSET Rosters,
          picked : SUBSET Picks, overtaken : BOOLEAN]

Idle == [at |-> "idle"]

TypeOK ==
    /\ remote \in [rules : RuleSets, rosters : SUBSET Rosters]
    /\ changes \in 0..MaxChanges
    /\ pool \in Pools \cup {NoPool}
    /\ \A r \in Requests :
        request[r].at \in {"idle", "asked", "asking", "fetched", "updating", "saving"}

Exists == pool # NoPool

HasPicks == Exists /\ pool.picked # {}

Init ==
    /\ \E rules \in RuleSets, rosters \in SUBSET Rosters :
        remote = [rules |-> rules, rosters |-> rosters]
    /\ changes = 0
    /\ pool = NoPool
    /\ request = [r \in Requests |-> Idle]

-----------------------------------------------------------------------------
(* The commissioner changes the rules, or a roster changes hands.          *)
SleeperChanges ==
    /\ changes < MaxChanges
    /\ changes' = changes + 1
    /\ remote' \in [rules : RuleSets, rosters : SUBSET Rosters] \ {remote}
    /\ UNCHANGED <<pool, request>>

(* A row gets its rules, by its creation or later.  They overtake a card   *)
(* that was loaded with others, for a pool with this id, and not saved.    *)
WithRules(row, rules) ==
    [row EXCEPT !.rules = rules,
                !.overtaken = @ \/ \E r \in Requests : /\ request[r].at = "saving"
                                                     /\ request[r].id = row.id
                                                     /\ request[r].rules # rules]

NewPool(id, isLinked, rules, entries) ==
    WithRules([id |-> id, linked |-> isLinked, rules |-> rules, entries |-> entries,
               picked |-> {}, overtaken |-> FALSE], rules)

(* create_pool and create_entry: a pool of the owner's own.                *)
CreatePool ==
    /\ ~Exists
    /\ \E id \in Ids, rules \in RuleSets : pool' = NewPool(id, FALSE, rules, Rosters)
    /\ UNCHANGED <<remote, changes, request>>

(* Foreign keys take the entries and the picks along.                      *)
DeletePool ==
    /\ Exists
    /\ pool' = NoPool
    /\ UNCHANGED <<remote, changes, request>>

(* import_sleeper_pool expects no pool in particular, id 0;                *)
(* refresh_sleeper_pool the one it was called for.                         *)
Ask(r, id) == request' = [request EXCEPT ![r] = [at |-> "asked", id |-> id]]

ImportSleeperPool(r) ==
    /\ request[r].at = "idle"
    /\ Ask(r, 0)
    /\ UNCHANGED <<remote, changes, pool>>

RefreshSleeperPool(r) ==
    /\ request[r].at = "idle" /\ Exists /\ pool.linked
    /\ Ask(r, pool.id)
    /\ UNCHANGED <<remote, changes, pool>>

(* _rules reads the rules off the league's settings.                       *)
SleeperRules == remote.rules

(* preview_pool gets the league, then its users and rosters; any answer    *)
(* may be missing or invalid, or the rules unsupported.                    *)
GetLeague(r) ==
    /\ request[r].at = "asked"
    /\ request' = [request EXCEPT ![r] =
                      [at |-> "asking", id |-> request[r].id, rules |-> SleeperRules]]
    /\ UNCHANGED <<remote, changes, pool>>

GetRosters(r) ==
    /\ request[r].at = "asking"
    /\ request' = [request EXCEPT ![r] =
                      [at |-> "fetched", id |-> request[r].id, rules |-> request[r].rules,
                       rosters |-> remote.rosters]]
    /\ UNCHANGED <<remote, changes, pool>>

SleeperFails(r) ==
    /\ request[r].at \in {"asked", "asking"}
    /\ request' = [request EXCEPT ![r] = Idle]
    /\ UNCHANGED <<remote, changes, pool>>

(* The pool a fetch may be saved to: none of the Sleeper league yet, for   *)
(* an import only, or the one with the expected id.  The owner's own pool  *)
(* is not of that league; only one pool is modelled.                       *)
Expected(r) ==
    IF Exists THEN pool.linked /\ request[r].id \in {0, pool.id} ELSE request[r].id = 0

Save(r) ==
    LET got == request[r]
    IN  IF Exists
        THEN pool' = WithRules([pool EXCEPT !.entries = @ \cup got.rosters], got.rules)
        ELSE \E id \in Ids : pool' = NewPool(id, TRUE, got.rules, got.rosters)

(* Mutant: whether there are picks was looked up before the writer was     *)
(* reserved.                                                               *)
SaveUnchecked(r) ==
    /\ request[r].at = "fetched"
    /\ IF Expected(r) THEN Save(r) ELSE UNCHANGED pool
    /\ request' = [request EXCEPT ![r] = Idle]
    /\ UNCHANGED <<remote, changes>>

(* save_import reserves SQLite's writer, then looks at what is there.      *)
(* Entries that are gone on Sleeper stay.                                  *)
SaveImport(r) ==
    /\ request[r].at = "fetched"
    /\ IF Expected(r) /\ ~(HasPicks /\ pool.rules # request[r].rules)
       THEN Save(r) ELSE UNCHANGED pool
    /\ request' = [request EXCEPT ![r] = Idle]
    /\ UNCHANGED <<remote, changes>>

(* update_pool reads the pool and whether it has picks, and writes later,  *)
(* on a thread of its own.  The rules of a linked pool are Sleeper's.      *)
LoadPool(r) ==
    /\ request[r].at = "idle" /\ Exists
    /\ \E rules \in RuleSets :
        /\ rules # pool.rules => ~HasPicks /\ ~pool.linked
        /\ request' = [request EXCEPT ![r] =
                          [at |-> "updating", id |-> pool.id, rules |-> rules,
                           changed |-> rules # pool.rules, unpicked |-> ~HasPicks]]
    /\ UNCHANGED <<remote, changes, pool>>

(* Only columns that differ from what was loaded are written; the row may  *)
(* be gone, which fails the request.  Picks are not looked for again: it   *)
(* overtakes those that were saved since.                                  *)
UpdatePool(r) ==
    /\ request[r].at = "updating"
    /\ pool' = IF Exists /\ pool.id = request[r].id /\ request[r].changed
               THEN [WithRules(pool, request[r].rules) EXCEPT
                        !.overtaken = @ \/ (request[r].unpicked /\ HasPicks)]
               ELSE pool
    /\ request' = [request EXCEPT ![r] = Idle]
    /\ UNCHANGED <<remote, changes>>

(* save_weekly_card loads the entry with its pool, whose rules the card is *)
(* judged by, before it reserves the writer by its claim.                  *)
LoadCard(r) ==
    /\ request[r].at = "idle" /\ Exists
    /\ \E entry \in pool.entries :
        request' = [request EXCEPT ![r] =
                       [at |-> "saving", id |-> pool.id, entry |-> entry, rules |-> pool.rules]]
    /\ UNCHANGED <<remote, changes, pool>>

(* A card may remove picks, add some, or be refused.                       *)
SaveWeeklyCard(r) ==
    /\ request[r].at = "saving"
    /\ IF Exists /\ pool.id = request[r].id /\ request[r].entry \in pool.entries
       THEN LET pick == [entry |-> request[r].entry, rules |-> request[r].rules]
            IN \E kept \in SUBSET pool.picked, new \in SUBSET {pick} :
                 /\ \A p \in pool.picked : p.entry # pick.entry => p \in kept
                 /\ pool' = [pool EXCEPT !.picked = kept \cup new]
       ELSE UNCHANGED pool
    /\ request' = [request EXCEPT ![r] = Idle]
    /\ UNCHANGED <<remote, changes>>

Next ==
    \/ SleeperChanges \/ CreatePool \/ DeletePool
    \/ \E r \in Requests :
        \/ ImportSleeperPool(r) \/ RefreshSleeperPool(r) \/ GetLeague(r) \/ GetRosters(r)
        \/ SleeperFails(r) \/ SaveImport(r)
        \/ LoadPool(r) \/ UpdatePool(r) \/ LoadCard(r) \/ SaveWeeklyCard(r)

Spec == Init /\ [][Next]_vars

-----------------------------------------------------------------------------
(* Saved picks were judged by the rules that the pool has.                 *)
PicksJudgedByRules == Exists => \A p \in pool.picked : p.rules = pool.rules

RulesStand == pool'.rules = pool.rules /\ pool.entries \subseteq pool'.entries

(* The step is of an update_pool that found no picks when it looked.       *)
Overtaking ==
    \E r \in Requests :
        request[r].at = "updating" /\ request[r].changed /\ request[r].unpicked
            /\ request'[r] = Idle

Refreshed ==
    \E r \in Requests : request[r].at = "fetched" /\ request[r].id # 0 /\ request'[r] = Idle

(* Saved picks were judged by the rules their pool has, and it keeps these *)
(* rules and the entries of the picks, whatever Sleeper says since, as     *)
(* update_pool and save_import both say when they refuse; and no refresh   *)
(* brings a deleted pool back.  Excepted are a pool whose rules were       *)
(* changed, by anybody, while a card was loaded and not saved, and one     *)
(* whose rules an update_pool changed that had looked for picks before     *)
(* there were any (overtaken).                                             *)
RulesFixedOncePicked ==
    /\ [](Exists /\ ~pool.overtaken => PicksJudgedByRules)
    /\ [][/\ (HasPicks /\ ~Overtaking /\ Exists') => RulesStand
          /\ (~Exists /\ Exists') => ~Refreshed]_vars
=============================================================================
