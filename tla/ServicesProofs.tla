--------------------------- MODULE ServicesProofs ---------------------------
(***************************************************************************)
(* Proofs about what runs beside the requests: recovery bundles, device    *)
(* logins, source jobs, backups and analyses.  Each part has an inductive  *)
(* invariant of its own that the steps of the others leave alone.          *)
(***************************************************************************)
EXTENDS Services, SequenceTheorems, FiniteSetTheorems, TLAPS

(* Recovery bundles.  Who writes owns the path with a bundle that is not   *)
(* whole, pieces are moved from a whole one only, and while a restore      *)
(* reads or moves, what is in the directory is what it moved.              *)
BundleInv ==
    /\ Bundle!TypeOK /\ Bundle!BundlesSafe
    /\ \A c \in Creators : creator[c] = "writing" => bundle = [by |-> c, whole |-> FALSE]
    /\ \A r \in Restorers : restorer[r] = "moving" => bundle.whole
    /\ \A r \in Restorers :
          restorer[r] \in {"reading", "moving"} =>
             /\ \A p \in Pieces : installed[p] \in {r, "none"}
             /\ \A q \in Restorers \ {r} : restorer[q] \notin {"reading", "moving"}

(* Nobody writes a bundle or moves its pieces at first.                    *)
LEMMA BundleInit == Bundle!Init => BundleInv
BY DEF Bundle!Init, BundleInv, Bundle!TypeOK, Bundle!BundlesSafe, Bundle!NoBundle,
       Bundle!DirectoryEmpty

(* The steps of creating a bundle, its failures included                   *)
(* (recovery.py).                                                          *)
LEMMA CreatorKeeps ==
    ASSUME BundleInv, NEW c \in Creators, UNCHANGED <<restorer, installed>>,
           \/ Bundle!StartBundle(c) \/ Bundle!StagingFails(c) \/ Bundle!OpenOutput(c)
           \/ Bundle!WriteBundle(c) \/ Bundle!KillCreator(c)
    PROVE  BundleInv'
<1>. USE BundleAssumption DEF BundleInv, Bundle!RecoveryBundleAssumption, Bundle!TypeOK,
         Bundle!BundlesSafe, Bundle!DirectoryEmpty, Bundle!CreatorTo, Bundle!NoBundle
<1>1. CASE Bundle!StartBundle(c)
    BY <1>1 DEF Bundle!StartBundle
<1>2. CASE Bundle!StagingFails(c)
    BY <1>2 DEF Bundle!StagingFails
<1>3. CASE Bundle!OpenOutput(c)
    <2>1. CASE bundle = Bundle!NoBundle
        <3>1. /\ bundle' = [by |-> c, whole |-> FALSE]
              /\ creator' = [creator EXCEPT ![c] = "writing"]
            BY <1>3, <2>1 DEF Bundle!OpenOutput
        <3>2. /\ bundle.whole = FALSE /\ bundle.by = "none"
              /\ bundle'.whole = FALSE /\ bundle'.by = c
            BY <2>1, <3>1
        <3>3. /\ Bundle!DirectoryEmpty
              /\ \A d \in Creators : creator[d] \notin {"writing", "created"}
              /\ \A r \in Restorers : restorer[r] # "moving"
            BY <3>2
        <3>. QED
            BY <3>1, <3>3
    <2>2. CASE bundle # Bundle!NoBundle
        BY <1>3, <2>2 DEF Bundle!OpenOutput
    <2>. QED
        BY <2>1, <2>2
<1>4. CASE Bundle!WriteBundle(c)
    <2>1. /\ bundle = [by |-> c, whole |-> FALSE] /\ creator[c] = "writing"
          /\ bundle.by = c /\ bundle.whole = FALSE
        BY <1>4 DEF Bundle!WriteBundle
    <2>2. /\ \A d \in Creators \ {c} : creator[d] \notin {"writing", "created"}
          /\ \A r \in Restorers : restorer[r] # "moving"
          /\ Bundle!DirectoryEmpty
        BY <2>1
    <2>3. CASE /\ creator' = [creator EXCEPT ![c] = "created"]
               /\ bundle' = [bundle EXCEPT !.whole = TRUE]
        <3>1. bundle' = [by |-> c, whole |-> TRUE]
            BY <2>1, <2>3
        <3>. QED
            BY <2>2, <2>3, <3>1
    <2>4. CASE /\ creator' = [creator EXCEPT ![c] = "failed"]
               /\ bundle' = [by |-> "none", whole |-> FALSE]
        BY <2>2, <2>4
    <2>. QED
        BY <1>4, <2>3, <2>4 DEF Bundle!WriteBundle
<1>5. CASE Bundle!KillCreator(c)
    BY <1>5 DEF Bundle!KillCreator
<1>. QED
    BY <1>1, <1>2, <1>3, <1>4, <1>5

(* The steps of restoring from a bundle, its failures included.            *)
LEMMA RestorerKeeps ==
    ASSUME BundleInv, NEW r \in Restorers,
           \/ Bundle!StartRestore(r) \/ Bundle!VerifyBundle(r) \/ Bundle!MovePiece(r)
           \/ Bundle!KillRestorer(r)
    PROVE  BundleInv'
<1>. USE BundleAssumption DEF BundleInv, Bundle!RecoveryBundleAssumption, Bundle!TypeOK,
         Bundle!BundlesSafe, Bundle!DirectoryEmpty, Bundle!RestorerTo
<1>1. CASE Bundle!StartRestore(r)
    BY <1>1 DEF Bundle!StartRestore
<1>2. CASE Bundle!VerifyBundle(r)
    BY <1>2 DEF Bundle!VerifyBundle
<1>3. CASE Bundle!MovePiece(r)
    BY <1>3 DEF Bundle!MovePiece
<1>4. CASE Bundle!KillRestorer(r)
    BY <1>4 DEF Bundle!KillRestorer
<1>. QED
    BY <1>1, <1>2, <1>3, <1>4

(* Every step keeps the bundles' inductive invariant.                      *)
LEMMA BundleKept ==
    ASSUME BundleInv, [Bundle!Next]_(Bundle!vars)
    PROVE  BundleInv'
<1>1. CASE UNCHANGED Bundle!vars
    BY <1>1 DEF Bundle!vars, BundleInv, Bundle!TypeOK, Bundle!BundlesSafe, Bundle!DirectoryEmpty
<1>2. ASSUME NEW c \in Creators,
             \/ Bundle!StartBundle(c) \/ Bundle!StagingFails(c) \/ Bundle!OpenOutput(c)
             \/ Bundle!WriteBundle(c) \/ Bundle!KillCreator(c)
      PROVE  BundleInv'
    <2>1. UNCHANGED <<restorer, installed>>
        BY <1>2 DEF Bundle!StartBundle, Bundle!StagingFails, Bundle!OpenOutput,
                    Bundle!WriteBundle, Bundle!KillCreator
    <2>. QED
        BY <1>2, <2>1, CreatorKeeps
<1>. QED
    BY <1>1, <1>2, RestorerKeeps DEF Bundle!Next

(* A step of the composition is a step on bundles or leaves them alone.    *)
LEMMA BundleOnly ==
    ASSUME [Next]_vars PROVE [Bundle!Next]_(Bundle!vars)
BY DEF Next, vars, RunnerStep, JobStep, BackupStep, BundleStep, AnalysisStep, bundleVars,
       Bundle!vars

-----------------------------------------------------------------------------
(* Device logins.  A login waits just as long as its process is watched or *)
(* verified.                                                               *)
RunnerInv ==
    /\ Runner!TypeOK /\ Runner!OneWatchedLogin
    /\ \A q, r \in Requests :
         request[q].at = "loggingIn" /\ request[r].at = "loggingIn" => q = r
    /\ \A s \in Runner!Logins :
         login[s].task \in {"watching", "verifying"} <=> login[s].status \in Runner!Waiting

(* No login waits before the first request.                                *)
LEMMA RunnerInit == Runner!Init => RunnerInv
<1>. SUFFICES ASSUME Runner!Init PROVE RunnerInv
    OBVIOUS
<1>1. /\ Runner!NoLogin \in Runner!LoginStates /\ Runner!NoLogin.task = "none"
      /\ Runner!NoRequest \in Runner!RequestStates /\ Runner!NoRequest.at = "idle"
    BY DEF Runner!NoLogin, Runner!NoRequest, Runner!LoginStates, Runner!RequestStates
<1>2. Runner!NoLogin.status \notin Runner!Waiting
    BY DEF Runner!NoLogin, Runner!Waiting
<1>. QED
    BY <1>1, <1>2, RunnerAssumption
       DEF Runner!Init, RunnerInv, Runner!TypeOK, Runner!OneWatchedLogin, Runner!LoginWaits,
           Runner!CodexRunnerAssumption

(* The states of a request and of a login, and the bounds.                 *)
LEMMA RunnerTyped ==
    ASSUME RunnerInv
    PROVE  /\ \A r \in Requests : request[r] \in Runner!RequestStates
           /\ \A s \in Runner!Logins : login[s] \in Runner!LoginStates
           /\ Runner!NoLogin \in Runner!LoginStates /\ Runner!NoLogin.task = "none"
           /\ Runner!NoRequest \in Runner!RequestStates /\ Runner!NoRequest.at = "idle"
           /\ MaxLogins \in Nat /\ MaxRestarts \in Nat /\ Runner!Logins = 1..MaxLogins
           /\ current \in 0..MaxLogins
           /\ credentials \in Keys \cup {NoKey, ChatGPT} /\ lastKey \in Keys \cup {NoKey}
           /\ ChatGPT \notin Keys \cup {NoKey}
BY RunnerAssumption
   DEF RunnerInv, Runner!TypeOK, Runner!CodexRunnerAssumption, Runner!NoLogin, Runner!NoRequest,
       Runner!LoginStates, Runner!RequestStates, Runner!Logins

(* A handler goes on, and the logins stay as they are.                     *)
LEMMA RequestMoves ==
    ASSUME RunnerInv, NEW r \in Requests, NEW q \in Runner!RequestStates,
           request' = [request EXCEPT ![r] = q], UNCHANGED <<current, login, restarts>>,
           credentials' \in Keys \cup {NoKey, ChatGPT}, lastKey' \in Keys \cup {NoKey},
           q.at = "loggingIn" => \A u \in Requests : request[u].at # "loggingIn"
    PROVE  RunnerInv'
<1>1. /\ request' \in [Requests -> Runner!RequestStates] /\ request'[r] = q
      /\ \A u \in Requests \ {r} : request'[u] = request[u]
    BY DEF RunnerInv, Runner!TypeOK
<1>2. Runner!TypeOK'
    BY <1>1 DEF RunnerInv, Runner!TypeOK
<1>3. \A u, v \in Requests :
         request'[u].at = "loggingIn" /\ request'[v].at = "loggingIn" => u = v
    BY <1>1 DEF RunnerInv
<1>. QED
    BY <1>2, <1>3 DEF RunnerInv, Runner!OneWatchedLogin, Runner!LoginWaits

(* A request reaches the runner; the ones that change the sign-in take     *)
(* its lock.                                                               *)
LEMMA ReceiveKeeps ==
    ASSUME RunnerInv, NEW r \in Requests, Runner!Receive(r) PROVE RunnerInv'
<1>1. PICK op \in {"start", "poll", "models", "run", "local"}, key \in Keys \cup {NoKey},
           at \in {"checking", "working", "locked"} :
         request' = [request EXCEPT ![r] = [op |-> op, key |-> key, at |-> at]]
    BY DEF Runner!Receive, Runner!EnsureLogin
<1>. DEFINE q == [op |-> op, key |-> key, at |-> at]
<1>2. q \in Runner!RequestStates /\ q.at # "loggingIn"
    BY DEF Runner!RequestStates
<1>3. UNCHANGED <<credentials, lastKey, current, login, restarts>>
    BY DEF Runner!Receive
<1>. HIDE DEF q
<1>. QED
    BY <1>1, <1>2, <1>3, RunnerTyped, RequestMoves DEF q

(* The states a handler moves to.                                          *)
LEMMA RequestAt ==
    ASSUME RunnerInv, NEW r \in Requests,
           NEW place \in {"locked", "loggingIn", "checking", "watching", "rechecking",
                          "working"},
           Runner!MoveTo(r, place)
    PROVE  \E q \in Runner!RequestStates : q.at = place /\ request' = [request EXCEPT ![r] = q]
<1>. DEFINE q == [request[r] EXCEPT !.at = place]
<1>1. q \in Runner!RequestStates /\ q.at = place
    BY RunnerTyped DEF Runner!RequestStates
<1>2. request' = [request EXCEPT ![r] = q]
    BY DEF RunnerInv, Runner!TypeOK, Runner!MoveTo
<1>. QED
    BY <1>1, <1>2

(* A handler moves within its request, or ends it.                         *)
LEMMA ServedKeeps ==
    ASSUME RunnerInv, NEW r \in Requests, UNCHANGED <<current, login, restarts>>,
           credentials' \in Keys \cup {NoKey, ChatGPT}, lastKey' \in Keys \cup {NoKey},
           \/ Runner!End(r) \/ Runner!MoveTo(r, "checking") \/ Runner!MoveTo(r, "rechecking")
           \/ Runner!MoveTo(r, "watching") \/ Runner!MoveTo(r, "working")
           \/ Runner!MoveTo(r, "loggingIn") /\ \A u \in Requests : request[u].at # "loggingIn"
    PROVE  RunnerInv'
<1>1. CASE Runner!End(r)
    BY <1>1, RunnerTyped, RequestMoves DEF Runner!End
<1>2. ASSUME NEW place \in {"checking", "rechecking", "watching", "working", "loggingIn"},
             Runner!MoveTo(r, place),
             place = "loggingIn" => \A u \in Requests : request[u].at # "loggingIn"
      PROVE  RunnerInv'
    <2>1. PICK q \in Runner!RequestStates :
             q.at = place /\ request' = [request EXCEPT ![r] = q]
        BY <1>2, RequestAt
    <2>. QED
        BY <1>2, <2>1, RequestMoves
<1>. QED
    BY <1>1, <1>2

(* A login changes, and the handlers stay as they are.                     *)
LEMMA LoginMoves ==
    ASSUME RunnerInv, NEW s \in Runner!Logins, NEW l \in Runner!LoginStates,
           login' = [login EXCEPT ![s] = l], UNCHANGED <<lastKey, current, restarts>>,
           credentials' \in Keys \cup {NoKey, ChatGPT},
           request' \in [Requests -> Runner!RequestStates],
           \A u \in Requests : request'[u].at = "loggingIn" => request[u].at = "loggingIn",
           l.task \in {"watching", "verifying"} <=> l.status \in Runner!Waiting,
           l.task \in {"watching", "verifying"} => login[s].task \in {"watching", "verifying"}
    PROVE  RunnerInv'
<1>1. /\ login' \in [Runner!Logins -> Runner!LoginStates] /\ login'[s] = l
      /\ \A v \in Runner!Logins \ {s} : login'[v] = login[v]
    BY DEF RunnerInv, Runner!TypeOK
<1>2. Runner!TypeOK'
    BY <1>1 DEF RunnerInv, Runner!TypeOK
<1>3. Runner!OneWatchedLogin'
    BY <1>1, RunnerTyped DEF RunnerInv, Runner!OneWatchedLogin, Runner!LoginWaits
<1>. QED
    BY <1>1, <1>2, <1>3 DEF RunnerInv

(* A request that has the lock is served: the login before it is           *)
(* cancelled.                                                              *)
LEMMA ServeKeeps ==
    ASSUME RunnerInv, NEW r \in Requests, Runner!Serve(r) PROVE RunnerInv'
<1>1. CASE Runner!TakeLoginLock(r)
    BY <1>1, RunnerTyped, ServedKeeps DEF Runner!TakeLoginLock, Runner!At
<1>2. CASE Runner!KeyLoginSucceeds(r) \/ Runner!KeyLoginFails(r)
    <2>1. request[r].key \in Keys \cup {NoKey}
        BY RunnerTyped DEF Runner!RequestStates
    <2>2. /\ credentials' \in Keys \cup {NoKey, ChatGPT} /\ lastKey' \in Keys \cup {NoKey}
          /\ UNCHANGED <<current, login, restarts>>
          /\ Runner!End(r) \/ Runner!MoveTo(r, "checking")
        BY <1>2, <2>1, RunnerTyped DEF Runner!KeyLoginSucceeds, Runner!KeyLoginFails
    <2>. QED
        BY <2>2, ServedKeeps
<1>3. CASE Runner!StartDeviceAuth(r)
    <2>1. CASE UNCHANGED <<current, login>> /\ (Runner!End(r) \/ Runner!MoveTo(r, "rechecking"))
        BY <1>3, <2>1, RunnerTyped, ServedKeeps DEF Runner!StartDeviceAuth
    <2>2. CASE /\ ~Runner!LoginWaits /\ current < MaxLogins /\ current' = current + 1
               /\ login' = [login EXCEPT ![current'] = [status |-> "starting",
                                                        task |-> "watching"]]
               /\ Runner!MoveTo(r, "watching")
        <3>. DEFINE l == [status |-> "starting", task |-> "watching"]
        <3>1. /\ l \in Runner!LoginStates /\ l.status \in Runner!Waiting /\ l.task = "watching"
            BY DEF Runner!LoginStates, Runner!Waiting
        <3>. HIDE DEF l
        <3>2. current' \in Runner!Logins /\ current' # 0
            BY <2>2, RunnerTyped
        <3>3. /\ login' \in [Runner!Logins -> Runner!LoginStates] /\ login'[current'] = l
              /\ \A v \in Runner!Logins \ {current'} : login'[v] = login[v]
            BY <2>2, <3>1, <3>2 DEF RunnerInv, Runner!TypeOK, l
        <3>4. \A v \in Runner!Logins : login[v].task \notin {"watching", "verifying"}
            <4>1. \A v \in Runner!Logins : login[v].task \in {"watching", "verifying"} =>
                     v = current /\ login[v].status \in Runner!Waiting /\ v # 0
                BY RunnerTyped DEF RunnerInv, Runner!OneWatchedLogin
            <4>. QED
                BY <2>2, <4>1 DEF Runner!LoginWaits
        <3>5. PICK q \in Runner!RequestStates :
                 q.at = "watching" /\ request' = [request EXCEPT ![r] = q]
            BY <2>2, RequestAt
        <3>6. /\ request' \in [Requests -> Runner!RequestStates] /\ request'[r] = q
              /\ \A u \in Requests \ {r} : request'[u] = request[u]
            BY <3>5 DEF RunnerInv, Runner!TypeOK
        <3>7. UNCHANGED <<credentials, lastKey, restarts>>
            BY <1>3 DEF Runner!StartDeviceAuth
        <3>8. Runner!TypeOK'
            BY <3>2, <3>3, <3>6, <3>7, RunnerTyped DEF RunnerInv, Runner!TypeOK
        <3>9. Runner!OneWatchedLogin'
            BY <3>1, <3>2, <3>3, <3>4 DEF Runner!OneWatchedLogin, Runner!LoginWaits
        <3>. QED
            BY <3>1, <3>3, <3>4, <3>5, <3>6, <3>8, <3>9 DEF RunnerInv
    <2>. QED
        BY <1>3, <2>1, <2>2 DEF Runner!StartDeviceAuth
<1>4. CASE Runner!StopWatching(r) \/ Runner!StartWork(r) \/ Runner!FinishWork(r)
    BY <1>4, RunnerTyped, ServedKeeps DEF Runner!StopWatching, Runner!StartWork, Runner!FinishWork
<1>5. CASE Runner!CurrentDeviceLogin(r)
    <2>1. CASE UNCHANGED login
        BY <1>5, <2>1, RunnerTyped, ServedKeeps DEF Runner!CurrentDeviceLogin
    <2>2. CASE /\ current # 0 /\ login[current].status = "authenticated"
               /\ login' = [login EXCEPT ![current].status = "idle"]
        <3>. DEFINE l == [login[current] EXCEPT !.status = "idle"]
        <3>1. current \in Runner!Logins
            BY <2>2, RunnerTyped
        <3>2. login' = [login EXCEPT ![current] = l]
            BY <2>2, <3>1 DEF RunnerInv, Runner!TypeOK
        <3>3. l \in Runner!LoginStates /\ l.status = "idle" /\ l.task = login[current].task
            BY <3>1, RunnerTyped DEF Runner!LoginStates
        <3>. HIDE DEF l
        <3>4. l.task \notin {"watching", "verifying"} /\ l.status \notin Runner!Waiting
            BY <2>2, <3>1, <3>3 DEF RunnerInv, Runner!Waiting
        <3>5. UNCHANGED <<credentials, lastKey, current, restarts>> /\ Runner!End(r)
            BY <1>5 DEF Runner!CurrentDeviceLogin
        <3>6. /\ request' \in [Requests -> Runner!RequestStates]
              /\ \A u \in Requests : request'[u].at = "loggingIn" => request[u].at = "loggingIn"
            BY <3>5, RunnerTyped DEF RunnerInv, Runner!TypeOK, Runner!End
        <3>. QED
            BY <3>1, <3>2, <3>3, <3>4, <3>5, <3>6, RunnerTyped, LoginMoves
    <2>. QED
        BY <1>5, <2>1, <2>2 DEF Runner!CurrentDeviceLogin
<1>. QED
    BY <1>1, <1>2, <1>3, <1>4, <1>5 DEF Runner!Serve

(* The task of a device login watches its process and verifies the         *)
(* result: the login waits no longer when the task ends.                   *)
LEMMA RunDeviceLoginKeeps ==
    ASSUME RunnerInv, NEW s \in Runner!Logins, Runner!RunDeviceLogin(s) PROVE RunnerInv'
<1>1. /\ UNCHANGED <<lastKey, current, request, restarts>>
      /\ credentials' \in Keys \cup {NoKey, ChatGPT}
    BY RunnerTyped
       DEF Runner!RunDeviceLogin, Runner!ShowCode, Runner!Approve, Runner!Verify,
           Runner!LoginFails, Runner!Expire, Runner!StopProcess
<1>2. /\ request' \in [Requests -> Runner!RequestStates]
      /\ \A u \in Requests : request'[u].at = "loggingIn" => request[u].at = "loggingIn"
    BY <1>1 DEF RunnerInv, Runner!TypeOK
<1>3. login[s] \in Runner!LoginStates
    BY RunnerTyped
<1>4. login[s].task \in {"watching", "verifying"} <=> login[s].status \in Runner!Waiting
    BY DEF RunnerInv
<1>5. ASSUME NEW l \in Runner!LoginStates, login' = [login EXCEPT ![s] = l],
             l.task \in {"watching", "verifying"} <=> l.status \in Runner!Waiting,
             l.task \in {"watching", "verifying"} => login[s].task \in {"watching", "verifying"}
      PROVE  RunnerInv'
    BY <1>1, <1>2, <1>5, LoginMoves
<1>6. CASE Runner!ShowCode(s)
    <2>. DEFINE l == [login[s] EXCEPT !.status = "pending"]
    <2>1. l \in Runner!LoginStates /\ l.task = login[s].task /\ l.status \in Runner!Waiting
        BY <1>3 DEF Runner!LoginStates, Runner!Waiting
    <2>2. login' = [login EXCEPT ![s] = l] /\ login[s].task = "watching"
        BY <1>6 DEF Runner!ShowCode, RunnerInv, Runner!TypeOK
    <2>. HIDE DEF l
    <2>. QED
        BY <1>5, <2>1, <2>2
<1>7. CASE Runner!Approve(s)
    <2>. DEFINE l == [login[s] EXCEPT !.task = "verifying"]
    <2>1. l \in Runner!LoginStates /\ l.task = "verifying" /\ l.status = login[s].status
        BY <1>3 DEF Runner!LoginStates
    <2>2. login' = [login EXCEPT ![s] = l] /\ login[s].task = "watching"
        BY <1>7 DEF Runner!Approve, RunnerInv, Runner!TypeOK
    <2>. HIDE DEF l
    <2>. QED
        BY <1>4, <1>5, <2>1, <2>2
<1>8. CASE Runner!Verify(s) \/ Runner!LoginFails(s) \/ Runner!Expire(s)
    <2>1. PICK status \in {"authenticated", "error"}, place \in {"stopping", "ended"} :
             login' = [login EXCEPT ![s] = [status |-> status, task |-> place]]
        BY <1>8 DEF Runner!Verify, Runner!LoginFails, Runner!Expire
    <2>. DEFINE l == [status |-> status, task |-> place]
    <2>2. /\ l \in Runner!LoginStates /\ l.task \notin {"watching", "verifying"}
          /\ l.status \notin Runner!Waiting
        BY DEF Runner!LoginStates, Runner!Waiting
    <2>3. login' = [login EXCEPT ![s] = l]
        BY <2>1
    <2>. HIDE DEF l
    <2>. QED
        BY <1>5, <2>2, <2>3
<1>9. CASE Runner!StopProcess(s)
    <2>. DEFINE l == [login[s] EXCEPT !.task = "ended"]
    <2>1. l \in Runner!LoginStates /\ l.task = "ended" /\ l.status = login[s].status
        BY <1>3 DEF Runner!LoginStates
    <2>2. login' = [login EXCEPT ![s] = l] /\ login[s].task = "stopping"
        BY <1>9 DEF Runner!StopProcess, RunnerInv, Runner!TypeOK
    <2>. HIDE DEF l
    <2>. QED
        BY <1>4, <1>5, <2>1, <2>2
<1>. QED
    BY <1>6, <1>7, <1>8, <1>9 DEF Runner!RunDeviceLogin

(* Every step of the runner keeps its inductive invariant.                 *)
LEMMA RunnerKept ==
    ASSUME RunnerInv, [Runner!Next]_(Runner!vars)
    PROVE  RunnerInv'
<1>1. CASE UNCHANGED Runner!vars
    <2>1. UNCHANGED <<credentials, lastKey, current, login, request, restarts>>
        BY <1>1 DEF Runner!vars
    <2>. QED
        BY <2>1 DEF RunnerInv, Runner!TypeOK, Runner!OneWatchedLogin, Runner!LoginWaits
<1>2. CASE Runner!RemoveCredentials
    BY <1>2 DEF Runner!RemoveCredentials, RunnerInv, Runner!TypeOK, Runner!OneWatchedLogin,
                Runner!LoginWaits
<1>3. CASE Runner!Restart
    <2>1. /\ login' \in [Runner!Logins -> Runner!LoginStates]
          /\ \A s \in Runner!Logins : login'[s] = Runner!NoLogin
          /\ request' \in [Requests -> Runner!RequestStates]
          /\ \A r \in Requests : request'[r].at = "idle"
          /\ restarts' \in 0..MaxRestarts /\ lastKey' = NoKey /\ current' = 0
          /\ credentials' = credentials
        <3>1. restarts < MaxRestarts /\ restarts' = restarts + 1 /\ restarts \in 0..MaxRestarts
            BY <1>3 DEF Runner!Restart, RunnerInv, Runner!TypeOK
        <3>2. restarts' \in 0..MaxRestarts
            BY <3>1, RunnerTyped
        <3>. QED
            BY <1>3, <3>2, RunnerTyped DEF Runner!Restart
    <2>2. Runner!NoLogin.status \notin Runner!Waiting
        BY DEF Runner!NoLogin, Runner!Waiting
    <2>3. Runner!TypeOK'
        BY <2>1, RunnerTyped DEF Runner!TypeOK
    <2>4. Runner!OneWatchedLogin'
        BY <2>1, RunnerTyped DEF Runner!OneWatchedLogin, Runner!LoginWaits
    <2>. QED
        BY <2>1, <2>2, <2>3, <2>4, RunnerTyped DEF RunnerInv
<1>. QED
    BY <1>1, <1>2, <1>3, ReceiveKeeps, ServeKeeps, RunDeviceLoginKeeps DEF Runner!Next

(* A step of the composition is a step of the runner or leaves it alone.   *)
LEMMA RunnerOnly ==
    ASSUME [Next]_vars PROVE [Runner!Next]_(Runner!vars)
BY DEF Next, vars, RunnerStep, JobStep, BackupStep, BundleStep, AnalysisStep, runnerVars,
       Runner!vars

(* What instances call a cardinality is one.                               *)
LEMMA SameCardinality ==
    \A S : /\ Runner!Cardinality(S) = Cardinality(S) /\ Jobs!Cardinality(S) = Cardinality(S)
           /\ Copies!Cardinality(S) = Cardinality(S)
           /\ Analysis!Cardinality(S) = Cardinality(S)
BY DEF Runner!Cardinality, Jobs!Cardinality, Copies!Cardinality, Analysis!Cardinality, Cardinality

(* A set any two elements of which are equal has one element at most.      *)
LEMMA AtMostOne ==
    ASSUME NEW S, \A a, b \in S : a = b PROVE Cardinality(S) <= 1
<1>1. CASE S = {}
    BY <1>1, FS_EmptySet
<1>2. CASE S # {}
    <2>1. PICK a \in S : S = {a}
        BY <1>2
    <2>. QED
        BY <2>1, FS_Singleton
<1>. QED
    BY <1>1, <1>2

(* One request at a time signs in with a key.                              *)
LEMMA OneKeyLoginAtATime ==
    ASSUME RunnerInv PROVE Runner!OneKeyLogin
BY SameCardinality, AtMostOne DEF RunnerInv, Runner!OneKeyLogin, Runner!At

-----------------------------------------------------------------------------
(* Source jobs.  The run that is executed is the latest, and no run began  *)
(* in the future.                                                          *)
JobsInv ==
    /\ Jobs!TypeOK /\ Jobs!CooldownsHonoured
    /\ \A v, w \in JobWorkers : task[v] > 0 /\ task[w] > 0 => v = w
    /\ \A w \in JobWorkers : task[w] > 0 =>
         task[w] = Len(rows) /\ rows[task[w]].status = "running"
    /\ \A n \in DOMAIN rows : rows[n].started <= now

(* No job has run at first and every worker is down or idle.               *)
LEMMA JobsInit == Jobs!Init => JobsInv
<1>. SUFFICES ASSUME Jobs!Init PROVE JobsInv
    OBVIOUS
<1>1. MaxTime \in Nat /\ MaxStops \in Nat /\ Len(rows) = 0 /\ DOMAIN rows = {}
    BY JobsAssumption DEF Jobs!SourceJobsAssumption, Jobs!Init
<1>2. task \in [JobWorkers -> {0, -1}]
    BY DEF Jobs!Init, Jobs!Down
<1>3. Jobs!TypeOK
    BY <1>1, <1>2 DEF Jobs!Init, Jobs!TypeOK, Jobs!Down
<1>. QED
    BY <1>1, <1>2, <1>3 DEF Jobs!Init, JobsInv, Jobs!CooldownsHonoured

(* The bounds, and the fields of runs, have their types.                   *)
LEMMA JobsTyped ==
    ASSUME JobsInv
    PROVE  /\ MaxTime \in Nat /\ MaxStops \in Nat /\ MaxRows \in Nat
           /\ Cooldown \in Nat /\ LongRetry \in Nat /\ Interval \in Nat
           /\ now \in 0..MaxTime /\ stops \in 0..MaxStops /\ deployed \in SUBSET JobWorkers
           /\ rows \in Seq(Jobs!JobRuns) /\ Len(rows) \in Nat /\ DOMAIN rows = 1..Len(rows)
           /\ \A n \in DOMAIN rows : rows[n] \in Jobs!JobRuns /\ rows[n].started \in 0..MaxTime
                                     /\ rows[n].retry \in Nat
           /\ task \in [JobWorkers -> 0..Len(rows) \cup {-1}]
<1>1. /\ now \in 0..MaxTime /\ stops \in 0..MaxStops /\ deployed \in SUBSET JobWorkers
      /\ rows \in Seq(Jobs!JobRuns) /\ task \in [JobWorkers -> 0..Len(rows) \cup {-1}]
    BY DEF JobsInv, Jobs!TypeOK, Jobs!Down
<1>2. \A n \in DOMAIN rows : rows[n] \in Jobs!JobRuns
    BY <1>1, ElementOfSeq, LenProperties
<1>. QED
    BY <1>1, <1>2, JobsAssumption, LenProperties DEF Jobs!SourceJobsAssumption, Jobs!JobRuns

(* The clock goes on, or a worker that executes nothing appears or goes.   *)
LEMMA JobsIdle ==
    ASSUME JobsInv, UNCHANGED rows, deployed' \in SUBSET JobWorkers, now' \in 0..MaxTime,
           now' >= now, stops' \in 0..MaxStops, task' \in [JobWorkers -> 0..Len(rows) \cup {-1}],
           \A w \in JobWorkers : task'[w] > 0 => task'[w] = task[w]
    PROVE  JobsInv'
<1>1. Jobs!TypeOK'
    BY JobsTyped DEF Jobs!TypeOK, Jobs!Down
<1>. QED
    BY <1>1, JobsTyped DEF JobsInv, Jobs!CooldownsHonoured

(* A due job starts: its run is the latest, and none is executed beside    *)
(* it.                                                                     *)
LEMMA StartJobKeeps ==
    ASSUME JobsInv, NEW w \in JobWorkers, Jobs!StartJob(w) PROVE JobsInv'
<1>. DEFINE row == [status |-> "running", started |-> now, done |-> Jobs!Never, retry |-> 0]
<1>1. /\ rows' = Append(rows, row) /\ task' = [task EXCEPT ![w] = Len(rows')]
      /\ UNCHANGED <<deployed, now, stops>>
      /\ \A v \in JobWorkers : task[v] < 1
    BY DEF Jobs!StartJob, Jobs!LeaseFree
<1>2. row \in Jobs!JobRuns /\ row.status = "running" /\ row.started = now /\ row.retry = 0
    BY JobsTyped DEF Jobs!JobRuns
<1>. HIDE DEF row
<1>3. /\ rows' \in Seq(Jobs!JobRuns) /\ Len(rows') = Len(rows) + 1
      /\ rows'[Len(rows) + 1] = row /\ \A n \in 1..Len(rows) : rows'[n] = rows[n]
    BY <1>1, <1>2, JobsTyped, AppendProperties
<1>4. DOMAIN rows' = 1..(Len(rows) + 1)
    BY <1>3, LenProperties
<1>5. \A m \in DOMAIN rows : now >= rows[m].retry
    <2>1. ASSUME rows # <<>> PROVE Len(rows) \in DOMAIN rows /\ now >= rows[Len(rows)].retry
        BY <2>1, JobsTyped DEF Jobs!StartJob, Jobs!IsDue
    <2>2. ASSUME NEW m \in DOMAIN rows PROVE now >= rows[m].retry
        <3>1. CASE m = Len(rows)
            BY <2>1, <2>2, <3>1, JobsTyped
        <3>2. CASE m < Len(rows)
            <4>1. Len(rows) \in DOMAIN rows /\ m \in 1..(Len(rows) - 1)
                BY <2>2, <3>2, JobsTyped
            <4>2. rows[Len(rows)].started >= rows[m].retry /\ rows[Len(rows)].started <= now
                BY <4>1 DEF JobsInv, Jobs!CooldownsHonoured
            <4>. QED
                BY <2>2, <4>1, <4>2, JobsTyped
        <3>. QED
            BY <2>2, <3>1, <3>2, JobsTyped
    <2>. QED
        BY <2>2
<1>6. /\ task' \in [JobWorkers -> 0..Len(rows') \cup {-1}] /\ task'[w] = Len(rows) + 1
      /\ \A v \in JobWorkers \ {w} : task'[v] = task[v] /\ task[v] < 1
    BY <1>1, <1>3, JobsTyped
<1>7. Jobs!TypeOK'
    BY <1>1, <1>3, <1>6, JobsTyped DEF Jobs!TypeOK, Jobs!Down
<1>8. Jobs!CooldownsHonoured'
    <2>1. ASSUME NEW n \in DOMAIN rows', NEW m \in 1..(n - 1)
          PROVE  rows'[n].started >= rows'[m].retry
        <3>1. CASE n \in DOMAIN rows
            <4>1. n \in 1..Len(rows) /\ m \in 1..Len(rows)
                BY <3>1, JobsTyped
            <4>2. rows[n].started >= rows[m].retry
                BY <3>1 DEF JobsInv, Jobs!CooldownsHonoured
            <4>. QED
                BY <1>3, <4>1, <4>2
        <3>2. CASE n = Len(rows) + 1
            BY <1>1, <1>2, <1>3, <1>5, <3>2, JobsTyped
        <3>. QED
            BY <1>4, <3>1, <3>2, JobsTyped
    <2>. QED
        BY <2>1 DEF Jobs!CooldownsHonoured
<1>9. \A n \in DOMAIN rows' : rows'[n].started <= now'
    BY <1>1, <1>2, <1>3, <1>4, JobsTyped DEF JobsInv
<1>10. \A v \in JobWorkers : task'[v] > 0 => v = w
    BY <1>6, JobsTyped
<1>11. rows'[task'[w]].status = "running" /\ task'[w] = Len(rows')
    BY <1>2, <1>3, <1>6
<1>. QED
    BY <1>7, <1>8, <1>9, <1>10, <1>11 DEF JobsInv

(* The row of an executed run is saved when it ends.                       *)
LEMMA SavedKeeps ==
    ASSUME JobsInv, NEW w \in JobWorkers, task[w] > 0,
           NEW status \in {"completed", "skipped", "partial", "failed", "interrupted"},
           NEW retry \in Nat, Jobs!Save(w, status, retry), NEW free \in {0, -1},
           task' = [task EXCEPT ![w] = free], UNCHANGED <<deployed, now>>,
           stops' \in 0..MaxStops
    PROVE  JobsInv'
<1>. DEFINE last == rows[task[w]]
            row  == [[[last EXCEPT !.status = status] EXCEPT !.done = now]
                        EXCEPT !.retry = retry]
<1>1. task[w] = Len(rows) /\ Len(rows) \in DOMAIN rows
    BY JobsTyped DEF JobsInv
<1>2. last \in Jobs!JobRuns /\ last.started \in 0..MaxTime
    BY <1>1, JobsTyped
<1>3. row \in Jobs!JobRuns /\ row.started = last.started /\ row.retry = retry
    BY <1>2, JobsTyped DEF Jobs!JobRuns
<1>4. rows' = [rows EXCEPT ![Len(rows)] = row]
    BY <1>1, JobsTyped DEF Jobs!Save
<1>. HIDE DEF row, last
<1>5. /\ rows' \in Seq(Jobs!JobRuns) /\ Len(rows') = Len(rows)
      /\ \A n \in 1..Len(rows) : rows'[n] = IF n = Len(rows) THEN row ELSE rows[n]
    BY <1>1, <1>3, <1>4, JobsTyped, ExceptSeq
<1>6. DOMAIN rows' = DOMAIN rows
    BY <1>5, JobsTyped, LenProperties
<1>7. /\ \A n \in DOMAIN rows : rows'[n].started = rows[n].started
      /\ \A n \in DOMAIN rows : n < Len(rows) => rows'[n].retry = rows[n].retry
    <2>1. rows[Len(rows)].started = row.started
        BY <1>1, <1>3 DEF last
    <2>2. DOMAIN rows = 1..Len(rows) /\ Len(rows) \in Nat
        BY JobsTyped
    <2>3. \A n \in 1..Len(rows) : rows'[n] = IF n = Len(rows) THEN row ELSE rows[n]
        BY <1>5
    <2>4. ASSUME NEW n \in 1..Len(rows)
          PROVE  /\ rows'[n].started = rows[n].started
                 /\ n < Len(rows) => rows'[n].retry = rows[n].retry
        <3>1. CASE n = Len(rows)
            <4>1. rows'[n] = row
                BY <2>3, <3>1
            <4>2. ~(n < Len(rows))
                BY <2>2, <3>1
            <4>3. rows[n].started = row.started
                BY <2>1, <3>1
            <4>. QED
                BY <4>1, <4>2, <4>3
        <3>2. CASE n # Len(rows)
            BY <2>3, <3>2
        <3>. QED
            BY <3>1, <3>2
    <2>. QED
        BY <2>2, <2>4
<1>8. /\ task' \in [JobWorkers -> 0..Len(rows') \cup {-1}]
      /\ \A v \in JobWorkers : ~(task'[v] > 0)
    BY <1>5, JobsTyped DEF JobsInv
<1>9. Jobs!TypeOK'
    BY <1>5, <1>8, JobsTyped DEF Jobs!TypeOK, Jobs!Down
<1>10. Jobs!CooldownsHonoured'
    <2>1. ASSUME NEW n \in DOMAIN rows, NEW m \in 1..(n - 1)
          PROVE  rows'[n].started >= rows'[m].retry
        <3>1. m \in DOMAIN rows /\ m < Len(rows)
            BY JobsTyped
        <3>2. rows[n].started >= rows[m].retry
            BY DEF JobsInv, Jobs!CooldownsHonoured
        <3>. QED
            BY <1>7, <3>1, <3>2
    <2>. QED
        BY <1>6, <2>1 DEF Jobs!CooldownsHonoured
<1>. QED
    BY <1>6, <1>7, <1>8, <1>9, <1>10 DEF JobsInv

(* The worker ends its run with an outcome and the time to retry it.       *)
LEMMA FinishJobKeeps ==
    ASSUME JobsInv, NEW w \in JobWorkers, Jobs!FinishJob(w) PROVE JobsInv'
<1>1. /\ task[w] > 0 /\ task' = [task EXCEPT ![w] = 0] /\ UNCHANGED <<deployed, now, stops>>
    BY DEF Jobs!FinishJob
<1>2. PICK status \in {"completed", "skipped", "partial", "failed"}, retry \in Nat :
         Jobs!Save(w, status, retry)
    <2>1. now + Cooldown \in Nat /\ now + LongRetry \in Nat /\ now + 0 \in Nat
        BY JobsTyped
    <2>2. \A seconds \in {0, LongRetry} : Jobs!Later(seconds) \in Nat
        BY <2>1 DEF Jobs!Later
    <2>. QED
        BY <2>1, <2>2 DEF Jobs!FinishJob
<1>. QED
    BY <1>1, <1>2, JobsTyped, SavedKeeps

(* A shutdown interrupts the run of its worker, a crash leaves it running  *)
(* until the next startup.                                                 *)
LEMMA ShutdownKeeps ==
    ASSUME JobsInv, NEW w \in JobWorkers, Jobs!Shutdown(w) \/ Jobs!Crash(w) PROVE JobsInv'
<1>1. /\ stops' \in 0..MaxStops /\ task' = [task EXCEPT ![w] = -1] /\ UNCHANGED <<deployed, now>>
      /\ UNCHANGED rows \/ (task[w] > 0 /\ Jobs!Save(w, "interrupted", 0))
    BY JobsTyped DEF Jobs!Shutdown, Jobs!Crash, Jobs!Down
<1>2. CASE UNCHANGED rows
    <2>1. task' \in [JobWorkers -> 0..Len(rows) \cup {-1}]
        BY <1>1, JobsTyped
    <2>2. \A v \in JobWorkers : task'[v] > 0 => task'[v] = task[v]
        BY <1>1, JobsTyped
    <2>. QED
        BY <1>1, <1>2, <2>1, <2>2, JobsTyped, JobsIdle
<1>3. CASE task[w] > 0 /\ Jobs!Save(w, "interrupted", 0)
    BY <1>1, <1>3, SavedKeeps
<1>. QED
    BY <1>1, <1>2, <1>3

(* A startup interrupts the runs that nobody executes and keeps the        *)
(* distance a failure asked for.                                           *)
LEMMA RecoverJobsKeeps ==
    ASSUME JobsInv, NEW w \in JobWorkers, Jobs!RecoverSourceJobs(w) PROVE JobsInv'
<1>. DEFINE Now(n) == IF Jobs!LeaseFree /\ rows[n].status = "running"
                      THEN [rows[n] EXCEPT !.status = "interrupted", !.done = now] ELSE rows[n]
<1>1. /\ rows' = [n \in DOMAIN rows |-> Now(n)] /\ task' = [task EXCEPT ![w] = 0]
      /\ task[w] = -1 /\ UNCHANGED <<deployed, now, stops>>
    BY DEF Jobs!RecoverSourceJobs, Jobs!Down
<1>2. ASSUME NEW n \in DOMAIN rows
      PROVE  /\ Now(n) \in Jobs!JobRuns /\ Now(n).started = rows[n].started
             /\ Now(n).retry = rows[n].retry
             /\ ~Jobs!LeaseFree => Now(n) = rows[n]
    <2>1. rows[n] \in Jobs!JobRuns
        BY JobsTyped
    <2>. DEFINE e == [[rows[n] EXCEPT !.status = "interrupted"] EXCEPT !.done = now]
    <2>2. e \in Jobs!JobRuns /\ e.started = rows[n].started /\ e.retry = rows[n].retry
        BY <2>1, JobsTyped DEF Jobs!JobRuns
    <2>3. Now(n) = e \/ Now(n) = rows[n]
        OBVIOUS
    <2>. HIDE DEF e
    <2>4. ~Jobs!LeaseFree => Now(n) = rows[n]
        OBVIOUS
    <2>. HIDE DEF Now
    <2>. QED
        BY <2>1, <2>2, <2>3, <2>4
<1>. HIDE DEF Now
<1>3. /\ rows' \in Seq(Jobs!JobRuns) /\ Len(rows') = Len(rows) /\ DOMAIN rows' = DOMAIN rows
      /\ \A n \in DOMAIN rows : rows'[n] = Now(n)
    BY <1>1, <1>2, JobsTyped
<1>4. /\ task' \in [JobWorkers -> 0..Len(rows') \cup {-1}]
      /\ \A v \in JobWorkers : task'[v] > 0 => task'[v] = task[v]
    BY <1>1, <1>3, JobsTyped
<1>5. ASSUME NEW v \in JobWorkers, task'[v] > 0
      PROVE  task'[v] = Len(rows') /\ rows'[task'[v]].status = "running"
    <2>1. task'[v] = task[v] /\ task[v] > 0
        BY <1>4, <1>5
    <2>2. ~Jobs!LeaseFree
        BY <2>1, JobsTyped DEF Jobs!LeaseFree
    <2>3. task[v] = Len(rows) /\ rows[task[v]].status = "running" /\ task[v] \in DOMAIN rows
        BY <2>1, JobsTyped DEF JobsInv
    <2>. QED
        BY <1>2, <1>3, <2>1, <2>2, <2>3
<1>6. Jobs!TypeOK'
    BY <1>1, <1>3, <1>4, JobsTyped DEF Jobs!TypeOK, Jobs!Down
<1>7. Jobs!CooldownsHonoured'
    <2>1. ASSUME NEW n \in DOMAIN rows, NEW m \in 1..(n - 1)
          PROVE  rows'[n].started >= rows'[m].retry
        <3>1. m \in DOMAIN rows
            BY JobsTyped
        <3>. QED
            BY <1>2, <1>3, <3>1 DEF JobsInv, Jobs!CooldownsHonoured
    <2>. QED
        BY <1>3, <2>1 DEF Jobs!CooldownsHonoured
<1>8. \A n \in DOMAIN rows' : rows'[n].started <= now'
    BY <1>1, <1>2, <1>3 DEF JobsInv
<1>9. \A u, v \in JobWorkers : task'[u] > 0 /\ task'[v] > 0 => u = v
    BY <1>4 DEF JobsInv
<1>. QED
    BY <1>5, <1>6, <1>7, <1>8, <1>9 DEF JobsInv

(* Every step of the source jobs keeps their inductive invariant.          *)
LEMMA JobsKept ==
    ASSUME JobsInv, [Jobs!Next]_(Jobs!vars)
    PROVE  JobsInv'
<1>1. CASE UNCHANGED Jobs!vars
    <2>1. UNCHANGED <<deployed, now, rows, task, stops>>
        BY <1>1 DEF Jobs!vars
    <2>. QED
        BY <2>1, JobsTyped, JobsIdle
<1>2. CASE Jobs!Tick
    BY <1>2, JobsTyped, JobsIdle DEF Jobs!Tick
<1>. QED
    BY <1>1, <1>2, StartJobKeeps, FinishJobKeeps, ShutdownKeeps, RecoverJobsKeeps DEF Jobs!Next

(* A step of the composition is a step of the source jobs or leaves them   *)
(* alone.                                                                  *)
LEMMA JobsOnly ==
    ASSUME [Next]_vars PROVE [Jobs!Next]_(Jobs!vars)
BY DEF Next, vars, RunnerStep, JobStep, BackupStep, BundleStep, AnalysisStep, jobVars, Jobs!vars

(* One run of a source job is executed at a time.                          *)
LEMMA OneRunAtATime ==
    ASSUME JobsInv PROVE Jobs!OneLiveRun
BY SameCardinality, AtMostOne DEF JobsInv, Jobs!OneLiveRun

-----------------------------------------------------------------------------
(* Backups.  A thread keeps the copy it made until Keep later ones, and no *)
(* other thread writes into the file it made.                              *)
CopyStays(t) ==
    \/ keeper[t].own \in DOMAIN files /\ files[keeper[t].own] = keeper[t].saved
    \/ made - keeper[t].own >= Keep

CopiesInv ==
    /\ Copies!TypeOK
    /\ \A t \in Threads :
         /\ keeper[t].held # Torn
         /\ keeper[t].at = "opening" => keeper[t].chosen \in 1..made
         /\ keeper[t].at \in {"copying", "pruning", "replacing"} => keeper[t].own \in 1..made
         /\ keeper[t].at \in {"pruning", "replacing"} => CopyStays(t)
    /\ \A t, u \in Threads :
         t # u /\ keeper[t].at = "copying" /\ keeper[u].at \in {"copying", "pruning", "replacing"}
             => keeper[t].own # keeper[u].own

(* The bounds, the files and the threads' records have their types.        *)
LEMMA CopiesTyped ==
    ASSUME CopiesInv
    PROVE  /\ Keep \in Nat \ {0} /\ MaxFiles \in Nat /\ MaxWrites \in Nat /\ MaxCopyCrashes \in Nat
           /\ Empty # Torn /\ Empty \notin 0..MaxWrites /\ Torn \notin 0..MaxWrites
           /\ \A t \in Threads : keeper[t] \in Copies!ThreadStates
           /\ \A t \in Threads : keeper[t].own \in Nat /\ keeper[t].saved \in Copies!Contents
                                /\ keeper[t].held \in Copies!Contents
           /\ Copies!Idle \in Copies!ThreadStates /\ Copies!Idle.at = "idle"
           /\ Copies!Idle.held # Torn
           /\ database \in Copies!Contents \ {Torn} /\ writes \in 0..MaxWrites
           /\ made \in 0..MaxFiles /\ copyCrashes \in 0..MaxCopyCrashes
           /\ DOMAIN files \subseteq 1..made
           /\ \A f \in DOMAIN files : files[f] \in Copies!Contents
<1>1. /\ Keep \in Nat \ {0} /\ MaxFiles \in Nat /\ MaxWrites \in Nat /\ MaxCopyCrashes \in Nat
      /\ Empty # Torn /\ Empty \notin 0..MaxWrites /\ Torn \notin 0..MaxWrites
    BY CopiesAssumption DEF Copies!BackupsAssumption
<1>2. /\ Copies!Idle \in Copies!ThreadStates /\ Copies!Idle.at = "idle"
      /\ Copies!Idle.held # Torn
    BY <1>1 DEF Copies!Idle, Copies!ThreadStates, Copies!Contents
<1>3. \A t \in Threads : keeper[t] \in Copies!ThreadStates
    BY DEF CopiesInv, Copies!TypeOK
<1>4. \A t \in Threads : keeper[t].own \in Nat /\ keeper[t].saved \in Copies!Contents
                         /\ keeper[t].held \in Copies!Contents
    BY <1>1, <1>3 DEF Copies!ThreadStates
<1>5. /\ database \in Copies!Contents \ {Torn} /\ writes \in 0..MaxWrites
      /\ made \in 0..MaxFiles /\ copyCrashes \in 0..MaxCopyCrashes
      /\ DOMAIN files \subseteq 1..made
      /\ \A f \in DOMAIN files : files[f] \in Copies!Contents
    BY DEF CopiesInv, Copies!TypeOK, Copies!Range
<1>. QED
    BY <1>1, <1>2, <1>3, <1>4, <1>5

(* There are no copies at first, and the database is not torn.             *)
LEMMA CopiesInit == Copies!Init => CopiesInv
<1>. SUFFICES ASSUME Copies!Init PROVE CopiesInv
    OBVIOUS
<1>1. /\ Keep \in Nat \ {0} /\ MaxFiles \in Nat /\ MaxWrites \in Nat /\ MaxCopyCrashes \in Nat
      /\ Empty # Torn /\ Torn \notin 0..MaxWrites
    BY CopiesAssumption DEF Copies!BackupsAssumption
<1>2. /\ Copies!Idle \in Copies!ThreadStates /\ Copies!Idle.at = "idle"
      /\ Copies!Idle.held # Torn
    BY <1>1 DEF Copies!Idle, Copies!ThreadStates, Copies!Contents
<1>3. /\ DOMAIN files = {} /\ database \in Copies!Contents \ {Torn}
      /\ keeper \in [Threads -> Copies!ThreadStates]
      /\ \A t \in Threads : keeper[t].at = "idle" /\ keeper[t].held # Torn
    BY <1>1, <1>2 DEF Copies!Init, Copies!Contents
<1>4. Copies!TypeOK
    BY <1>1, <1>3 DEF Copies!Init, Copies!TypeOK, Copies!Range
<1>. QED
    BY <1>3, <1>4 DEF CopiesInv

(* What a step of thread t to the state h leaves: files and a database of  *)
(* their types, the copies of the others, and a copy of its own.           *)
FilesSound ==
    /\ database' \in Copies!Contents \ {Torn} /\ writes' \in 0..MaxWrites
    /\ made' \in 0..MaxFiles /\ made' >= made /\ DOMAIN files' \subseteq 1..made'
    /\ \A f \in DOMAIN files' : files'[f] \in Copies!Contents

OthersStay(t) ==
    \A u \in Threads \ {t} :
        keeper[u].at \in {"pruning", "replacing"} =>
            \/ keeper[u].own \in DOMAIN files' /\ files'[keeper[u].own] = keeper[u].saved
            \/ made' - keeper[u].own >= Keep

OwnSound(t, h) ==
    /\ h.held # Torn
    /\ h.at = "opening" => h.chosen \in 1..made'
    /\ h.at \in {"copying", "pruning", "replacing"} => h.own \in 1..made'
    /\ h.at \in {"pruning", "replacing"} =>
         \/ h.own \in DOMAIN files' /\ files'[h.own] = h.saved
         \/ made' - h.own >= Keep
    /\ \A u \in Threads \ {t} :
         /\ h.at = "copying" /\ keeper[u].at \in {"copying", "pruning", "replacing"} =>
              h.own # keeper[u].own
         /\ keeper[u].at = "copying" /\ h.at \in {"copying", "pruning", "replacing"} =>
              h.own # keeper[u].own

(* One thread moves to a state h, and the copies of the others stay.       *)
LEMMA KeeperMoves ==
    ASSUME CopiesInv, NEW t \in Threads, NEW h \in Copies!ThreadStates,
           keeper' = [keeper EXCEPT ![t] = h], UNCHANGED copyCrashes,
           FilesSound, OthersStay(t), OwnSound(t, h)
    PROVE  CopiesInv'
<1>1. /\ keeper' \in [Threads -> Copies!ThreadStates] /\ keeper'[t] = h
      /\ \A u \in Threads \ {t} : keeper'[u] = keeper[u]
    BY DEF CopiesInv, Copies!TypeOK
<1>2. Copies!TypeOK'
    BY <1>1, CopiesTyped DEF Copies!TypeOK, Copies!Range, FilesSound
<1>3. \A u \in Threads :
         /\ keeper'[u].held # Torn
         /\ keeper'[u].at = "opening" => keeper'[u].chosen \in 1..made'
         /\ keeper'[u].at \in {"copying", "pruning", "replacing"} => keeper'[u].own \in 1..made'
    <2>1. \A u \in Threads :
             /\ keeper[u].held # Torn
             /\ keeper[u].at = "opening" => keeper[u].chosen \in 1..made
             /\ keeper[u].at \in {"copying", "pruning", "replacing"} => keeper[u].own \in 1..made
        BY DEF CopiesInv
    <2>2. 1..made \subseteq 1..made'
        BY CopiesTyped DEF FilesSound
    <2>. QED
        BY <1>1, <2>1, <2>2 DEF OwnSound
<1>5. ASSUME NEW u \in Threads, keeper'[u].at \in {"pruning", "replacing"}
      PROVE  CopyStays(u)'
    <2>1. CASE u = t
        <3>1. keeper'[u] = h /\ h.at \in {"pruning", "replacing"}
            BY <1>1, <1>5, <2>1
        <3>2. \/ h.own \in DOMAIN files' /\ files'[h.own] = h.saved
              \/ made' - h.own >= Keep
            BY <3>1 DEF OwnSound
        <3>. QED
            BY <3>1, <3>2 DEF CopyStays
    <2>2. CASE u # t
        BY <1>1, <1>5, <2>2 DEF CopyStays, OthersStay
    <2>. QED
        BY <2>1, <2>2
<1>4. ASSUME NEW u \in Threads, NEW v \in Threads, u # v, keeper'[u].at = "copying",
             keeper'[v].at \in {"copying", "pruning", "replacing"}
      PROVE  keeper'[u].own # keeper'[v].own
    BY <1>1, <1>4 DEF CopiesInv, OwnSound
<1>. QED
    BY <1>2, <1>3, <1>4, <1>5 DEF CopiesInv

(* A thread that makes no file of its own moves, and no file changes.      *)
LEMMA KeeperWaits ==
    ASSUME CopiesInv, NEW t \in Threads, NEW h \in Copies!ThreadStates,
           keeper' = [keeper EXCEPT ![t] = h], UNCHANGED <<writes, files, made, copyCrashes>>,
           database' \in Copies!Contents \ {Torn}, h.held # Torn,
           h.at \in {"idle", "creating"} \/ (h.at = "opening" /\ h.chosen \in 1..made)
    PROVE  CopiesInv'
<1>1. OthersStay(t)
    BY DEF CopiesInv, CopyStays, OthersStay
<1>2. FilesSound
    BY CopiesTyped DEF FilesSound
<1>3. OwnSound(t, h)
    BY DEF OwnSound
<1>. QED
    BY <1>1, <1>2, <1>3, KeeperMoves

(* The application writes into its database.                               *)
LEMMA WriteKeeps ==
    ASSUME CopiesInv, Copies!Write \/ UNCHANGED <<database, writes, files, made, keeper, copyCrashes>>
    PROVE  CopiesInv'
<1>1. /\ UNCHANGED <<files, made, keeper, copyCrashes>>
      /\ database' \in Copies!Contents \ {Torn} /\ writes' \in 0..MaxWrites
    BY CopiesTyped DEF Copies!Write, Copies!Contents
<1>. QED
    BY <1>1, CopiesTyped DEF CopiesInv, Copies!TypeOK, CopyStays

(* A backup begins.                                                        *)
LEMMA BackUpKeeps ==
    ASSUME CopiesInv, NEW t \in Threads, Copies!BackUp(t) PROVE CopiesInv'
<1>. DEFINE h == [[keeper[t] EXCEPT !.op = "backup"] EXCEPT !.at = "creating"]
<1>1. keeper' = [keeper EXCEPT ![t] = h] /\ UNCHANGED <<database, writes, files, made, copyCrashes>>
    BY DEF Copies!BackUp, CopiesInv, Copies!TypeOK
<1>2. keeper[t] \in Copies!ThreadStates
    BY CopiesTyped
<1>3. h \in Copies!ThreadStates /\ h.at = "creating" /\ h.held = keeper[t].held
    BY <1>2 DEF Copies!ThreadStates
<1>. HIDE DEF h
<1>4. h.held # Torn
    BY <1>3 DEF CopiesInv
<1>. QED
    BY <1>1, <1>3, <1>4, CopiesTyped, KeeperWaits

(* A restore chooses one of the copies there are.                          *)
LEMMA ChooseKeeps ==
    ASSUME CopiesInv, NEW t \in Threads, Copies!Choose(t) PROVE CopiesInv'
<1>1. PICK f \in DOMAIN files :
         keeper' = [keeper EXCEPT ![t].op = "restore", ![t].at = "opening", ![t].chosen = f]
    BY DEF Copies!Choose
<1>. DEFINE h == [[[keeper[t] EXCEPT !.op = "restore"] EXCEPT !.at = "opening"]
                    EXCEPT !.chosen = f]
<1>2. keeper' = [keeper EXCEPT ![t] = h] /\ UNCHANGED <<database, writes, files, made, copyCrashes>>
    BY <1>1 DEF Copies!Choose, CopiesInv, Copies!TypeOK
<1>3. keeper[t] \in Copies!ThreadStates /\ f \in 0..MaxFiles /\ f \in 1..made
    BY CopiesTyped
<1>4. /\ h \in Copies!ThreadStates /\ h.at = "opening" /\ h.chosen = f
      /\ h.held = keeper[t].held
    BY <1>3 DEF Copies!ThreadStates
<1>. HIDE DEF h
<1>5. h.held # Torn
    BY <1>4 DEF CopiesInv
<1>. QED
    BY <1>2, <1>3, <1>4, <1>5, CopiesTyped, KeeperWaits

(* Opening makes the file that was chosen, or leaves it as it is.          *)
LEMMA OpenKeeps ==
    ASSUME CopiesInv, NEW t \in Threads, Copies!Open(t) PROVE CopiesInv'
<1>. SUFFICES ASSUME NEW f, f = keeper[t].chosen,
                     NEW content, content = IF f \in DOMAIN files THEN files[f] ELSE Empty
              PROVE  CopiesInv'
    OBVIOUS
<1>1. /\ keeper[t].at = "opening" /\ files' = Copies!Holding(f, content)
      /\ UNCHANGED <<database, writes, made, copyCrashes>>
      /\ \/ keeper' = [keeper EXCEPT ![t] = Copies!Idle]
         \/ /\ content # Torn
            /\ keeper' = [keeper EXCEPT ![t].at = "creating", ![t].held = content]
    BY DEF Copies!Open, Copies!End
<1>2. f \in 1..made
    BY <1>1 DEF CopiesInv
<1>3. content \in Copies!Contents
    BY CopiesTyped DEF Copies!Contents
<1>4. /\ DOMAIN files' = DOMAIN files \cup {f}
      /\ \A g \in DOMAIN files : files'[g] = files[g] /\ g \in DOMAIN files'
      /\ \A g \in DOMAIN files' : files'[g] \in Copies!Contents
    BY <1>1, <1>3, CopiesTyped DEF Copies!Holding
<1>5. PICK h \in Copies!ThreadStates :
         /\ keeper' = [keeper EXCEPT ![t] = h] /\ h.at \in {"idle", "creating"} /\ h.held # Torn
    <2>1. CASE keeper' = [keeper EXCEPT ![t] = Copies!Idle]
        BY <2>1, CopiesTyped
    <2>2. CASE /\ content # Torn
               /\ keeper' = [keeper EXCEPT ![t].at = "creating", ![t].held = content]
        <3>. DEFINE h == [[keeper[t] EXCEPT !.at = "creating"] EXCEPT !.held = content]
        <3>1. keeper' = [keeper EXCEPT ![t] = h]
            BY <2>2 DEF CopiesInv, Copies!TypeOK
        <3>2. keeper[t] \in Copies!ThreadStates
            BY CopiesTyped
        <3>3. h \in Copies!ThreadStates /\ h.at = "creating" /\ h.held = content
            BY <1>3, <3>2 DEF Copies!ThreadStates
        <3>. HIDE DEF h
        <3>. QED
            BY <2>2, <3>1, <3>3
    <2>. QED
        BY <1>1, <2>1, <2>2
<1>6. OthersStay(t)
    BY <1>1, <1>4 DEF CopiesInv, CopyStays, OthersStay
<1>7. FilesSound
    BY <1>1, <1>2, <1>4, CopiesTyped DEF FilesSound
<1>8. OwnSound(t, h)
    BY <1>5 DEF OwnSound
<1>. QED
    BY <1>1, <1>5, <1>6, <1>7, <1>8, KeeperMoves

(* The file of a copy is made under a name above every one used before.    *)
LEMMA ReserveKeeps ==
    ASSUME CopiesInv, NEW t \in Threads, Copies!Reserve(t) PROVE CopiesInv'
<1>. SUFFICES ASSUME NEW own, own = made + 1 PROVE CopiesInv'
    OBVIOUS
<1>1. /\ made < MaxFiles /\ made' = own /\ files' = Copies!Holding(own, Empty)
      /\ keeper' = [keeper EXCEPT ![t].at = "copying", ![t].own = own]
      /\ UNCHANGED <<database, writes, copyCrashes>>
    BY DEF Copies!Reserve, Copies!Holding
<1>2. own \in 0..MaxFiles /\ own \in 1..own /\ own \in Nat /\ made \in Nat
    BY <1>1, CopiesTyped
<1>3. /\ DOMAIN files' = DOMAIN files \cup {own}
      /\ \A g \in DOMAIN files : files'[g] = files[g] /\ g \in DOMAIN files'
      /\ \A g \in DOMAIN files' : files'[g] \in Copies!Contents
    <2>1. own \notin DOMAIN files /\ Empty \in Copies!Contents
        BY <1>2, CopiesTyped DEF Copies!Contents
    <2>. QED
        BY <1>1, <2>1, CopiesTyped DEF Copies!Holding
<1>. DEFINE h == [[keeper[t] EXCEPT !.at = "copying"] EXCEPT !.own = own]
<1>4. keeper' = [keeper EXCEPT ![t] = h]
    BY <1>1 DEF CopiesInv, Copies!TypeOK
<1>5. keeper[t] \in Copies!ThreadStates
    BY CopiesTyped
<1>6. h \in Copies!ThreadStates /\ h.at = "copying" /\ h.own = own /\ h.held = keeper[t].held
    BY <1>2, <1>5 DEF Copies!ThreadStates
<1>. HIDE DEF h
<1>7. h.held # Torn
    BY <1>6 DEF CopiesInv
<1>8. \A u \in Threads : keeper[u].at \in {"copying", "pruning", "replacing"} =>
         keeper[u].own \in 1..made
    BY DEF CopiesInv
<1>9. OthersStay(t)
    <2>1. \A u \in Threads : keeper[u].at \in {"pruning", "replacing"} =>
             \/ keeper[u].own \in DOMAIN files /\ files[keeper[u].own] = keeper[u].saved
             \/ made - keeper[u].own >= Keep
        BY DEF CopiesInv, CopyStays
    <2>. QED
        BY <1>1, <1>2, <1>3, <1>8, <2>1, CopiesTyped DEF OthersStay
<1>10. FilesSound
    BY <1>1, <1>2, <1>3, CopiesTyped DEF FilesSound
<1>11. OwnSound(t, h)
    BY <1>1, <1>2, <1>6, <1>7, <1>8 DEF OwnSound
<1>. QED
    BY <1>1, <1>4, <1>6, <1>9, <1>10, <1>11, KeeperMoves

(* A thread that copies ends, or goes on with what it copied, and writes   *)
(* into its own file only.                                                 *)
LEMMA CopyEnds ==
    ASSUME CopiesInv, NEW t \in Threads, keeper[t].at = "copying", NEW h \in Copies!ThreadStates,
           keeper' = [keeper EXCEPT ![t] = h], UNCHANGED <<database, writes, made, copyCrashes>>,
           h.held # Torn, \A f \in DOMAIN files' : files'[f] \in Copies!Contents,
           DOMAIN files' \subseteq DOMAIN files \cup {keeper[t].own},
           \A f \in DOMAIN files : f # keeper[t].own => f \in DOMAIN files' /\ files'[f] = files[f],
           \/ h.at = "idle"
           \/ /\ h.at = "pruning" /\ h.own = keeper[t].own
              /\ h.own \in DOMAIN files' /\ files'[h.own] = h.saved
    PROVE  CopiesInv'
<1>1. keeper[t].own \in 1..made
    BY DEF CopiesInv
<1>2. \A u \in Threads \ {t} : keeper[u].at \in {"copying", "pruning", "replacing"} =>
         keeper[t].own # keeper[u].own
    BY DEF CopiesInv
<1>3. OthersStay(t)
    BY <1>2 DEF CopiesInv, CopyStays, OthersStay
<1>4. FilesSound
    BY <1>1, CopiesTyped DEF FilesSound
<1>5. OwnSound(t, h)
    BY <1>1, <1>2 DEF OwnSound
<1>. QED
    BY <1>3, <1>4, <1>5, KeeperMoves

(* The snapshot is written into the thread's own file and into no other    *)
(* one.                                                                    *)
LEMMA SnapshotKeeps ==
    ASSUME CopiesInv, NEW t \in Threads, Copies!Snapshot(t) PROVE CopiesInv'
<1>. DEFINE h == [[keeper[t] EXCEPT !.at = "pruning"] EXCEPT !.saved = database]
<1>1. /\ keeper[t].at = "copying" /\ files' = Copies!Holding(keeper[t].own, database)
      /\ keeper' = [keeper EXCEPT ![t] = h] /\ UNCHANGED <<database, writes, made, copyCrashes>>
    BY DEF Copies!Snapshot, CopiesInv, Copies!TypeOK
<1>2. keeper[t] \in Copies!ThreadStates /\ database \in Copies!Contents
    BY CopiesTyped
<1>3. /\ h \in Copies!ThreadStates /\ h.at = "pruning" /\ h.own = keeper[t].own
      /\ h.held = keeper[t].held /\ h.saved = database
    BY <1>2 DEF Copies!ThreadStates
<1>. HIDE DEF h
<1>4. h.held # Torn
    BY <1>3 DEF CopiesInv
<1>5. /\ DOMAIN files' = DOMAIN files \cup {keeper[t].own}
      /\ \A f \in DOMAIN files : f # keeper[t].own => f \in DOMAIN files' /\ files'[f] = files[f]
      /\ \A f \in DOMAIN files' : files'[f] \in Copies!Contents
      /\ files'[keeper[t].own] = database
    BY <1>1, <1>2, CopiesTyped DEF Copies!Holding
<1>. QED
    BY <1>1, <1>3, <1>4, <1>5, CopyEnds

(* A failed snapshot removes the file the thread made.                     *)
LEMMA SnapshotFailsKeeps ==
    ASSUME CopiesInv, NEW t \in Threads, Copies!SnapshotFails(t) PROVE CopiesInv'
<1>1. /\ keeper[t].at = "copying" /\ keeper' = [keeper EXCEPT ![t] = Copies!Idle]
      /\ files' = Copies!Restrict(files, DOMAIN files \ {keeper[t].own})
      /\ UNCHANGED <<database, writes, made, copyCrashes>>
    BY DEF Copies!SnapshotFails, Copies!End
<1>2. /\ DOMAIN files' \subseteq DOMAIN files
      /\ \A f \in DOMAIN files : f # keeper[t].own => f \in DOMAIN files' /\ files'[f] = files[f]
      /\ \A f \in DOMAIN files' : files'[f] \in Copies!Contents
    BY <1>1, CopiesTyped DEF Copies!Restrict
<1>. QED
    BY <1>1, <1>2, CopiesTyped, CopyEnds

(* A file that is pruned has Keep later ones.                              *)
LEMMA PrunedIsOld ==
    ASSUME CopiesInv, NEW f \in DOMAIN files, f \notin Copies!Newest(DOMAIN files)
    PROVE  made - f >= Keep
<1>. DEFINE later == {g \in DOMAIN files : g > f}
<1>1. f \in Nat /\ made \in Nat /\ f <= made /\ later \subseteq (f + 1)..made
    BY CopiesTyped
<1>2. IsFiniteSet((f + 1)..made) /\ Cardinality((f + 1)..made) = made - f
    <2>1. f + 1 \in Int /\ made \in Int
        BY <1>1
    <2>2. /\ IsFiniteSet((f + 1)..made)
          /\ Cardinality((f + 1)..made) = IF f + 1 > made THEN 0 ELSE made - (f + 1) + 1
        BY <2>1, FS_Interval
    <2>. QED
        BY <1>1, <2>2
<1>3. IsFiniteSet(later) /\ Cardinality(later) \in Nat /\ Cardinality(later) <= made - f
    BY <1>1, <1>2, FS_Subset, FS_CardinalityType
<1>4. ~(Cardinality(later) < Keep)
    BY SameCardinality DEF Copies!Newest
<1>. QED
    BY <1>1, <1>3, <1>4, CopiesTyped

(* Pruning drops the oldest copies: the one made before a restore is       *)
(* among the newest, or Keep later ones are there.                         *)
LEMMA PruneKeeps ==
    ASSUME CopiesInv, NEW t \in Threads, Copies!PruneBackups(t) PROVE CopiesInv'
<1>1. /\ keeper[t].at = "pruning" /\ files' = Copies!Restrict(files, Copies!Newest(DOMAIN files))
      /\ UNCHANGED <<database, writes, made, copyCrashes>>
      /\ \/ keeper' = [keeper EXCEPT ![t] = Copies!Idle]
         \/ keeper' = [keeper EXCEPT ![t].at = "replacing"]
    BY DEF Copies!PruneBackups, Copies!AfterPrune, Copies!End
<1>2. /\ DOMAIN files' = Copies!Newest(DOMAIN files) /\ DOMAIN files' \subseteq DOMAIN files
      /\ \A f \in DOMAIN files' : files'[f] = files[f] /\ files'[f] \in Copies!Contents
    BY <1>1, CopiesTyped DEF Copies!Restrict, Copies!Newest
<1>3. \A u \in Threads : keeper[u].at \in {"pruning", "replacing"} =>
         \/ keeper[u].own \in DOMAIN files' /\ files'[keeper[u].own] = keeper[u].saved
         \/ made' - keeper[u].own >= Keep
    BY <1>1, <1>2, PrunedIsOld DEF CopiesInv, CopyStays
<1>4. PICK h \in Copies!ThreadStates :
         /\ keeper' = [keeper EXCEPT ![t] = h] /\ h.held # Torn
         /\ h.at = "idle" \/ (h.at = "replacing" /\ h.own = keeper[t].own
                                /\ h.saved = keeper[t].saved)
    <2>1. CASE keeper' = [keeper EXCEPT ![t] = Copies!Idle]
        BY <2>1, CopiesTyped
    <2>2. CASE keeper' = [keeper EXCEPT ![t].at = "replacing"]
        <3>. DEFINE h == [keeper[t] EXCEPT !.at = "replacing"]
        <3>1. keeper' = [keeper EXCEPT ![t] = h]
            BY <2>2 DEF CopiesInv, Copies!TypeOK
        <3>2. keeper[t] \in Copies!ThreadStates
            BY CopiesTyped
        <3>3. /\ h \in Copies!ThreadStates /\ h.at = "replacing" /\ h.own = keeper[t].own
              /\ h.saved = keeper[t].saved /\ h.held = keeper[t].held
            BY <3>2 DEF Copies!ThreadStates
        <3>. HIDE DEF h
        <3>4. h.held # Torn
            BY <3>3 DEF CopiesInv
        <3>. QED
            BY <3>1, <3>3, <3>4
    <2>. QED
        BY <1>1, <2>1, <2>2
<1>5. /\ keeper[t].own \in 1..made'
      /\ \A u \in Threads \ {t} : keeper[u].at = "copying" => keeper[t].own # keeper[u].own
    BY <1>1 DEF CopiesInv
<1>6. OthersStay(t)
    BY <1>3 DEF OthersStay
<1>7. FilesSound
    BY <1>1, <1>2, CopiesTyped DEF FilesSound
<1>8. OwnSound(t, h)
    BY <1>1, <1>3, <1>4, <1>5 DEF OwnSound
<1>. QED
    BY <1>1, <1>4, <1>6, <1>7, <1>8, KeeperMoves

(* The database is replaced by the copy a restore holds, and that copy is  *)
(* not torn.                                                               *)
LEMMA ReplaceKeeps ==
    ASSUME CopiesInv, NEW t \in Threads, Copies!Replace(t) PROVE CopiesInv'
<1>1. /\ keeper' = [keeper EXCEPT ![t] = Copies!Idle] /\ UNCHANGED <<writes, files, made, copyCrashes>>
      /\ database' \in {keeper[t].held, database}
    BY DEF Copies!Replace, Copies!End
<1>2. keeper[t].held # Torn
    BY DEF CopiesInv
<1>. QED
    BY <1>1, <1>2, CopiesTyped, KeeperWaits

(* A crash leaves the files that were being written empty or torn, and     *)
(* the other files as they were.                                           *)
LEMMA CopiesCrashKeeps ==
    ASSUME CopiesInv, Copies!Crash PROVE CopiesInv'
<1>1. /\ copyCrashes' \in 0..MaxCopyCrashes /\ UNCHANGED <<database, writes, made>>
      /\ keeper' = [t \in Threads |-> Copies!Idle]
    BY CopiesTyped DEF Copies!Crash
<1>2. PICK left \in {Empty, Torn} :
         files' = [f \in DOMAIN files |->
                     IF \E t \in Threads : keeper[t].at = "copying" /\ keeper[t].own = f
                     THEN left ELSE files[f]]
    BY DEF Copies!Crash
<1>3. left \in Copies!Contents
    BY DEF Copies!Contents
<1>4. /\ DOMAIN files' = DOMAIN files
      /\ \A f \in DOMAIN files' : files'[f] \in Copies!Contents
    BY <1>2, <1>3, CopiesTyped
<1>5. /\ keeper' \in [Threads -> Copies!ThreadStates]
      /\ \A t \in Threads : keeper'[t].at = "idle" /\ keeper'[t].held # Torn
    BY <1>1, CopiesTyped
<1>6. Copies!TypeOK'
    BY <1>1, <1>4, <1>5, CopiesTyped DEF Copies!TypeOK, Copies!Range
<1>. QED
    BY <1>5, <1>6 DEF CopiesInv

(* Every step on the copies keeps their inductive invariant.               *)
LEMMA CopiesKept ==
    ASSUME CopiesInv, [Copies!Next]_(Copies!vars)
    PROVE  CopiesInv'
BY WriteKeeps, BackUpKeeps, ChooseKeeps, OpenKeeps, ReserveKeeps, SnapshotKeeps,
   SnapshotFailsKeeps, PruneKeeps, ReplaceKeeps, CopiesCrashKeeps DEF Copies!Next, Copies!vars

(* A step of the composition is a step on the copies or leaves them        *)
(* alone.                                                                  *)
LEMMA CopiesOnly ==
    ASSUME [Next]_vars PROVE [Copies!Next]_(Copies!vars)
BY DEF Next, vars, RunnerStep, JobStep, BackupStep, BundleStep, AnalysisStep, copyVars, Copies!vars

(* The copy made before a restore is there until Keep later ones are.      *)
LEMMA SafetyCopyKept ==
    ASSUME CopiesInv PROVE Copies!SafetyCopyStays
BY DEF CopiesInv, CopyStays, Copies!SafetyCopyStays

-----------------------------------------------------------------------------
(* Analyses.  What holds of one process d: its tasks end with it, a task   *)
(* has a row that is under way, and so does what its startup picked.       *)
ProcessSound(d) ==
    /\ worker[d] # "off"
    /\ \A v \in Workers \ {d} : worker[v] = "off" /\ starting[v] = "no"
    /\ worker[d] # "up" =>
         /\ \A i \in Analysis!LeagueRuns : leagueTask[i].at = "none"
         /\ \A j \in Analysis!Runs : analysisTask[j].at = "none"
         /\ starting[d] = "no"
    /\ \A i \in Analysis!LeagueRuns :
         leagueTask[i].at # "none" => leagueTask[i].by = d /\ league[i].status \in Analysis!Active
    /\ \A j \in Analysis!Runs :
         /\ analysisTask[j].at # "none" => analysisTask[j].by = d
         /\ analysisTask[j].at = "working" => analysis[j].status = "running"
    /\ worker[d] = "picked" =>
         \A j \in doomed[d] : analysis[j].status \in Analysis!ActiveChecks
    /\ worker[d] = "failing" => \A j \in doomed[d] : analysis[j].status = "running"

IsActiveCheck(row) == row.kind = "check" /\ row.status \in Analysis!ActiveChecks

OneCheck(d) ==
    /\ \A j, k \in Analysis!Runs :
         IsActiveCheck(analysis[j]) /\ IsActiveCheck(analysis[k]) => j = k
    /\ starting[d] = "free" => \A j \in Analysis!Runs : ~IsActiveCheck(analysis[j])

AloneSound == \A d \in Workers : workers = {d} => ProcessSound(d) /\ OneCheck(d)

(* What holds of any number of processes.                                  *)
OneActive ==
    \A i, k \in Analysis!LeagueRuns :
        league[i].status \in Analysis!Active /\ league[k].status \in Analysis!Active => i = k

KindsSound ==
    /\ \A j \in Analysis!Runs : analysis[j].status = "none" => analysis[j].kind = "none"
    /\ \A w \in Workers : worker[w] = "picked" => \A j \in doomed[w] : analysis[j].kind = "check"

AnalysisInv ==
    Analysis!TypeOK /\ Analysis!ForecastsSurvive /\ OneActive /\ KindsSound /\ AloneSound

NoRunTask == [at |-> "none", by |-> "none"]

(* The fields of rows and tasks, and the bounds, have their types.         *)
LEMMA AnalysisTyped ==
    ASSUME Analysis!TypeOK
    PROVE  /\ \A i \in Analysis!LeagueRuns :
                /\ league[i] \in Analysis!LeagueRows /\ leagueTask[i] \in Analysis!LeagueTasks
                /\ leagueTask[i].by \in Workers \cup {"none"}
                /\ leagueTask[i].asks \in Analysis!Runs \cup {0}
           /\ \A j \in Analysis!Runs :
                /\ analysis[j] \in Analysis!RunRows /\ analysisTask[j] \in Analysis!RunTasks
                /\ analysisTask[j].by \in Workers \cup {"none"}
           /\ Analysis!NoTask \in Analysis!LeagueTasks /\ Analysis!NoTask.at = "none"
           /\ NoRunTask \in Analysis!RunTasks /\ NoRunTask.at = "none"
           /\ workers \in SUBSET Workers /\ MaxCrashes \in Nat /\ crashes \in 0..MaxCrashes
           /\ \A w \in Workers : doomed[w] \in SUBSET Analysis!Runs
<1>1. MaxCrashes \in Nat
    BY AnalysisAssumption DEF Analysis!AnalysesAssumption
<1>2. Analysis!NoTask \in Analysis!LeagueTasks /\ Analysis!NoTask.at = "none"
    BY DEF Analysis!NoTask, Analysis!LeagueTasks
<1>3. NoRunTask \in Analysis!RunTasks /\ NoRunTask.at = "none"
    BY DEF NoRunTask, Analysis!RunTasks
<1>4. \A i \in Analysis!LeagueRuns :
         league[i] \in Analysis!LeagueRows /\ leagueTask[i] \in Analysis!LeagueTasks
    BY DEF Analysis!TypeOK
<1>5. \A j \in Analysis!Runs :
         analysis[j] \in Analysis!RunRows /\ analysisTask[j] \in Analysis!RunTasks
    BY DEF Analysis!TypeOK
<1>6. /\ \A t \in Analysis!LeagueTasks : t.by \in Workers \cup {"none"}
                                       /\ t.asks \in Analysis!Runs \cup {0}
      /\ \A t \in Analysis!RunTasks : t.by \in Workers \cup {"none"}
    BY DEF Analysis!LeagueTasks, Analysis!RunTasks
<1>7. /\ workers \in SUBSET Workers /\ crashes \in 0..MaxCrashes
      /\ \A w \in Workers : doomed[w] \in SUBSET Analysis!Runs
    BY DEF Analysis!TypeOK
<1>. QED
    BY <1>1, <1>2, <1>3, <1>4, <1>5, <1>6, <1>7

(* There are no analyses at first, and the deployed workers are up.        *)
LEMMA AnalysisInit == Analysis!Init => AnalysisInv
<1>. SUFFICES ASSUME Analysis!Init PROVE AnalysisInv
    OBVIOUS
<1>1. MaxCrashes \in Nat
    BY AnalysisAssumption DEF Analysis!AnalysesAssumption
<1>2. Analysis!NoTask \in Analysis!LeagueTasks /\ Analysis!NoTask.at = "none"
    BY DEF Analysis!NoTask, Analysis!LeagueTasks
<1>3. NoRunTask \in Analysis!RunTasks /\ NoRunTask.at = "none"
    BY DEF NoRunTask, Analysis!RunTasks
<1>4. [status |-> "none", frozen |-> FALSE] \in Analysis!LeagueRows
    BY DEF Analysis!LeagueRows
<1>5. [kind |-> "none", status |-> "none"] \in Analysis!RunRows
    BY DEF Analysis!RunRows
<1>6. Analysis!TypeOK
    BY <1>1, <1>2, <1>3, <1>4, <1>5 DEF Analysis!Init, Analysis!TypeOK, NoRunTask
<1>7. \A i \in Analysis!LeagueRuns : league[i].status = "none" /\ leagueTask[i].at = "none"
    BY <1>2 DEF Analysis!Init
<1>8. \A j \in Analysis!Runs : /\ analysis[j].status = "none" /\ analysis[j].kind = "none"
                               /\ analysisTask[j].at = "none"
    BY DEF Analysis!Init
<1>9. \A w \in Workers :
         /\ worker[w] = IF w \in workers THEN "up" ELSE "off"
         /\ starting[w] = "no" /\ doomed[w] = {}
    BY DEF Analysis!Init
<1>10. Analysis!ForecastsSurvive
    BY <1>7 DEF Analysis!ForecastsSurvive
<1>11. OneActive
    BY <1>7 DEF OneActive, Analysis!Active
<1>12. KindsSound
    BY <1>8, <1>9 DEF KindsSound
<1>13. ASSUME NEW d \in Workers, workers = {d} PROVE ProcessSound(d) /\ OneCheck(d)
    <2>1. worker[d] = "up" /\ starting[d] = "no"
          /\ \A v \in Workers \ {d} : worker[v] = "off" /\ starting[v] = "no"
        BY <1>9, <1>13
    <2>2. ProcessSound(d)
        BY <2>1, <1>7, <1>8 DEF ProcessSound
    <2>3. OneCheck(d)
        BY <2>1, <1>8 DEF OneCheck, IsActiveCheck
    <2>. QED
        BY <2>2, <2>3
<1>. QED
    BY <1>6, <1>10, <1>11, <1>12, <1>13 DEF AnalysisInv, AloneSound

(* A task of a league's analysis saves its row and goes on, or ends.       *)
LEMMA LeagueMoves ==
    ASSUME AnalysisInv, NEW i \in Analysis!LeagueRuns, NEW row \in Analysis!LeagueRows,
           NEW t \in Analysis!LeagueTasks,
           league' = [league EXCEPT ![i] = row], leagueTask' = [leagueTask EXCEPT ![i] = t],
           UNCHANGED <<workers, worker, analysis, analysisTask, starting, doomed, crashes>>,
           t.at \in {"analyzing", "asking", "answered"} \/ row.status = "partial" => row.frozen,
           row.status \in Analysis!Active =>
             \A k \in Analysis!LeagueRuns \ {i} : league[k].status \notin Analysis!Active,
           \A d \in Workers : workers = {d} /\ t.at # "none" =>
             t.by = d /\ row.status \in Analysis!Active /\ worker[d] = "up"
    PROVE  AnalysisInv'
<1>1. /\ league' \in [Analysis!LeagueRuns -> Analysis!LeagueRows] /\ league'[i] = row
      /\ leagueTask' \in [Analysis!LeagueRuns -> Analysis!LeagueTasks] /\ leagueTask'[i] = t
      /\ \A k \in Analysis!LeagueRuns \ {i} :
           league'[k] = league[k] /\ leagueTask'[k] = leagueTask[k]
    BY DEF AnalysisInv, Analysis!TypeOK
<1>2. Analysis!TypeOK'
    BY <1>1 DEF AnalysisInv, Analysis!TypeOK
<1>3. Analysis!ForecastsSurvive'
    BY <1>1 DEF AnalysisInv, Analysis!ForecastsSurvive
<1>4. OneActive'
    BY <1>1 DEF AnalysisInv, OneActive
<1>5. KindsSound'
    BY DEF AnalysisInv, KindsSound
<1>6. ASSUME NEW d \in Workers, workers = {d} PROVE ProcessSound(d)' /\ OneCheck(d)'
    <2>1. ProcessSound(d) /\ OneCheck(d)
        BY <1>6 DEF AnalysisInv, AloneSound
    <2>2. \A k \in Analysis!LeagueRuns :
             leagueTask'[k].at # "none" =>
               /\ leagueTask'[k].by = d /\ league'[k].status \in Analysis!Active
               /\ worker[d] = "up"
        BY <1>1, <1>6, <2>1 DEF ProcessSound
    <2>. QED
        BY <2>1, <2>2 DEF ProcessSound, OneCheck
<1>. QED
    BY <1>2, <1>3, <1>4, <1>5, <1>6 DEF AnalysisInv, AloneSound

(* A task saved its own row: the fields of the row and of the task.        *)
LEMMA LeagueTaskAt ==
    ASSUME AnalysisInv, NEW i \in Analysis!LeagueRuns, NEW at \in Analysis!Active \cup {"asking", "answered"},
           NEW asks \in Analysis!Runs \cup {0}
    PROVE  /\ [leagueTask[i] EXCEPT !.at = at] \in Analysis!LeagueTasks
           /\ [leagueTask[i] EXCEPT !.at = at].at = at
           /\ [leagueTask[i] EXCEPT !.at = at].by = leagueTask[i].by
           /\ [leagueTask[i] EXCEPT !.asks = asks] \in Analysis!LeagueTasks
           /\ [leagueTask[i] EXCEPT !.asks = asks].at = leagueTask[i].at
           /\ [leagueTask[i] EXCEPT !.asks = asks].by = leagueTask[i].by
<1>1. leagueTask[i] \in Analysis!LeagueTasks
    BY AnalysisTyped DEF AnalysisInv
<1>. QED
    BY <1>1 DEF Analysis!LeagueTasks

(* Who executes a league's analysis where there is one process.            *)
LEMMA LeagueTaskOf ==
    ASSUME AnalysisInv, NEW i \in Analysis!LeagueRuns, leagueTask[i].at # "none",
           NEW d \in Workers, workers = {d}
    PROVE  leagueTask[i].by = d /\ league[i].status \in Analysis!Active /\ worker[d] = "up"
BY DEF AnalysisInv, AloneSound, ProcessSound

(* Where there is one process, a worker that is not off is that one.       *)
LEMMA OnlyWorkerUp ==
    ASSUME AnalysisInv, NEW w \in Workers, NEW d \in Workers, workers = {d}, worker[w] # "off"
    PROVE  w = d /\ ProcessSound(d) /\ OneCheck(d)
BY DEF AnalysisInv, AloneSound, ProcessSound

(* POST /{league_id}/analyses queues a row where none is active.           *)
LEMMA StartLeagueKeeps ==
    ASSUME AnalysisInv, NEW w \in Workers, NEW i \in Analysis!LeagueRuns,
           Analysis!StartLeague(w, i)
    PROVE  AnalysisInv'
<1>. DEFINE row == [league[i] EXCEPT !.status = "queued"]
            t == [[Analysis!NoTask EXCEPT !.at = "queued"] EXCEPT !.by = w]
<1>1. /\ league' = [league EXCEPT ![i] = row] /\ leagueTask' = [leagueTask EXCEPT ![i] = t]
      /\ UNCHANGED <<workers, worker, analysis, analysisTask, starting, doomed, crashes>>
      /\ worker[w] = "up" /\ Analysis!Admitted(i)
    BY DEF Analysis!StartLeague, AnalysisInv, Analysis!TypeOK
<1>2. league[i] \in Analysis!LeagueRows
    BY AnalysisTyped DEF AnalysisInv
<1>3. row \in Analysis!LeagueRows /\ row.status = "queued"
    BY <1>2 DEF Analysis!LeagueRows, Analysis!Active
<1>4. t \in Analysis!LeagueTasks /\ t.at = "queued" /\ t.by = w
    BY DEF Analysis!LeagueTasks, Analysis!NoTask, Analysis!Active
<1>. HIDE DEF row, t
<1>5. \A d \in Workers : workers = {d} => t.by = d /\ worker[d] = "up"
    BY <1>1, <1>4, OnlyWorkerUp
<1>. QED
    BY <1>1, <1>3, <1>4, <1>5, LeagueMoves DEF Analysis!Admitted, Analysis!Active

(* The commit of an active status.                                         *)
LEMMA AdvanceKeeps ==
    ASSUME AnalysisInv, NEW i \in Analysis!LeagueRuns, NEW status \in Analysis!Active,
           leagueTask[i].at # "none", Analysis!Advance(i, status),
           UNCHANGED <<workers, worker, analysis, analysisTask, starting, doomed, crashes>>
    PROVE  AnalysisInv'
<1>. DEFINE row == [[league[i] EXCEPT !.status = status]
                      EXCEPT !.frozen = league[i].frozen \/ status = "analyzing"]
            t == [leagueTask[i] EXCEPT !.at = status]
<1>1. leagueTask' = [leagueTask EXCEPT ![i] = t] /\ Analysis!Admitted(i)
    BY DEF Analysis!Advance, AnalysisInv, Analysis!TypeOK
<1>2. league[i] \in Analysis!LeagueRows
    BY AnalysisTyped DEF AnalysisInv
<1>3. league' = [league EXCEPT ![i] = row]
    BY <1>2 DEF Analysis!Advance, AnalysisInv, Analysis!TypeOK, Analysis!LeagueRows
<1>4. /\ row \in Analysis!LeagueRows /\ row.status = status
      /\ status = "analyzing" => row.frozen
    BY <1>2 DEF Analysis!LeagueRows
<1>5. t \in Analysis!LeagueTasks /\ t.at = status /\ t.by = leagueTask[i].by
    BY AnalysisTyped, LeagueTaskAt DEF AnalysisInv
<1>. HIDE DEF row, t
<1>6. \A d \in Workers : workers = {d} => t.by = d /\ worker[d] = "up"
    BY <1>5, LeagueTaskOf
<1>. QED
    BY <1>1, <1>3, <1>4, <1>5, <1>6, LeagueMoves DEF Analysis!Admitted, Analysis!Active

(* A task of a league's analysis ends and leaves a row that is not active. *)
LEMMA LeagueEnds ==
    ASSUME AnalysisInv, NEW i \in Analysis!LeagueRuns, NEW row \in Analysis!LeagueRows,
           league' = [league EXCEPT ![i] = row],
           leagueTask' = [leagueTask EXCEPT ![i] = Analysis!NoTask],
           UNCHANGED <<workers, worker, analysis, analysisTask, starting, doomed, crashes>>,
           row.status = "partial" => row.frozen,
           row.status \notin Analysis!Active \/ row = league[i]
    PROVE  AnalysisInv'
<1>1. Analysis!NoTask \in Analysis!LeagueTasks /\ Analysis!NoTask.at = "none"
    BY AnalysisTyped DEF AnalysisInv
<1>2. row.status \in Analysis!Active =>
        \A k \in Analysis!LeagueRuns \ {i} : league[k].status \notin Analysis!Active
    BY DEF AnalysisInv, OneActive
<1>. QED
    BY <1>1, <1>2, LeagueMoves

(* The task begins, unless its row was failed before it could.             *)
LEMMA BeginLeagueKeeps ==
    ASSUME AnalysisInv, NEW i \in Analysis!LeagueRuns, Analysis!BeginLeague(i)
    PROVE  AnalysisInv'
<1>1. /\ leagueTask[i].at # "none"
      /\ UNCHANGED <<workers, worker, analysis, analysisTask, starting, doomed, crashes>>
    BY DEF Analysis!BeginLeague
<1>2. CASE Analysis!Advance(i, "refreshing")
    BY <1>1, <1>2, AdvanceKeeps DEF Analysis!Active
<1>3. CASE leagueTask' = [leagueTask EXCEPT ![i] = Analysis!NoTask] /\ UNCHANGED league
    <2>1. league[i] \in Analysis!LeagueRows /\ league' = [league EXCEPT ![i] = league[i]]
        BY <1>3, AnalysisTyped DEF AnalysisInv, Analysis!TypeOK
    <2>2. league[i].status = "partial" => league[i].frozen
        BY DEF AnalysisInv, Analysis!ForecastsSurvive
    <2>. QED
        BY <1>1, <1>3, <2>1, <2>2, LeagueEnds
<1>. QED
    BY <1>2, <1>3 DEF Analysis!BeginLeague

(* The sources are refreshed, and the forecasts are made next.             *)
LEMMA RefreshKeeps ==
    ASSUME AnalysisInv, NEW i \in Analysis!LeagueRuns, Analysis!RefreshSources(i)
    PROVE  AnalysisInv'
BY AdvanceKeeps DEF Analysis!RefreshSources, Analysis!Active

(* The forecasts are frozen before the analyst is asked.                   *)
LEMMA FreezeKeeps ==
    ASSUME AnalysisInv, NEW i \in Analysis!LeagueRuns, Analysis!FreezeReport(i)
    PROVE  AnalysisInv'
BY AdvanceKeeps DEF Analysis!FreezeReport, Analysis!Active

(* The report is published, complete or without an explanation.            *)
LEMMA PublishKeeps ==
    ASSUME AnalysisInv, NEW i \in Analysis!LeagueRuns, Analysis!PublishReport(i)
    PROVE  AnalysisInv'
<1>1. PICK status \in {"completed", "partial"} :
        league' = [league EXCEPT ![i] = [status |-> status, frozen |-> TRUE]]
    BY DEF Analysis!PublishReport
<1>. DEFINE row == [status |-> status, frozen |-> TRUE]
<1>2. row \in Analysis!LeagueRows /\ row.frozen /\ row.status \notin Analysis!Active
    BY DEF Analysis!LeagueRows, Analysis!Ended, Analysis!Active
<1>. QED
    BY <1>1, <1>2, LeagueEnds DEF Analysis!PublishReport

(* The task fails: what is frozen stays.                                   *)
LEMMA FailLeagueKeeps ==
    ASSUME AnalysisInv, NEW i \in Analysis!LeagueRuns, Analysis!FailLeague(i)
    PROVE  AnalysisInv'
<1>. DEFINE row == [league[i] EXCEPT !.status = "failed"]
<1>1. league[i] \in Analysis!LeagueRows
    BY AnalysisTyped DEF AnalysisInv
<1>2. row \in Analysis!LeagueRows /\ row.status = "failed"
    BY <1>1 DEF Analysis!LeagueRows, Analysis!Ended
<1>3. league' = [league EXCEPT ![i] = row]
    BY DEF Analysis!FailLeague, AnalysisInv, Analysis!TypeOK
<1>. HIDE DEF row
<1>. QED
    BY <1>2, <1>3, LeagueEnds DEF Analysis!FailLeague, Analysis!Active

-----------------------------------------------------------------------------
(* What a step that writes row j of AnalysisRun and the task of it owes to *)
(* the one process d.                                                      *)
RunSound(d, j, row, tk) ==
    /\ tk.at # "none" => tk.by = d /\ worker[d] = "up"
    /\ tk.at = "working" => row.status = "running"
    /\ worker[d] = "picked" => row.status \in Analysis!ActiveChecks \/ j \notin doomed'[d]
    /\ worker[d] = "failing" => row.status = "running" \/ j \notin doomed'[d]
    /\ \A v \in Workers \ {d} : starting'[v] = "no"
    /\ starting'[d] # "no" => worker[d] = "up"
    /\ IsActiveCheck(row) =>
         \A k \in Analysis!Runs \ {j} : ~IsActiveCheck(analysis[k])
    /\ starting'[d] = "free" => starting[d] = "free" /\ ~IsActiveCheck(row)

(* The tasks of league analyses that such a step may move.                 *)
TasksStay ==
    /\ leagueTask' \in [Analysis!LeagueRuns -> Analysis!LeagueTasks]
    /\ \A i \in Analysis!LeagueRuns :
         /\ leagueTask'[i].at # "none" =>
              leagueTask[i].at # "none" /\ leagueTask'[i].by = leagueTask[i].by
         /\ leagueTask'[i].at \in {"analyzing", "asking", "answered"} =>
              leagueTask[i].at \in {"analyzing", "asking", "answered"}

(* A step that writes one row of AnalysisRun and its task, and whose row   *)
(* fits what the one process is doing, keeps the invariant.                *)
LEMMA RunMoves ==
    ASSUME AnalysisInv, NEW j \in Analysis!Runs, NEW row \in Analysis!RunRows,
           NEW tk \in Analysis!RunTasks, TasksStay,
           analysis' = [analysis EXCEPT ![j] = row],
           analysisTask' = [analysisTask EXCEPT ![j] = tk],
           UNCHANGED <<workers, worker, league, crashes>>,
           starting' \in [Workers -> {"no", "free", "taken"}],
           doomed' \in [Workers -> SUBSET Analysis!Runs],
           \A w \in Workers : doomed'[w] \subseteq doomed[w],
           row.status = "none" => row.kind = "none",
           \A w \in Workers : worker[w] = "picked" => row.kind = "check" \/ j \notin doomed'[w],
           \A d \in Workers : workers = {d} => RunSound(d, j, row, tk)
    PROVE  AnalysisInv'
<1>1. /\ analysis' \in [Analysis!Runs -> Analysis!RunRows] /\ analysis'[j] = row
      /\ analysisTask' \in [Analysis!Runs -> Analysis!RunTasks] /\ analysisTask'[j] = tk
      /\ \A k \in Analysis!Runs \ {j} :
           analysis'[k] = analysis[k] /\ analysisTask'[k] = analysisTask[k]
    BY DEF AnalysisInv, Analysis!TypeOK
<1>2. Analysis!TypeOK'
    BY <1>1 DEF AnalysisInv, Analysis!TypeOK, TasksStay
<1>3. Analysis!ForecastsSurvive'
    BY DEF AnalysisInv, Analysis!ForecastsSurvive, TasksStay
<1>4. OneActive'
    BY DEF AnalysisInv, OneActive
<1>5. KindsSound'
    BY <1>1 DEF AnalysisInv, KindsSound
<1>6. ASSUME NEW d \in Workers, workers = {d} PROVE ProcessSound(d)' /\ OneCheck(d)'
    <2>1. ProcessSound(d) /\ OneCheck(d) /\ RunSound(d, j, row, tk)
        BY <1>6 DEF AnalysisInv, AloneSound
    <2>2. \A i \in Analysis!LeagueRuns :
            /\ leagueTask'[i].at # "none" => leagueTask'[i].by = d /\ league'[i].status \in Analysis!Active
            /\ worker'[d] # "up" => leagueTask'[i].at = "none"
        BY <2>1 DEF ProcessSound, TasksStay
    <2>3. \A k \in Analysis!Runs :
            /\ analysisTask'[k].at # "none" => analysisTask'[k].by = d
            /\ analysisTask'[k].at = "working" => analysis'[k].status = "running"
            /\ worker'[d] # "up" => analysisTask'[k].at = "none"
        BY <1>1, <2>1 DEF ProcessSound, RunSound
    <2>4. /\ worker'[d] # "off"
          /\ \A v \in Workers \ {d} : worker'[v] = "off" /\ starting'[v] = "no"
          /\ worker'[d] # "up" => starting'[d] = "no"
        BY <2>1 DEF ProcessSound, RunSound
    <2>5. /\ worker'[d] = "picked" =>
               \A k \in doomed'[d] : analysis'[k].status \in Analysis!ActiveChecks
          /\ worker'[d] = "failing" => \A k \in doomed'[d] : analysis'[k].status = "running"
        BY <1>1, <2>1 DEF ProcessSound, RunSound
    <2>6. ProcessSound(d)'
        BY <2>2, <2>3, <2>4, <2>5, <1>6 DEF ProcessSound
    <2>7. \A k, l \in Analysis!Runs :
             IsActiveCheck(analysis'[k]) /\ IsActiveCheck(analysis'[l]) => k = l
        BY <1>1, <2>1 DEF OneCheck, RunSound
    <2>8. starting'[d] = "free" => \A k \in Analysis!Runs : ~IsActiveCheck(analysis'[k])
        BY <1>1, <2>1 DEF OneCheck, RunSound
    <2>9. OneCheck(d)'
        BY <2>7, <2>8 DEF OneCheck, IsActiveCheck
    <2>. QED
        BY <2>6, <2>9
<1>. QED
    BY <1>2, <1>3, <1>4, <1>5, <1>6 DEF AnalysisInv, AloneSound

(* run_analysis inserts its row: what is left to show is whose task it is. *)
LEMMA AskKeeps ==
    ASSUME AnalysisInv, NEW j \in Analysis!Runs, NEW w \in Workers \cup {"none"},
           Analysis!Ask(w, j), TasksStay,
           UNCHANGED <<workers, worker, league, starting, doomed, crashes>>,
           \A d \in Workers : workers = {d} => w = d /\ worker[d] = "up"
    PROVE  AnalysisInv'
<1>. DEFINE row == [kind |-> "analyst", status |-> "running"]
            tk == [at |-> "working", by |-> w]
<1>1. row \in Analysis!RunRows /\ row.kind = "analyst" /\ row.status = "running"
    BY DEF Analysis!RunRows, Analysis!ActiveChecks
<1>2. tk \in Analysis!RunTasks /\ tk.by = w
    BY DEF Analysis!RunTasks
<1>3. /\ analysis' = [analysis EXCEPT ![j] = row] /\ analysisTask' = [analysisTask EXCEPT ![j] = tk]
      /\ analysis[j].status = "none"
    BY DEF Analysis!Ask, Analysis!IsNext
<1>4. ~IsActiveCheck(row)
    BY <1>1 DEF IsActiveCheck
<1>. HIDE DEF row, tk
<1>5. /\ starting' \in [Workers -> {"no", "free", "taken"}]
      /\ doomed' \in [Workers -> SUBSET Analysis!Runs]
    BY DEF AnalysisInv, Analysis!TypeOK
<1>6. \A v \in Workers : worker[v] = "picked" => j \notin doomed'[v]
    BY <1>3 DEF AnalysisInv, KindsSound
<1>7. ASSUME NEW d \in Workers, workers = {d} PROVE RunSound(d, j, row, tk)
    BY <1>1, <1>2, <1>4, <1>7 DEF AnalysisInv, AloneSound, ProcessSound, RunSound
<1>. QED
    BY <1>1, <1>2, <1>3, <1>5, <1>6, <1>7, RunMoves

(* POST /analysis starts a run of the analyst.                             *)
LEMMA AskAnalystKeeps ==
    ASSUME AnalysisInv, NEW w \in Workers, Analysis!AskAnalyst(w)
    PROVE  AnalysisInv'
<1>1. TasksStay
    BY DEF Analysis!AskAnalyst, TasksStay, AnalysisInv, Analysis!TypeOK
<1>2. \A d \in Workers : workers = {d} => w = d /\ worker[d] = "up"
    BY OnlyWorkerUp DEF Analysis!AskAnalyst
<1>. QED
    BY <1>1, <1>2, AskKeeps DEF Analysis!AskAnalyst

(* The analyst is asked to explain a frozen report, or nobody is.          *)
LEMMA ExplainKeeps ==
    ASSUME AnalysisInv, NEW i \in Analysis!LeagueRuns, Analysis!ExplainReport(i)
    PROVE  AnalysisInv'
<1>1. leagueTask[i].at = "analyzing" /\ leagueTask[i] \in Analysis!LeagueTasks
      /\ leagueTask[i].by \in Workers \cup {"none"}
    BY AnalysisTyped DEF Analysis!ExplainReport, AnalysisInv
<1>2. \A d \in Workers : workers = {d} => leagueTask[i].by = d /\ worker[d] = "up"
    BY <1>1, LeagueTaskOf
<1>3. ASSUME NEW j \in Analysis!Runs, Analysis!Ask(leagueTask[i].by, j),
             leagueTask' = [leagueTask EXCEPT ![i].at = "asking", ![i].asks = j]
      PROVE  AnalysisInv'
    <2>. DEFINE t == [[leagueTask[i] EXCEPT !.at = "asking"] EXCEPT !.asks = j]
    <2>1. leagueTask' = [leagueTask EXCEPT ![i] = t]
        BY <1>3 DEF AnalysisInv, Analysis!TypeOK
    <2>2. t \in Analysis!LeagueTasks /\ t.at = "asking" /\ t.by = leagueTask[i].by
        BY <1>1 DEF Analysis!LeagueTasks
    <2>. HIDE DEF t
    <2>3. TasksStay
        BY <1>1, <2>1, <2>2 DEF TasksStay, AnalysisInv, Analysis!TypeOK
    <2>. QED
        BY <1>1, <1>2, <1>3, <2>3, AskKeeps DEF Analysis!ExplainReport
<1>4. ASSUME leagueTask' = [leagueTask EXCEPT ![i].at = "answered"],
             UNCHANGED <<analysis, analysisTask>>
      PROVE  AnalysisInv'
    <2>. DEFINE t == [leagueTask[i] EXCEPT !.at = "answered"]
    <2>1. leagueTask' = [leagueTask EXCEPT ![i] = t] /\ league' = [league EXCEPT ![i] = league[i]]
        BY <1>4 DEF AnalysisInv, Analysis!TypeOK, Analysis!ExplainReport
    <2>2. t \in Analysis!LeagueTasks /\ t.at = "answered" /\ t.by = leagueTask[i].by
        BY <1>1 DEF Analysis!LeagueTasks
    <2>. HIDE DEF t
    <2>3. league[i] \in Analysis!LeagueRows /\ league[i].frozen
        BY <1>1, AnalysisTyped DEF AnalysisInv, Analysis!ForecastsSurvive
    <2>4. league[i].status \in Analysis!Active =>
            \A k \in Analysis!LeagueRuns \ {i} : league[k].status \notin Analysis!Active
        BY DEF AnalysisInv, OneActive
    <2>5. \A d \in Workers : workers = {d} =>
            t.by = d /\ league[i].status \in Analysis!Active /\ worker[d] = "up"
        BY <1>1, <2>2, LeagueTaskOf
    <2>6. UNCHANGED <<workers, worker, analysis, analysisTask, starting, doomed, crashes>>
        BY <1>4 DEF Analysis!ExplainReport
    <2>. QED
        BY <2>1, <2>2, <2>3, <2>4, <2>5, <2>6, LeagueMoves
<1>. QED
    BY <1>3, <1>4 DEF Analysis!ExplainReport

(* The task of row j ends and the row is given an outcome, or stays.       *)
LEMMA RunEnds ==
    ASSUME AnalysisInv, NEW j \in Analysis!Runs, NEW row \in Analysis!RunRows, TasksStay,
           analysis' = [analysis EXCEPT ![j] = row],
           analysisTask' = [analysisTask EXCEPT ![j] = NoRunTask],
           UNCHANGED <<workers, worker, league, starting, doomed, crashes>>,
           analysisTask[j].at # "none", row.kind = analysis[j].kind,
           row.status \in {"completed", "failed"} \/ row = analysis[j]
    PROVE  AnalysisInv'
<1>1. NoRunTask \in Analysis!RunTasks /\ NoRunTask.at = "none"
    BY AnalysisTyped DEF AnalysisInv
<1>2. /\ starting' \in [Workers -> {"no", "free", "taken"}]
      /\ doomed' \in [Workers -> SUBSET Analysis!Runs]
    BY DEF AnalysisInv, Analysis!TypeOK
<1>3. /\ row.status = "none" => row.kind = "none"
      /\ \A w \in Workers : worker[w] = "picked" => row.kind = "check" \/ j \notin doomed'[w]
    BY DEF AnalysisInv, KindsSound
<1>4. IsActiveCheck(row) => row = analysis[j]
    BY DEF IsActiveCheck, Analysis!ActiveChecks
<1>5. ASSUME NEW d \in Workers, workers = {d} PROVE RunSound(d, j, row, NoRunTask)
    <2>1. worker[d] = "up"
        BY <1>5 DEF AnalysisInv, AloneSound, ProcessSound
    <2>2. IsActiveCheck(row) =>
            /\ \A k \in Analysis!Runs \ {j} : ~IsActiveCheck(analysis[k])
            /\ starting[d] # "free"
        BY <1>4, <1>5 DEF AnalysisInv, AloneSound, OneCheck
    <2>. QED
        BY <1>1, <1>5, <2>1, <2>2 DEF AnalysisInv, AloneSound, ProcessSound, RunSound
<1>. QED
    BY <1>1, <1>2, <1>3, <1>5, RunMoves

(* The row with another status.                                            *)
LEMMA RunRowAt ==
    ASSUME AnalysisInv, NEW j \in Analysis!Runs,
           NEW status \in Analysis!ActiveChecks \cup {"completed", "failed"}
    PROVE  /\ [analysis[j] EXCEPT !.status = status] \in Analysis!RunRows
           /\ [analysis[j] EXCEPT !.status = status].status = status
           /\ [analysis[j] EXCEPT !.status = status].kind = analysis[j].kind
<1>1. analysis[j] \in Analysis!RunRows
    BY AnalysisTyped DEF AnalysisInv
<1>. QED
    BY <1>1 DEF Analysis!RunRows

(* The provider answers or fails, and the report that waits goes on.       *)
LEMMA AnswerKeeps ==
    ASSUME AnalysisInv, NEW j \in Analysis!Runs, Analysis!Answer(j)
    PROVE  AnalysisInv'
<1>1. PICK status \in {"completed", "failed"} : analysis' = [analysis EXCEPT ![j].status = status]
    BY DEF Analysis!Answer
<1>. DEFINE row == [analysis[j] EXCEPT !.status = status]
<1>2. row \in Analysis!RunRows /\ row.status = status /\ row.kind = analysis[j].kind
    BY RunRowAt
<1>3. analysis' = [analysis EXCEPT ![j] = row]
    BY <1>1 DEF AnalysisInv, Analysis!TypeOK
<1>. HIDE DEF row
<1>4. ASSUME NEW i \in Analysis!LeagueRuns
      PROVE  /\ leagueTask'[i] \in Analysis!LeagueTasks
             /\ leagueTask'[i] = leagueTask[i]
                \/ (leagueTask[i].at = "asking" /\ leagueTask'[i].at = "answered"
                     /\ leagueTask'[i].by = leagueTask[i].by)
    <2>1. /\ [leagueTask[i] EXCEPT !.at = "answered"] \in Analysis!LeagueTasks
          /\ [leagueTask[i] EXCEPT !.at = "answered"].at = "answered"
          /\ [leagueTask[i] EXCEPT !.at = "answered"].by = leagueTask[i].by
        <3>1. leagueTask[i] \in Analysis!LeagueTasks
            BY AnalysisTyped DEF AnalysisInv
        <3>. QED
            BY <3>1 DEF Analysis!LeagueTasks
    <2>2. leagueTask[i] \in Analysis!LeagueTasks
        BY AnalysisTyped DEF AnalysisInv
    <2>. QED
        BY <2>1, <2>2 DEF Analysis!Answer
<1>5. leagueTask' \in [Analysis!LeagueRuns -> Analysis!LeagueTasks]
    BY <1>4 DEF Analysis!Answer
<1>6. TasksStay
    BY <1>4, <1>5 DEF TasksStay
<1>. QED
    BY <1>2, <1>3, <1>6, RunEnds DEF Analysis!Answer, NoRunTask

(* An injury check ends with an outcome.                                   *)
LEMMA FinishCheckKeeps ==
    ASSUME AnalysisInv, NEW j \in Analysis!Runs, Analysis!FinishCheck(j)
    PROVE  AnalysisInv'
<1>1. PICK status \in {"completed", "failed"} : analysis' = [analysis EXCEPT ![j].status = status]
    BY DEF Analysis!FinishCheck
<1>. DEFINE row == [analysis[j] EXCEPT !.status = status]
<1>2. row \in Analysis!RunRows /\ row.status = status /\ row.kind = analysis[j].kind
    BY RunRowAt
<1>3. analysis' = [analysis EXCEPT ![j] = row]
    BY <1>1 DEF AnalysisInv, Analysis!TypeOK
<1>. HIDE DEF row
<1>4. TasksStay
    BY DEF Analysis!FinishCheck, TasksStay, AnalysisInv, Analysis!TypeOK
<1>. QED
    BY <1>2, <1>3, <1>4, RunEnds DEF Analysis!FinishCheck, NoRunTask

(* start_check looks for an active check under its lock.                   *)
LEMMA LookKeeps ==
    ASSUME AnalysisInv, NEW w \in Workers, Analysis!LookForCheck(w)
    PROVE  AnalysisInv'
<1>. DEFINE found == IF \E j \in Analysis!Runs : IsActiveCheck(analysis[j]) THEN "taken" ELSE "free"
<1>1. /\ starting' = [starting EXCEPT ![w] = found] /\ worker[w] = "up"
      /\ UNCHANGED <<workers, worker, league, leagueTask, analysis, analysisTask, doomed, crashes>>
    BY DEF Analysis!LookForCheck, IsActiveCheck
<1>2. found \in {"free", "taken"} /\ (found = "free" => \A j \in Analysis!Runs : ~IsActiveCheck(analysis[j]))
    OBVIOUS
<1>. HIDE DEF found
<1>3. /\ starting' \in [Workers -> {"no", "free", "taken"}] /\ starting'[w] = found
      /\ \A v \in Workers \ {w} : starting'[v] = starting[v]
    BY <1>1, <1>2 DEF AnalysisInv, Analysis!TypeOK
<1>4. Analysis!TypeOK' /\ Analysis!ForecastsSurvive' /\ OneActive' /\ KindsSound'
    BY <1>1, <1>3 DEF AnalysisInv, Analysis!TypeOK, Analysis!ForecastsSurvive, OneActive, KindsSound
<1>5. ASSUME NEW d \in Workers, workers = {d} PROVE ProcessSound(d)' /\ OneCheck(d)'
    <2>1. w = d /\ ProcessSound(d) /\ OneCheck(d)
        BY <1>1, <1>5, OnlyWorkerUp
    <2>. QED
        BY <1>1, <1>2, <1>3, <1>5, <2>1 DEF ProcessSound, OneCheck
<1>. QED
    BY <1>1, <1>4, <1>5 DEF AnalysisInv, AloneSound

(* start_check inserts its row if it found none: the lock kept others      *)
(* from inserting one since.                                               *)
LEMMA StartCheckKeeps ==
    ASSUME AnalysisInv, NEW w \in Workers, Analysis!StartCheck(w)
    PROVE  AnalysisInv'
<1>1. /\ starting[w] # "no" /\ starting' = [starting EXCEPT ![w] = "no"]
      /\ UNCHANGED <<workers, worker, league, leagueTask, doomed, crashes>>
    BY DEF Analysis!StartCheck
<1>2. /\ starting' \in [Workers -> {"no", "free", "taken"}] /\ starting'[w] = "no"
      /\ \A v \in Workers \ {w} : starting'[v] = starting[v]
      /\ doomed' \in [Workers -> SUBSET Analysis!Runs]
    BY <1>1 DEF AnalysisInv, Analysis!TypeOK
<1>3. ASSUME NEW d \in Workers, workers = {d}
      PROVE  w = d /\ ProcessSound(d) /\ OneCheck(d) /\ worker[d] = "up"
    BY <1>1, <1>3 DEF AnalysisInv, AloneSound, ProcessSound
<1>4. CASE UNCHANGED <<analysis, analysisTask>>
    <2>1. Analysis!TypeOK' /\ Analysis!ForecastsSurvive' /\ OneActive' /\ KindsSound'
        BY <1>1, <1>2, <1>4
           DEF AnalysisInv, Analysis!TypeOK, Analysis!ForecastsSurvive, OneActive, KindsSound
    <2>2. ASSUME NEW d \in Workers, workers = {d} PROVE ProcessSound(d)' /\ OneCheck(d)'
        BY <1>1, <1>2, <1>3, <1>4, <2>2 DEF ProcessSound, OneCheck
    <2>. QED
        BY <1>1, <2>1, <2>2 DEF AnalysisInv, AloneSound
<1>5. ASSUME starting[w] = "free", NEW j \in Analysis!Runs, Analysis!IsNext(j, analysis),
             analysis' = [analysis EXCEPT ![j] = [kind |-> "check", status |-> "queued"]],
             analysisTask' = [analysisTask EXCEPT ![j] = [at |-> "queued", by |-> w]]
      PROVE  AnalysisInv'
    <2>. DEFINE row == [kind |-> "check", status |-> "queued"]
                tk == [at |-> "queued", by |-> w]
    <2>1. row \in Analysis!RunRows /\ row.kind = "check" /\ row.status = "queued"
        BY DEF Analysis!RunRows, Analysis!ActiveChecks
    <2>2. tk \in Analysis!RunTasks /\ tk.at = "queued" /\ tk.by = w
        BY DEF Analysis!RunTasks
    <2>3. analysis' = [analysis EXCEPT ![j] = row] /\ analysisTask' = [analysisTask EXCEPT ![j] = tk]
        BY <1>5
    <2>. HIDE DEF row, tk
    <2>4. TasksStay
        BY <1>1 DEF TasksStay, AnalysisInv, Analysis!TypeOK
    <2>5. ASSUME NEW d \in Workers, workers = {d} PROVE RunSound(d, j, row, tk)
        BY <1>2, <1>3, <1>5, <2>1, <2>2, <2>5 DEF RunSound, ProcessSound, OneCheck
    <2>. QED
        BY <1>1, <1>2, <2>1, <2>2, <2>3, <2>4, <2>5, RunMoves
<1>. QED
    BY <1>4, <1>5 DEF Analysis!StartCheck

(* execute_check begins, unless its row was failed before it could.        *)
LEMMA BeginCheckKeeps ==
    ASSUME AnalysisInv, NEW j \in Analysis!Runs, Analysis!BeginCheck(j)
    PROVE  AnalysisInv'
<1>1. /\ analysis[j].kind = "check" /\ analysisTask[j].at = "queued"
      /\ UNCHANGED <<workers, worker, league, leagueTask, starting, doomed, crashes>>
    BY DEF Analysis!BeginCheck
<1>2. TasksStay
    BY <1>1 DEF TasksStay, AnalysisInv, Analysis!TypeOK
<1>3. analysis[j] \in Analysis!RunRows /\ analysisTask[j] \in Analysis!RunTasks
    BY AnalysisTyped DEF AnalysisInv
<1>4. ASSUME analysisTask' = [analysisTask EXCEPT ![j] = [at |-> "none", by |-> "none"]],
             UNCHANGED analysis
      PROVE  AnalysisInv'
    <2>1. analysis' = [analysis EXCEPT ![j] = analysis[j]]
        BY <1>4 DEF AnalysisInv, Analysis!TypeOK
    <2>. QED
        BY <1>1, <1>2, <1>3, <1>4, <2>1, RunEnds DEF NoRunTask
<1>5. ASSUME analysis[j].status = "queued", analysis' = [analysis EXCEPT ![j].status = "running"],
             analysisTask' = [analysisTask EXCEPT ![j].at = "working"]
      PROVE  AnalysisInv'
    <2>. DEFINE row == [analysis[j] EXCEPT !.status = "running"]
                tk == [analysisTask[j] EXCEPT !.at = "working"]
    <2>1. row \in Analysis!RunRows /\ row.status = "running" /\ row.kind = "check"
        BY <1>1, RunRowAt DEF Analysis!ActiveChecks
    <2>2. tk \in Analysis!RunTasks /\ tk.at = "working" /\ tk.by = analysisTask[j].by
        BY <1>3 DEF Analysis!RunTasks
    <2>3. analysis' = [analysis EXCEPT ![j] = row] /\ analysisTask' = [analysisTask EXCEPT ![j] = tk]
        BY <1>5 DEF AnalysisInv, Analysis!TypeOK
    <2>. HIDE DEF row, tk
    <2>4. /\ starting' \in [Workers -> {"no", "free", "taken"}]
          /\ doomed' \in [Workers -> SUBSET Analysis!Runs]
        BY <1>1 DEF AnalysisInv, Analysis!TypeOK
    <2>5. IsActiveCheck(analysis[j])
        BY <1>1, <1>5 DEF IsActiveCheck, Analysis!ActiveChecks
    <2>6. ASSUME NEW d \in Workers, workers = {d} PROVE RunSound(d, j, row, tk)
        <3>1. ProcessSound(d) /\ OneCheck(d)
            BY <2>6 DEF AnalysisInv, AloneSound
        <3>. QED
            BY <1>1, <2>1, <2>2, <2>5, <3>1 DEF RunSound, ProcessSound, OneCheck
    <2>. QED
        BY <1>1, <1>2, <2>1, <2>2, <2>3, <2>4, <2>6, RunMoves
<1>. QED
    BY <1>4, <1>5 DEF Analysis!BeginCheck

(* A startup fails the row, unless the lease of its run is held.           *)
LEMMA RecoverAnalysisKeeps ==
    ASSUME AnalysisInv, NEW w \in Workers, Analysis!RecoverAnalysis(w)
    PROVE  AnalysisInv'
<1>1. PICK j \in doomed[w] :
        /\ analysis' = [analysis EXCEPT ![j].status = IF Analysis!HeldByAnalysis(j) THEN @ ELSE "failed"]
        /\ doomed' = [doomed EXCEPT ![w] = @ \ {j}]
    BY DEF Analysis!RecoverAnalysis
<1>2. /\ worker[w] = "failing"
      /\ UNCHANGED <<workers, worker, league, leagueTask, analysisTask, starting, crashes>>
    BY DEF Analysis!RecoverAnalysis
<1>3. j \in Analysis!Runs
    BY DEF AnalysisInv, Analysis!TypeOK
<1>. DEFINE status == IF Analysis!HeldByAnalysis(j) THEN analysis[j].status ELSE "failed"
            row == [analysis[j] EXCEPT !.status = status]
<1>4. analysis[j] \in Analysis!RunRows /\ analysisTask[j] \in Analysis!RunTasks
    BY <1>3, AnalysisTyped DEF AnalysisInv
<1>5. /\ row \in Analysis!RunRows /\ row.kind = analysis[j].kind
      /\ row = analysis[j] \/ row.status = "failed"
    BY <1>4 DEF Analysis!RunRows
<1>6. /\ analysis' = [analysis EXCEPT ![j] = row]
      /\ analysisTask' = [analysisTask EXCEPT ![j] = analysisTask[j]]
    BY <1>1, <1>2, <1>3 DEF AnalysisInv, Analysis!TypeOK
<1>. HIDE DEF row
<1>7. /\ starting' \in [Workers -> {"no", "free", "taken"}]
      /\ doomed' \in [Workers -> SUBSET Analysis!Runs]
      /\ \A v \in Workers : doomed'[v] \subseteq doomed[v]
      /\ j \notin doomed'[w]
    BY <1>1, <1>2 DEF AnalysisInv, Analysis!TypeOK
<1>8. TasksStay
    BY <1>2 DEF TasksStay, AnalysisInv, Analysis!TypeOK
<1>9. /\ row.status = "none" => row.kind = "none"
      /\ \A v \in Workers : worker[v] = "picked" => row.kind = "check" \/ j \notin doomed'[v]
    BY <1>3, <1>5, <1>7 DEF AnalysisInv, KindsSound
<1>10. ASSUME NEW d \in Workers, workers = {d} PROVE RunSound(d, j, row, analysisTask[j])
    <2>1. w = d /\ ProcessSound(d) /\ OneCheck(d)
        BY <1>2, <1>10, OnlyWorkerUp
    <2>2. analysisTask[j].at = "none" /\ starting[d] = "no"
        BY <1>2, <1>3, <2>1 DEF ProcessSound
    <2>3. IsActiveCheck(row) => row = analysis[j]
        BY <1>5 DEF IsActiveCheck, Analysis!ActiveChecks
    <2>4. IsActiveCheck(row) => \A k \in Analysis!Runs \ {j} : ~IsActiveCheck(analysis[k])
        BY <1>3, <2>1, <2>3 DEF OneCheck
    <2>. QED
        BY <1>2, <1>7, <2>1, <2>2, <2>4 DEF RunSound, ProcessSound
<1>. QED
    BY <1>2, <1>3, <1>4, <1>5, <1>6, <1>7, <1>8, <1>9, <1>10, RunMoves

-----------------------------------------------------------------------------
(* A startup goes on: what it picked, and the rows it has not failed.      *)
LEMMA StartupMoves ==
    ASSUME AnalysisInv, NEW w \in Workers, worker[w] \notin {"off", "up"},
           NEW at \in {"checks", "picked", "analyses", "failing", "up"},
           NEW picked \in SUBSET Analysis!Runs,
           worker' = [worker EXCEPT ![w] = at], doomed' = [doomed EXCEPT ![w] = picked],
           UNCHANGED <<workers, leagueTask, analysisTask, starting, crashes>>,
           league' \in [Analysis!LeagueRuns -> Analysis!LeagueRows],
           analysis' \in [Analysis!Runs -> Analysis!RunRows],
           \A i \in Analysis!LeagueRuns :
             league'[i] = league[i]
             \/ (league'[i].status = "failed" /\ league'[i].frozen = league[i].frozen),
           \A j \in Analysis!Runs :
             analysis'[j] = analysis[j]
             \/ (analysis'[j].status = "failed" /\ analysis'[j].kind = analysis[j].kind
                   /\ analysis[j].kind = "check"),
           at = "picked" =>
             /\ UNCHANGED analysis
             /\ \A j \in picked : IsActiveCheck(analysis[j]),
           at = "failing" =>
             /\ UNCHANGED analysis
             /\ \A j \in picked : analysis[j].status = "running"
    PROVE  AnalysisInv'
<1>1. /\ worker' \in [Workers -> {"off", "down", "checks", "picked", "analyses", "failing", "up"}]
      /\ worker'[w] = at /\ doomed'[w] = picked
      /\ doomed' \in [Workers -> SUBSET Analysis!Runs]
      /\ \A v \in Workers \ {w} : worker'[v] = worker[v] /\ doomed'[v] = doomed[v]
    BY DEF AnalysisInv, Analysis!TypeOK
<1>2. Analysis!TypeOK'
    BY <1>1 DEF AnalysisInv, Analysis!TypeOK
<1>3. Analysis!ForecastsSurvive'
    BY DEF AnalysisInv, Analysis!ForecastsSurvive
<1>4. \A i \in Analysis!LeagueRuns :
         league'[i].status \in Analysis!Active => league[i].status \in Analysis!Active
    BY DEF Analysis!Active
<1>5. OneActive'
    BY <1>4 DEF AnalysisInv, OneActive
<1>6. KindsSound'
    BY <1>1 DEF AnalysisInv, KindsSound, IsActiveCheck
<1>7. \A j \in Analysis!Runs : IsActiveCheck(analysis'[j]) => IsActiveCheck(analysis[j])
    BY DEF IsActiveCheck, Analysis!ActiveChecks
<1>8. ASSUME NEW d \in Workers, workers = {d} PROVE ProcessSound(d)' /\ OneCheck(d)'
    <2>1. w = d /\ ProcessSound(d) /\ OneCheck(d)
        BY <1>8, OnlyWorkerUp
    <2>2. /\ \A i \in Analysis!LeagueRuns : leagueTask[i].at = "none"
          /\ \A j \in Analysis!Runs : analysisTask[j].at = "none"
          /\ starting[d] = "no"
        BY <2>1 DEF ProcessSound
    <2>3. ProcessSound(d)'
        BY <1>1, <2>1, <2>2 DEF ProcessSound, IsActiveCheck
    <2>4. OneCheck(d)'
        BY <1>7, <2>1, <2>2 DEF OneCheck, IsActiveCheck
    <2>. QED
        BY <2>3, <2>4
<1>. QED
    BY <1>2, <1>3, <1>5, <1>6, <1>8 DEF AnalysisInv, AloneSound

(* What a startup's writes leave of a row.                                 *)
LEMMA FailedRows ==
    ASSUME AnalysisInv
    PROVE  /\ \A i \in Analysis!LeagueRuns :
                LET row == [league[i] EXCEPT !.status = "failed"]
                IN  row \in Analysis!LeagueRows /\ row.status = "failed" /\ row.frozen = league[i].frozen
           /\ \A j \in Analysis!Runs :
                LET row == [analysis[j] EXCEPT !.status = "failed"]
                IN  row \in Analysis!RunRows /\ row.status = "failed" /\ row.kind = analysis[j].kind
<1>1. ASSUME NEW i \in Analysis!LeagueRuns, NEW row, row = [league[i] EXCEPT !.status = "failed"]
      PROVE  row \in Analysis!LeagueRows /\ row.status = "failed" /\ row.frozen = league[i].frozen
    <2>1. league[i] \in Analysis!LeagueRows
        BY AnalysisTyped DEF AnalysisInv
    <2>. QED
        BY <1>1, <2>1 DEF Analysis!LeagueRows, Analysis!Ended
<1>2. ASSUME NEW j \in Analysis!Runs, NEW row, row = [analysis[j] EXCEPT !.status = "failed"]
      PROVE  row \in Analysis!RunRows /\ row.status = "failed" /\ row.kind = analysis[j].kind
    <2>1. analysis[j] \in Analysis!RunRows
        BY AnalysisTyped DEF AnalysisInv
    <2>. QED
        BY <1>2, <2>1 DEF Analysis!RunRows
<1>. QED
    BY <1>1, <1>2

(* A startup fails the active analyses of leagues: with one process no     *)
(* task executes them.                                                     *)
LEMMA RecoverLeaguesKeeps ==
    ASSUME AnalysisInv, NEW w \in Workers, Analysis!RecoverLeagueAnalyses(w)
    PROVE  AnalysisInv'
<1>1. /\ worker[w] = "down" /\ worker' = [worker EXCEPT ![w] = "checks"]
      /\ UNCHANGED <<workers, leagueTask, analysis, analysisTask, starting, doomed, crashes>>
      /\ league' = [i \in Analysis!LeagueRuns |->
                      IF league[i].status \in Analysis!Active
                      THEN [league[i] EXCEPT !.status = "failed"] ELSE league[i]]
    BY DEF Analysis!RecoverLeagueAnalyses
<1>2. \A i \in Analysis!LeagueRuns :
         /\ league[i] \in Analysis!LeagueRows /\ league'[i] \in Analysis!LeagueRows
         /\ league'[i] = league[i]
            \/ (league'[i].status = "failed" /\ league'[i].frozen = league[i].frozen)
    BY <1>1, FailedRows, AnalysisTyped DEF AnalysisInv
<1>3. league' \in [Analysis!LeagueRuns -> Analysis!LeagueRows]
    BY <1>1, <1>2
<1>4. doomed' = [doomed EXCEPT ![w] = doomed[w]] /\ doomed[w] \in SUBSET Analysis!Runs
      /\ analysis' \in [Analysis!Runs -> Analysis!RunRows]
    BY <1>1 DEF AnalysisInv, Analysis!TypeOK
<1>. QED
    BY <1>1, <1>2, <1>3, <1>4, StartupMoves

(* A startup picks the active checks whose lease is free.                  *)
LEMMA PickChecksKeeps ==
    ASSUME AnalysisInv, NEW w \in Workers, Analysis!PickChecks(w)
    PROVE  AnalysisInv'
<1>. DEFINE picked == {j \in Analysis!Runs :
                         /\ analysis[j].kind = "check" /\ analysis[j].status \in Analysis!ActiveChecks
                         /\ ~Analysis!HeldByCheck(j)}
<1>1. /\ worker[w] = "checks" /\ worker' = [worker EXCEPT ![w] = "picked"]
      /\ doomed' = [doomed EXCEPT ![w] = picked]
      /\ UNCHANGED <<workers, league, leagueTask, analysis, analysisTask, starting, crashes>>
    BY DEF Analysis!PickChecks
<1>2. picked \in SUBSET Analysis!Runs /\ \A j \in picked : IsActiveCheck(analysis[j])
    BY DEF IsActiveCheck
<1>. HIDE DEF picked
<1>3. /\ league' \in [Analysis!LeagueRuns -> Analysis!LeagueRows]
      /\ analysis' \in [Analysis!Runs -> Analysis!RunRows]
    BY <1>1 DEF AnalysisInv, Analysis!TypeOK
<1>. QED
    BY <1>1, <1>2, <1>3, StartupMoves

(* A startup fails the checks it picked.                                   *)
LEMMA RecoverChecksKeeps ==
    ASSUME AnalysisInv, NEW w \in Workers, Analysis!RecoverInjuryChecks(w)
    PROVE  AnalysisInv'
<1>. DEFINE picked == {}
<1>1. /\ worker[w] = "picked" /\ worker' = [worker EXCEPT ![w] = "analyses"]
      /\ doomed' = [doomed EXCEPT ![w] = picked]
      /\ analysis' = [j \in Analysis!Runs |->
                        IF j \in doomed[w] THEN [analysis[j] EXCEPT !.status = "failed"]
                        ELSE analysis[j]]
      /\ UNCHANGED <<workers, league, leagueTask, analysisTask, starting, crashes>>
    BY DEF Analysis!RecoverInjuryChecks
<1>4. picked \in SUBSET Analysis!Runs
    OBVIOUS
<1>2. \A j \in Analysis!Runs :
         /\ analysis'[j] \in Analysis!RunRows
         /\ analysis'[j] = analysis[j]
            \/ (analysis'[j].status = "failed" /\ analysis'[j].kind = analysis[j].kind
                  /\ analysis[j].kind = "check")
    BY <1>1, FailedRows, AnalysisTyped DEF AnalysisInv, KindsSound
<1>. HIDE DEF picked
<1>3. /\ league' \in [Analysis!LeagueRuns -> Analysis!LeagueRows]
      /\ analysis' \in [Analysis!Runs -> Analysis!RunRows]
    BY <1>1, <1>2 DEF AnalysisInv, Analysis!TypeOK
<1>. QED
    BY <1>1, <1>2, <1>3, <1>4, StartupMoves

(* A startup picks the rows that are running.                              *)
LEMMA PickRunningKeeps ==
    ASSUME AnalysisInv, NEW w \in Workers, Analysis!PickRunning(w)
    PROVE  AnalysisInv'
<1>. DEFINE picked == {j \in Analysis!Runs : analysis[j].status = "running"}
<1>1. /\ worker[w] = "analyses" /\ worker' = [worker EXCEPT ![w] = "failing"]
      /\ doomed' = [doomed EXCEPT ![w] = picked]
      /\ UNCHANGED <<workers, league, leagueTask, analysis, analysisTask, starting, crashes>>
    BY DEF Analysis!PickRunning
<1>2. picked \in SUBSET Analysis!Runs /\ \A j \in picked : analysis[j].status = "running"
    OBVIOUS
<1>. HIDE DEF picked
<1>3. /\ league' \in [Analysis!LeagueRuns -> Analysis!LeagueRows]
      /\ analysis' \in [Analysis!Runs -> Analysis!RunRows]
    BY <1>1 DEF AnalysisInv, Analysis!TypeOK
<1>. QED
    BY <1>1, <1>2, <1>3, StartupMoves

(* A startup ends when every row it picked is dealt with.                  *)
LEMMA StartupEndKeeps ==
    ASSUME AnalysisInv, NEW w \in Workers, Analysis!Serve(w)
    PROVE  AnalysisInv'
<1>. DEFINE picked == doomed[w]
<1>1. /\ worker[w] = "failing" /\ worker' = [worker EXCEPT ![w] = "up"]
      /\ UNCHANGED <<workers, league, leagueTask, analysis, analysisTask, starting, doomed, crashes>>
    BY DEF Analysis!Serve
<1>2. doomed' = [doomed EXCEPT ![w] = picked] /\ picked \in SUBSET Analysis!Runs
    BY <1>1 DEF AnalysisInv, Analysis!TypeOK
<1>. HIDE DEF picked
<1>3. /\ league' \in [Analysis!LeagueRuns -> Analysis!LeagueRows]
      /\ analysis' \in [Analysis!Runs -> Analysis!RunRows]
    BY <1>1 DEF AnalysisInv, Analysis!TypeOK
<1>. QED
    BY <1>1, <1>2, <1>3, StartupMoves

(* A worker stops: its tasks and what it had found or picked are gone.     *)
LEMMA AnalysisCrashKeeps ==
    ASSUME AnalysisInv, NEW w \in Workers, Analysis!Crash(w)
    PROVE  AnalysisInv'
<1>1. /\ worker[w] # "off" /\ worker' = [worker EXCEPT ![w] = "down"]
      /\ starting' = [starting EXCEPT ![w] = "no"] /\ doomed' = [doomed EXCEPT ![w] = {}]
      /\ UNCHANGED <<workers, league, analysis>>
      /\ crashes < MaxCrashes /\ crashes' = crashes + 1
    BY DEF Analysis!Crash
<1>2. crashes' \in 0..MaxCrashes
    BY <1>1, AnalysisTyped DEF AnalysisInv
<1>3. /\ worker' \in [Workers -> {"off", "down", "checks", "picked", "analyses", "failing", "up"}]
      /\ starting' \in [Workers -> {"no", "free", "taken"}]
      /\ doomed' \in [Workers -> SUBSET Analysis!Runs]
      /\ worker'[w] = "down" /\ starting'[w] = "no" /\ doomed'[w] = {}
      /\ \A v \in Workers \ {w} :
           worker'[v] = worker[v] /\ starting'[v] = starting[v] /\ doomed'[v] = doomed[v]
    BY <1>1 DEF AnalysisInv, Analysis!TypeOK
<1>4. \A i \in Analysis!LeagueRuns :
         /\ leagueTask[i] \in Analysis!LeagueTasks /\ leagueTask'[i] \in Analysis!LeagueTasks
         /\ leagueTask'[i].at = "none" \/ leagueTask'[i] = leagueTask[i]
         /\ leagueTask[i].by = w => leagueTask'[i].at = "none"
    BY AnalysisTyped DEF Analysis!Crash, AnalysisInv
<1>5. \A j \in Analysis!Runs :
         /\ analysisTask[j] \in Analysis!RunTasks /\ analysisTask'[j] \in Analysis!RunTasks
         /\ analysisTask'[j].at = "none" \/ analysisTask'[j] = analysisTask[j]
         /\ analysisTask[j].by = w => analysisTask'[j].at = "none"
    BY AnalysisTyped DEF Analysis!Crash, AnalysisInv, NoRunTask
<1>6. /\ leagueTask' \in [Analysis!LeagueRuns -> Analysis!LeagueTasks]
      /\ analysisTask' \in [Analysis!Runs -> Analysis!RunTasks]
    BY <1>4, <1>5 DEF Analysis!Crash
<1>7. Analysis!TypeOK'
    BY <1>1, <1>2, <1>3, <1>6 DEF AnalysisInv, Analysis!TypeOK
<1>8. Analysis!ForecastsSurvive'
    BY <1>1, <1>4 DEF AnalysisInv, Analysis!ForecastsSurvive
<1>9. OneActive' /\ KindsSound'
    BY <1>1, <1>3 DEF AnalysisInv, OneActive, KindsSound
<1>10. ASSUME NEW d \in Workers, workers = {d} PROVE ProcessSound(d)' /\ OneCheck(d)'
    <2>1. w = d /\ ProcessSound(d) /\ OneCheck(d)
        BY <1>1, <1>10, OnlyWorkerUp
    <2>2. /\ \A i \in Analysis!LeagueRuns : leagueTask'[i].at = "none"
          /\ \A j \in Analysis!Runs : analysisTask'[j].at = "none"
        BY <1>4, <1>5, <2>1 DEF ProcessSound
    <2>. QED
        BY <1>1, <1>3, <2>1, <2>2 DEF ProcessSound, OneCheck
<1>. QED
    BY <1>1, <1>7, <1>8, <1>9, <1>10 DEF AnalysisInv, AloneSound

(* Every step of the analyses keeps their inductive invariant.             *)
LEMMA AnalysisKept ==
    ASSUME AnalysisInv, [Analysis!Next]_(Analysis!vars)
    PROVE  AnalysisInv'
<1>1. CASE UNCHANGED Analysis!vars
    BY <1>1 DEF Analysis!vars, AnalysisInv, Analysis!TypeOK, Analysis!ForecastsSurvive, OneActive,
                KindsSound, AloneSound, ProcessSound, OneCheck, IsActiveCheck
<1>2. CASE \E w \in Workers, i \in Analysis!LeagueRuns : Analysis!StartLeague(w, i)
    BY <1>2, StartLeagueKeeps
<1>3. CASE \E i \in Analysis!LeagueRuns : Analysis!ExecuteLeague(i)
    BY <1>3, BeginLeagueKeeps, RefreshKeeps, FreezeKeeps, ExplainKeeps, PublishKeeps,
       FailLeagueKeeps DEF Analysis!ExecuteLeague
<1>4. CASE \E w \in Workers :
             Analysis!AskAnalyst(w) \/ Analysis!LookForCheck(w) \/ Analysis!StartCheck(w)
    BY <1>4, AskAnalystKeeps, LookKeeps, StartCheckKeeps
<1>5. CASE \E j \in Analysis!Runs : Analysis!ExecuteRun(j)
    BY <1>5, AnswerKeeps, BeginCheckKeeps, FinishCheckKeeps DEF Analysis!ExecuteRun
<1>6. CASE \E w \in Workers : Analysis!Crash(w)
    BY <1>6, AnalysisCrashKeeps
<1>7. CASE \E w \in Workers : Analysis!Lifespan(w)
    BY <1>7, RecoverLeaguesKeeps, PickChecksKeeps, RecoverChecksKeeps, PickRunningKeeps,
       RecoverAnalysisKeeps, StartupEndKeeps DEF Analysis!Lifespan
<1>. QED
    BY <1>1, <1>2, <1>3, <1>4, <1>5, <1>6, <1>7 DEF Analysis!Next

(* A step of the composition is a step of the analyses or leaves them      *)
(* alone.                                                                  *)
LEMMA AnalysisOnly ==
    ASSUME [Next]_vars PROVE [Analysis!Next]_(Analysis!vars)
BY DEF Next, vars, RunnerStep, JobStep, BackupStep, BundleStep, AnalysisStep, analysisVars,
       Analysis!vars

(* One analysis of a league is active at a time.                           *)
LEMMA OneLeagueAtATime ==
    ASSUME AnalysisInv PROVE Analysis!OneActiveLeague
BY SameCardinality, AtMostOne DEF AnalysisInv, OneActive, Analysis!OneActiveLeague

(* One process is deployed where one is counted.                           *)
LEMMA OneDeployed ==
    ASSUME AnalysisInv, Analysis!Cardinality(workers) = 1
    PROVE  \E d \in Workers : workers = {d}
<1>1. workers \in SUBSET Workers /\ IsFiniteSet(Workers)
    BY AnalysisAssumption DEF AnalysisInv, Analysis!TypeOK, Analysis!AnalysesAssumption,
                              Analysis!IsFiniteSet, IsFiniteSet
<1>2. IsFiniteSet(workers)
    BY <1>1, FS_Subset
<1>3. Cardinality(workers) = 1
    BY SameCardinality
<1>. QED
    BY <1>1, <1>2, <1>3, FS_Singleton

(* Where one process is deployed, one check of a player is active, and     *)
(* what executes is running.                                               *)
LEMMA OneCheckAtATime ==
    ASSUME AnalysisInv PROVE Analysis!OneCheckRuns
<1>. SUFFICES ASSUME Analysis!Cardinality(workers) = 1
              PROVE  /\ Analysis!Cardinality({j \in Analysis!Runs :
                           analysis[j].kind = "check"
                           /\ analysis[j].status \in Analysis!ActiveChecks}) <= 1
                     /\ \A j \in Analysis!Runs :
                          analysisTask[j].at = "working" => analysis[j].status = "running"
    BY DEF Analysis!OneCheckRuns
<1>1. PICK d \in Workers : workers = {d} /\ ProcessSound(d) /\ OneCheck(d)
    BY OneDeployed DEF AnalysisInv, AloneSound
<1>2. \A j, k \in {j \in Analysis!Runs : analysis[j].kind = "check"
                                         /\ analysis[j].status \in Analysis!ActiveChecks} : j = k
    BY <1>1 DEF OneCheck, IsActiveCheck
<1>. QED
    BY <1>1, <1>2, SameCardinality, AtMostOne DEF ProcessSound

-----------------------------------------------------------------------------
(* Who writes a row of AnalysisRun: its creation, the task that ends with  *)
(* it, execute_check as it begins, or a startup that picked it.            *)
LEMMA RunsWritten ==
    ASSUME AnalysisInv, [Analysis!Next]_(Analysis!vars), NEW j \in Analysis!Runs
    PROVE  \/ analysis'[j] = analysis[j]
           \/ analysis[j].status = "none"
           \/ analysisTask[j].at = "working" /\ analysisTask'[j] # analysisTask[j]
           \/ analysis[j].kind = "check" /\ analysis[j].status = "queued"
           \/ \E w \in Workers : worker[w] = "picked" /\ j \in doomed[w]
           \/ \E w \in Workers :
                worker[w] = "failing" /\ j \in doomed[w] /\ ~Analysis!HeldByAnalysis(j)
<1>. DEFINE Written ==
              \/ analysis'[j] = analysis[j]
              \/ analysis[j].status = "none"
              \/ analysisTask[j].at = "working" /\ analysisTask'[j] # analysisTask[j]
              \/ analysis[j].kind = "check" /\ analysis[j].status = "queued"
              \/ \E w \in Workers : worker[w] = "picked" /\ j \in doomed[w]
              \/ \E w \in Workers :
                   worker[w] = "failing" /\ j \in doomed[w] /\ ~Analysis!HeldByAnalysis(j)
<1>. SUFFICES Written
    OBVIOUS
<1>1. /\ analysis \in [Analysis!Runs -> Analysis!RunRows]
      /\ analysisTask \in [Analysis!Runs -> Analysis!RunTasks]
    BY DEF AnalysisInv, Analysis!TypeOK
<1>2. CASE UNCHANGED analysis
    BY <1>2
<1>3. ASSUME NEW k \in Analysis!Runs, analysis[k].status = "none", NEW row,
             analysis' = [analysis EXCEPT ![k] = row]
      PROVE  Written
    BY <1>1, <1>3
<1>4. ASSUME NEW k \in Analysis!Runs, Analysis!Answer(k) \/ Analysis!FinishCheck(k)
      PROVE  Written
    <2>1. /\ analysisTask[k].at = "working" /\ analysisTask'[k].at = "none"
          /\ \A l \in Analysis!Runs \ {k} : analysis'[l] = analysis[l]
        BY <1>1, <1>4 DEF Analysis!Answer, Analysis!FinishCheck
    <2>. QED
        BY <2>1
<1>5. ASSUME NEW k \in Analysis!Runs, Analysis!BeginCheck(k) PROVE Written
    BY <1>1, <1>5 DEF Analysis!BeginCheck
<1>6. ASSUME NEW w \in Workers, Analysis!RecoverInjuryChecks(w) PROVE Written
    BY <1>1, <1>6 DEF Analysis!RecoverInjuryChecks
<1>7. ASSUME NEW w \in Workers, Analysis!RecoverAnalysis(w) PROVE Written
    <2>1. PICK k \in doomed[w] :
            analysis' = [analysis EXCEPT ![k].status =
                           IF Analysis!HeldByAnalysis(k) THEN @ ELSE "failed"]
        BY <1>7 DEF Analysis!RecoverAnalysis
    <2>2. k \in Analysis!Runs /\ worker[w] = "failing"
        BY <1>7 DEF AnalysisInv, Analysis!TypeOK, Analysis!RecoverAnalysis
    <2>3. \A l \in Analysis!Runs \ {k} : analysis'[l] = analysis[l]
        BY <1>1, <2>1
    <2>4. Analysis!HeldByAnalysis(k) => analysis'[k] = analysis[k]
        BY <1>1, <2>1, <2>2 DEF Analysis!RunRows
    <2>. QED
        BY <2>1, <2>2, <2>3, <2>4
<1>8. ASSUME NEW i \in Analysis!LeagueRuns, Analysis!ExecuteLeague(i) PROVE Written
    BY <1>2, <1>3, <1>8
       DEF Analysis!ExecuteLeague, Analysis!BeginLeague, Analysis!RefreshSources,
           Analysis!FreezeReport, Analysis!ExplainReport, Analysis!Ask, Analysis!IsNext,
           Analysis!PublishReport, Analysis!FailLeague
<1>9. ASSUME NEW w \in Workers,
             Analysis!AskAnalyst(w) \/ Analysis!LookForCheck(w) \/ Analysis!StartCheck(w)
      PROVE  Written
    BY <1>2, <1>3, <1>9 DEF Analysis!AskAnalyst, Analysis!LookForCheck, Analysis!StartCheck,
                            Analysis!Ask, Analysis!IsNext
<1>10. ASSUME NEW w \in Workers, NEW i \in Analysis!LeagueRuns, Analysis!StartLeague(w, i)
       PROVE  Written
    BY <1>2, <1>10 DEF Analysis!StartLeague
<1>11. ASSUME NEW w \in Workers, Analysis!Crash(w) \/ Analysis!Lifespan(w) PROVE Written
    BY <1>2, <1>6, <1>7, <1>11
       DEF Analysis!Crash, Analysis!Lifespan, Analysis!RecoverLeagueAnalyses,
           Analysis!PickChecks, Analysis!PickRunning, Analysis!Serve
<1>12. CASE UNCHANGED Analysis!vars
    BY <1>2, <1>12 DEF Analysis!vars
<1>. HIDE DEF Written
<1>. QED
    BY <1>4, <1>5, <1>8, <1>9, <1>10, <1>11, <1>12 DEF Analysis!Next, Analysis!ExecuteRun

(* Who writes a row of LeagueAnalysis: its creation, its task or a startup *)
(* that finds it active.                                                   *)
LEMMA LeaguesWritten ==
    ASSUME AnalysisInv, [Analysis!Next]_(Analysis!vars), NEW i \in Analysis!LeagueRuns
    PROVE  \/ league'[i] = league[i]
           \/ league[i].status = "none" \/ league[i].status \in Analysis!Active
           \/ leagueTask[i].at # "none"
<1>. DEFINE Written == \/ league'[i] = league[i]
                       \/ league[i].status = "none" \/ league[i].status \in Analysis!Active
                       \/ leagueTask[i].at # "none"
<1>. SUFFICES Written
    OBVIOUS
<1>1. league \in [Analysis!LeagueRuns -> Analysis!LeagueRows]
    BY DEF AnalysisInv, Analysis!TypeOK
<1>2. CASE UNCHANGED league
    BY <1>2
<1>3. ASSUME NEW w \in Workers, NEW k \in Analysis!LeagueRuns, Analysis!StartLeague(w, k)
      PROVE  Written
    BY <1>1, <1>3 DEF Analysis!StartLeague, Analysis!IsNext
<1>4. ASSUME NEW k \in Analysis!LeagueRuns, Analysis!ExecuteLeague(k) PROVE Written
    <2>1. leagueTask[k].at # "none" /\ \A l \in Analysis!LeagueRuns \ {k} : league'[l] = league[l]
        BY <1>1, <1>4
           DEF Analysis!ExecuteLeague, Analysis!BeginLeague, Analysis!RefreshSources,
               Analysis!FreezeReport, Analysis!ExplainReport, Analysis!Advance,
               Analysis!PublishReport, Analysis!FailLeague
    <2>. QED
        BY <2>1
<1>5. ASSUME NEW w \in Workers, Analysis!RecoverLeagueAnalyses(w) PROVE Written
    BY <1>1, <1>5 DEF Analysis!RecoverLeagueAnalyses
<1>6. ASSUME NEW w \in Workers, Analysis!Crash(w) \/ Analysis!Lifespan(w) PROVE Written
    BY <1>2, <1>5, <1>6
       DEF Analysis!Crash, Analysis!Lifespan, Analysis!RecoverInjuryChecks,
           Analysis!PickChecks, Analysis!PickRunning, Analysis!RecoverAnalysis, Analysis!Serve
<1>7. ASSUME NEW w \in Workers,
             Analysis!AskAnalyst(w) \/ Analysis!LookForCheck(w) \/ Analysis!StartCheck(w)
      PROVE  Written
    BY <1>2, <1>7 DEF Analysis!AskAnalyst, Analysis!LookForCheck, Analysis!StartCheck
<1>8. ASSUME NEW j \in Analysis!Runs, Analysis!ExecuteRun(j) PROVE Written
    BY <1>2, <1>8 DEF Analysis!ExecuteRun, Analysis!Answer, Analysis!BeginCheck,
                      Analysis!FinishCheck
<1>9. CASE UNCHANGED Analysis!vars
    BY <1>2, <1>9 DEF Analysis!vars
<1>. HIDE DEF Written
<1>. QED
    BY <1>3, <1>4, <1>6, <1>7, <1>8, <1>9 DEF Analysis!Next

(* A row whose task is executing an analyst run keeps its status.          *)
LEMMA LiveRunSpared ==
    ASSUME AnalysisInv, [Analysis!Next]_(Analysis!vars), NEW j \in Analysis!Runs,
           Analysis!HeldByAnalysis(j), analysisTask'[j] = analysisTask[j]
    PROVE  analysis'[j].status = analysis[j].status
<1>1. analysis[j].kind = "analyst"
    BY DEF Analysis!HeldByAnalysis
<1>2. analysis[j].status # "none" /\ \A w \in Workers : worker[w] = "picked" => j \notin doomed[w]
    BY <1>1 DEF AnalysisInv, KindsSound
<1>. QED
    BY <1>1, <1>2, RunsWritten

(* Where there is one process, an outcome has no task and is not picked.   *)
LEMMA OutcomeKept ==
    ASSUME AnalysisInv, [Analysis!Next]_(Analysis!vars), Analysis!Cardinality(workers) = 1
    PROVE  /\ \A i \in Analysis!LeagueRuns :
                league[i].status \in Analysis!Ended => league'[i] = league[i]
           /\ \A j \in Analysis!Runs :
                analysis[j].status \in Analysis!Ended => analysis'[j] = analysis[j]
<1>1. PICK d \in Workers : workers = {d} /\ ProcessSound(d) /\ OneCheck(d)
    BY OneDeployed DEF AnalysisInv, AloneSound
<1>2. ASSUME NEW i \in Analysis!LeagueRuns, league[i].status \in Analysis!Ended
      PROVE  league'[i] = league[i]
    <2>1. league[i].status # "none" /\ league[i].status \notin Analysis!Active
        BY <1>2 DEF Analysis!Ended, Analysis!Active
    <2>2. leagueTask[i].at = "none"
        BY <1>1, <2>1 DEF ProcessSound
    <2>. QED
        BY <2>1, <2>2, LeaguesWritten
<1>3. ASSUME NEW j \in Analysis!Runs, analysis[j].status \in Analysis!Ended
      PROVE  analysis'[j] = analysis[j]
    <2>1. analysis[j].status \notin {"none", "queued", "running"}
        BY <1>3 DEF Analysis!Ended
    <2>2. \A w \in Workers : worker[w] \in {"picked", "failing"} => j \notin doomed[w]
        BY <1>1, <2>1 DEF ProcessSound, Analysis!ActiveChecks
    <2>3. analysisTask[j].at # "working"
        BY <1>1, <2>1 DEF ProcessSound
    <2>. QED
        BY <2>1, <2>2, <2>3, RunsWritten
<1>. QED
    BY <1>2, <1>3

-----------------------------------------------------------------------------
(* What the services share: the invariants of all of them.                 *)
ServicesInv == RunnerInv /\ JobsInv /\ CopiesInv /\ BundleInv /\ AnalysisInv

(* The invariants of all services hold throughout.                         *)
LEMMA ServicesInvHolds == Spec => []ServicesInv
<1>1. Init => ServicesInv
    BY RunnerInit, JobsInit, CopiesInit, BundleInit, AnalysisInit DEF Init, ServicesInv
<1>2. ServicesInv /\ [Next]_vars => ServicesInv'
    BY RunnerKept, RunnerOnly, JobsKept, JobsOnly, CopiesKept, CopiesOnly, BundleKept, BundleOnly,
       AnalysisKept, AnalysisOnly DEF ServicesInv
<1>. QED
    BY <1>1, <1>2, PTL DEF Spec

(* Sign-ins, source jobs, analyses and checks are not done twice at a      *)
(* time, for any number of requests, workers and rows (codex_runner,       *)
(* source_jobs.py, league_analysis.py, injury_report.py):                  *)
(* WorkIsExclusive.                                                        *)
THEOREM WorkDoneOnce == Spec => []WorkIsExclusive
<1>1. ServicesInv => WorkIsExclusive
    BY OneKeyLoginAtATime, OneRunAtATime, OneLeagueAtATime, OneCheckAtATime
       DEF ServicesInv, RunnerInv, JobsInv, CopiesInv, BundleInv, AnalysisInv, WorkIsExclusive
<1>. QED
    BY <1>1, ServicesInvHolds, PTL

(* The forecasts an analysis had and the distance a failed job asked for   *)
(* outlive failures, crashes and recoveries (league_analysis.py,           *)
(* source_jobs.py): FailuresAreRemembered.                                 *)
THEOREM FailuresRemembered == Spec => []FailuresAreRemembered
<1>1. ServicesInv => FailuresAreRemembered
    BY DEF ServicesInv, JobsInv, AnalysisInv, FailuresAreRemembered
<1>. QED
    BY <1>1, ServicesInvHolds, PTL

(* No step writes over a piece that is installed or takes it away          *)
(* (recovery.py): the directory is empty when a restore begins.            *)
LEMMA PiecesStay ==
    ASSUME BundleInv, [Bundle!Next]_(Bundle!vars),
           NEW p \in Pieces, installed[p] # "none"
    PROVE  installed'[p] = installed[p]
<1>1. ASSUME NEW r \in Restorers, Bundle!MovePiece(r)
      PROVE  installed'[p] = installed[p]
    <2>1. installed[p] = r
        BY <1>1 DEF Bundle!MovePiece, BundleInv
    <2>. QED
        BY <1>1, <2>1 DEF Bundle!MovePiece, BundleInv, Bundle!TypeOK
<1>. QED
    BY <1>1 DEF Bundle!Next, Bundle!vars, Bundle!StartBundle, Bundle!StagingFails,
                Bundle!OpenOutput, Bundle!WriteBundle, Bundle!KillCreator,
                Bundle!StartRestore, Bundle!VerifyBundle, Bundle!KillRestorer

(* The copy made before a restore stays until Keep later ones are there, a *)
(* bundle that was created stays whole, and no piece that is installed is  *)
(* lost or written over (backups.py, recovery.py): CopiesStay, for any     *)
(* number of threads, invocations, pieces and crashes.                     *)
THEOREM CopiesKeptSafe == Spec => CopiesStay
<1>1. ServicesInv => Copies!SafetyCopyStays /\ Bundle!BundlesSafe
    BY SafetyCopyKept DEF ServicesInv, BundleInv
<1>2. ServicesInv /\ [Next]_vars
      => [\A p \in Pieces : installed[p] # "none" => installed'[p] = installed[p]]_(Bundle!vars)
    <2>1. ASSUME ServicesInv, [Next]_vars
          PROVE  [Bundle!Next]_(Bundle!vars)
        BY <2>1 DEF Next, vars, bundleVars, Bundle!vars, RunnerStep, JobStep, BackupStep,
                    BundleStep, AnalysisStep
    <2>. QED
        BY <2>1, PiecesStay DEF ServicesInv
<1>. QED
    BY <1>1, <1>2, ServicesInvHolds, PTL DEF Spec, CopiesStay, Bundle!InstalledStays

(* Where one process is deployed an outcome that was published stands,     *)
(* and a startup leaves an analyst run that is executing alone (main.py,   *)
(* recover_source_jobs): OutcomesStand.                                    *)
THEOREM OutcomesKept == Spec => OutcomesStand
<1>1. ServicesInv /\ [Next]_vars
      => [Analysis!Cardinality(workers) = 1 =>
            /\ \A i \in Analysis!LeagueRuns :
                 league[i].status \in Analysis!Ended => league'[i] = league[i]
            /\ \A j \in Analysis!Runs :
                 analysis[j].status \in Analysis!Ended => analysis'[j] = analysis[j]]_(Analysis!vars)
    BY OutcomeKept, AnalysisOnly DEF ServicesInv
<1>2. ServicesInv /\ [Next]_vars
      => [\A j \in Analysis!Runs :
            (Analysis!HeldByAnalysis(j) /\ analysisTask'[j] = analysisTask[j])
              => analysis'[j].status = analysis[j].status]_(Analysis!vars)
    BY LiveRunSpared, AnalysisOnly DEF ServicesInv
<1>. QED
    BY <1>1, <1>2, ServicesInvHolds, PTL
       DEF Spec, OutcomesStand, Analysis!OutcomesStand, Analysis!LiveAnalysesSpared
=============================================================================
