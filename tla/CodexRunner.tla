---------------------------- MODULE CodexRunner ----------------------------
(***************************************************************************)
(* The Codex runner container (codex_runner/runner.py): one event loop     *)
(* whose handlers interleave at their awaits, the CLI processes they wait  *)
(* for, and the credentials those processes share in CODEX_HOME.           *)
(***************************************************************************)
EXTENDS Naturals, FiniteSets

CONSTANTS Requests,     \* handlers that may run at the same time
          Keys,         \* API keys of the configured providers
          NoKey,        \* a request without a key of its own
          ChatGPT,      \* the credentials of a device login
          MaxLogins,    \* bounds on the device logins of one runner process
          MaxRestarts   \* and on its restarts

CodexRunnerAssumption ==
    /\ MaxLogins \in Nat \ {0} /\ MaxRestarts \in Nat
    /\ NoKey \notin Keys /\ ChatGPT \notin Keys \cup {NoKey}
    /\ IsFiniteSet(Requests) /\ IsFiniteSet(Keys)

VARIABLES
    credentials,    \* what CODEX_HOME holds: NoKey, ChatGPT or a key
    lastKey,        \* last_key_hash
    current,        \* device_login_session, 0 for none
    login,          \* each device login: its status and its task
    request,        \* each handler: what it serves and where it waits
    restarts

vars == <<credentials, lastKey, current, login, request, restarts>>

Logins == 1..MaxLogins

Waiting == {"starting", "pending"}

NoRequest == [op |-> "none", key |-> NoKey, at |-> "idle"]

NoLogin == [status |-> "none", task |-> "none"]

LoginStates == [status : Waiting \cup {"none", "authenticated", "error", "idle"},
                task : {"none", "watching", "verifying", "stopping", "ended"}]

RequestStates == [op : {"none", "start", "poll", "models", "run", "local"},
                  key : Keys \cup {NoKey},
                  at : {"idle", "locked", "loggingIn", "checking", "watching", "rechecking",
                        "working"}]

TypeOK ==
    /\ credentials \in Keys \cup {NoKey, ChatGPT}
    /\ lastKey \in Keys \cup {NoKey}
    /\ current \in 0..MaxLogins
    /\ login \in [Logins -> LoginStates]
    /\ request \in [Requests -> RequestStates]
    /\ restarts \in 0..MaxRestarts

Init ==
    /\ credentials = NoKey /\ lastKey = NoKey
    /\ current = 0
    /\ login = [s \in Logins |-> NoLogin]
    /\ request = [r \in Requests |-> NoRequest]
    /\ restarts = 0

Authenticated == credentials # NoKey

LoginWaits == current # 0 /\ login[current].status \in Waiting

At(r, place) == request[r].at = place

MoveTo(r, place) == request' = [request EXCEPT ![r].at = place]

(* The handler answers, or raises; what it says is not modelled.           *)
End(r) == request' = [request EXCEPT ![r] = NoRequest]

-----------------------------------------------------------------------------
(* ensure_login up to the lock: without a key, or with the key logged in   *)
(* last, the request goes on to the check of the credentials.              *)
EnsureLogin(key) == IF key = NoKey \/ key = lastKey THEN "checking" ELSE "locked"

Receive(r) ==
    /\ At(r, "idle")
    /\ \E op \in {"start", "poll", "models", "run", "local"}, key \in Keys \cup {NoKey} :
        /\ op \in {"start", "poll", "local"} => key = NoKey
        /\ op = "poll" => ~LoginWaits
        /\ request' = [request EXCEPT ![r] =
               [op |-> op, key |-> key,
                at |-> CASE op \in {"start", "poll"} -> "checking"
                         [] op = "local" -> "working"
                         [] OTHER -> EnsureLogin(key)]]
    /\ UNCHANGED <<credentials, lastKey, current, login, restarts>>

(* async with login_lock, and the second look at last_key_hash.            *)
TakeLoginLock(r) ==
    /\ At(r, "locked")
    /\ \A q \in Requests : ~At(q, "loggingIn")
    /\ MoveTo(r, IF request[r].key = lastKey THEN "checking" ELSE "loggingIn")
    /\ UNCHANGED <<credentials, lastKey, current, login, restarts>>

KeyLoginSucceeds(r) ==
    /\ At(r, "loggingIn")
    /\ credentials' = request[r].key
    /\ lastKey' = request[r].key
    /\ MoveTo(r, "checking")
    /\ UNCHANGED <<current, login, restarts>>

(* A failed or stopped `codex login` may have written its key before.      *)
KeyLoginFails(r) ==
    /\ At(r, "loggingIn")
    /\ credentials' \in {credentials, request[r].key}
    /\ End(r)
    /\ UNCHANGED <<lastKey, current, login, restarts>>

(* `codex login status` has answered (answer), truthfully unless it took   *)
(* longer than ten seconds.                                                *)
Checked(r, answer) == At(r, "checking") /\ (answer => Authenticated)

(* Mutant: the session is looked at before the status process is awaited.  *)
StartTwice(r) ==
    /\ request[r].op = "start"
    /\ Checked(r, FALSE)
    /\ current < MaxLogins
    /\ current' = current + 1
    /\ login' = [login EXCEPT ![current'] = [status |-> "starting", task |-> "watching"]]
    /\ MoveTo(r, "watching")
    /\ UNCHANGED <<credentials, lastKey, restarts>>

(* start_device_auth after its check.  Nothing is awaited between the look *)
(* at the session and the new one.                                         *)
StartDeviceAuth(r) ==
    /\ request[r].op = "start"
    /\ \/ /\ Checked(r, TRUE)
          /\ IF LoginWaits THEN End(r) ELSE MoveTo(r, "rechecking")
          /\ UNCHANGED <<current, login>>
       \/ /\ Checked(r, FALSE)
          /\ LoginWaits
          /\ End(r)
          /\ UNCHANGED <<current, login>>
       \/ /\ Checked(r, FALSE)
          /\ ~LoginWaits
          /\ current < MaxLogins
          /\ current' = current + 1
          /\ login' = [login EXCEPT ![current'] = [status |-> "starting", task |-> "watching"]]
          /\ MoveTo(r, "watching")
    /\ UNCHANGED <<credentials, lastKey, restarts>>

(* The start's handler watches up to five seconds for the code.            *)
StopWatching(r) ==
    /\ At(r, "watching")
    /\ End(r)
    /\ UNCHANGED <<credentials, lastKey, current, login, restarts>>

(* _current_device_login after its check of the credentials.               *)
CurrentDeviceLogin(r) ==
    /\ \E answer \in BOOLEAN :
        /\ \/ request[r].op = "poll" /\ Checked(r, answer)
           \/ At(r, "rechecking") /\ (answer => Authenticated)
        /\ login' = IF current # 0 /\ ~answer /\ login[current].status = "authenticated"
                    THEN [login EXCEPT ![current].status = "idle"]
                    ELSE login
    /\ End(r)
    /\ UNCHANGED <<credentials, lastKey, current, restarts>>

(* run_codex and list_codex_models after their check.                      *)
StartWork(r) ==
    /\ request[r].op \in {"models", "run"}
    /\ \/ Checked(r, TRUE) /\ MoveTo(r, "working")
       \/ Checked(r, FALSE) /\ End(r)
    /\ UNCHANGED <<credentials, lastKey, current, login, restarts>>

(* The process ends, fails or is stopped after its timeout.                *)
FinishWork(r) ==
    /\ At(r, "working")
    /\ End(r)
    /\ UNCHANGED <<credentials, lastKey, current, login, restarts>>

Serve(r) ==
    \/ TakeLoginLock(r) \/ KeyLoginSucceeds(r) \/ KeyLoginFails(r)
    \/ StartDeviceAuth(r) \/ StopWatching(r) \/ CurrentDeviceLogin(r)
    \/ StartWork(r) \/ FinishWork(r)

-----------------------------------------------------------------------------
(* _run_device_login.  The task of a replaced session still runs while it  *)
(* stops its process.                                                      *)
ShowCode(s) ==
    /\ login[s] = [status |-> "starting", task |-> "watching"]
    /\ login' = [login EXCEPT ![s].status = "pending"]
    /\ UNCHANGED <<credentials, lastKey, current, request, restarts>>

(* The owner approves in the browser and the process ends with success.    *)
Approve(s) ==
    /\ login[s].task = "watching"
    /\ credentials' = ChatGPT
    /\ login' = [login EXCEPT ![s].task = "verifying"]
    /\ UNCHANGED <<lastKey, current, request, restarts>>

Verify(s) ==
    /\ login[s].task = "verifying"
    /\ \E answer \in BOOLEAN :
        /\ answer => Authenticated
        /\ login' = [login EXCEPT ![s] = [status |-> IF answer THEN "authenticated" ELSE "error",
                                          task |-> "ended"]]
    /\ UNCHANGED <<credentials, lastKey, current, request, restarts>>

(* The process cannot start, or ends with an error.                        *)
LoginFails(s) ==
    /\ login[s].task = "watching"
    /\ login' = [login EXCEPT ![s] = [status |-> "error", task |-> "ended"]]
    /\ UNCHANGED <<credentials, lastKey, current, request, restarts>>

(* Mutant: the timeout stops the process and leaves the session waiting.   *)
ExpireQuietly(s) ==
    /\ login[s].task = "watching"
    /\ login' = [login EXCEPT ![s].task = "stopping"]
    /\ UNCHANGED <<credentials, lastKey, current, request, restarts>>

(* After fifteen minutes the session is given up, then its process is      *)
(* stopped, which may take another five seconds.                           *)
Expire(s) ==
    /\ login[s].task = "watching"
    /\ login' = [login EXCEPT ![s] = [status |-> "error", task |-> "stopping"]]
    /\ UNCHANGED <<credentials, lastKey, current, request, restarts>>

StopProcess(s) ==
    /\ login[s].task = "stopping"
    /\ login' = [login EXCEPT ![s].task = "ended"]
    /\ UNCHANGED <<credentials, lastKey, current, request, restarts>>

RunDeviceLogin(s) ==
    ShowCode(s) \/ Approve(s) \/ Verify(s) \/ LoginFails(s) \/ Expire(s) \/ StopProcess(s)

(* The operator removes the credentials, or the volume is emptied.         *)
RemoveCredentials ==
    /\ credentials' = NoKey
    /\ UNCHANGED <<lastKey, current, login, request, restarts>>

(* The container is restarted: its memory and its processes are gone.      *)
Restart ==
    /\ restarts < MaxRestarts
    /\ restarts' = restarts + 1
    /\ lastKey' = NoKey /\ current' = 0
    /\ login' = [s \in Logins |-> NoLogin]
    /\ request' = [r \in Requests |-> NoRequest]
    /\ UNCHANGED credentials

Next ==
    \/ \E r \in Requests : Receive(r) \/ Serve(r)
    \/ \E s \in Logins : RunDeviceLogin(s)
    \/ RemoveCredentials
    \/ Restart

Spec == Init /\ [][Next]_vars

(* Every wait of a login's task has a timeout, whether the owner approves  *)
(* or not.                                                                 *)
GoOn(s) == Expire(s) \/ Verify(s) \/ StopProcess(s)

FairSpec == Spec /\ \A s \in Logins : WF_vars(GoOn(s))

-----------------------------------------------------------------------------
(* At most one device login is under way, and it is the one that polls     *)
(* report; a session reported as waiting has such a login behind it.       *)
(* Otherwise a code nobody watches is shown, or sign-in is refused for     *)
(* ever by a session that will not end (start_device_auth).                *)
OneWatchedLogin ==
    /\ \A s \in Logins : login[s].task \in {"watching", "verifying"} => s = current
    /\ LoginWaits => login[current].task \in {"watching", "verifying"}

(* One `codex login` at a time, so that last_key_hash is the key of the    *)
(* last one that ended (login_lock).                                       *)
OneKeyLogin == Cardinality({r \in Requests : At(r, "loggingIn")}) <= 1

(* A sign-in that waits comes to an end, by success, error or expiry, and  *)
(* another can be started (_run_device_login).                             *)
SignInEnds == LoginWaits ~> ~LoginWaits
=============================================================================
