--------------------------- MODULE ForwardingRenewal ---------------------------
(***************************************************************************)
(* Forwarding mode of the proxy (src/forwarding.go, forwardProxyHandler):  *)
(* one renewal goroutine logs in, refreshes and re-logs-in a service       *)
(* credential held in a shared forwardingState, and any number of signer   *)
(* goroutines copy the current token out of it under the read lock.        *)
(*                                                                         *)
(* Abstractions.  A token is a generation number: 0 is the zero jose.JWT   *)
(* the state starts with, 1 and 2 alternate between successive issued      *)
(* tokens.  state.token is a multi-word struct, so its assignment is two   *)
(* writes (tokHead, tokTail); a reader that sees them differ has read a    *)
(* torn token.  Time is relative: expLeft is state.expiration - now,       *)
(* clipped at -1 (expired), and timer is what is left of the renewer's     *)
(* current time.After.  The identity-provider calls are a start and a      *)
(* nondeterministic outcome.                                               *)
(***************************************************************************)
EXTENDS Integers

CONSTANTS
    Signers,       \* the goroutines running the signing closure (line 310)
    Lifetimes,     \* lifetimes the identity provider gives to access tokens
    BackoffDelay   \* the fixed login retry delay, time.Duration(5)*time.Second

ASSUME LifetimesAssumption == Lifetimes \subseteq Nat \ {0}
ASSUME BackoffAssumption == BackoffDelay \in Nat

VARIABLES
    rpc,        \* where the renewal goroutine is in its loop
    login,      \* state.login
    wait,       \* state.wait
    refresh,    \* state.refresh # ""
    identity,   \* state.identity # nil
    tokHead,    \* first half of state.token (generation it was copied from)
    tokTail,    \* second half of state.token
    expLeft,    \* state.expiration - now, -1 once expired
    life,       \* lifetime state.expiration had when it was stored
    timer,      \* time left on the renewer's pending time.After
    cancelled,  \* r.forwardCtx.Done() is closed
    wlocked,    \* the renewer holds state.Lock()
    spc         \* where each signer is: idle, blocked in RLock, reading

vars == <<rpc, login, wait, refresh, identity, tokHead, tokTail, expLeft,
          life, timer, cancelled, wlocked, spc>>

RenewerPCs == {"top", "reset", "login_call", "login_lock", "login_cs",
               "backoff", "refresh_call", "refresh_fail", "refresh_lock",
               "refresh_cs", "norefresh", "check_wait", "sleep", "done"}

SignerPCs == {"idle", "rlock", "reading"}

TokenGens == 0..2

\* The renewer is blocked in state.Lock(): Go's RWMutex then also blocks
\* every new RLock until the writer has had the lock.
LockWaitPCs == {"reset", "login_lock", "refresh_fail", "refresh_lock",
                "norefresh"}

\* The renewer is inside a network call or a timed wait.
BlockingPCs == {"login_call", "refresh_call", "backoff", "sleep"}

Readers == {s \in Signers : spc[s] = "reading"}

\* state.Lock() can return: no writer and no reader holds the lock.
CanLock == ~wlocked /\ Readers = {}

\* A token different from the one stored: the next issued generation.
NextToken == IF tokTail = 1 THEN 2 ELSE 1

\* Mutant: getWithin without its "left <= 0" early return.
getWithinUnclamped(left) == (85 * left) \div 100

\* getWithin(expires, 0.85): 85% of the time left, 0 once it is past.
getWithin(left) == IF left <= 0 THEN 0 ELSE (85 * left) \div 100

\* Mutant: cloneState taken as a value copy (*state) right after wait = false.
CloneWaitByValue == FALSE

\* The wait flag as read through cloneState, which aliases state.
CloneWait == wait

-----------------------------------------------------------------------------
(***************************************************************************)
(* Plausible bugs in the code above and below, each the mutant of one      *)
(* definition; every property checked is broken by one of them.            *)
(***************************************************************************)

\* forwardingState{} without login: true.
InitLoginUnset ==
    /\ rpc = "top"
    /\ login = FALSE
    /\ wait = FALSE
    /\ refresh = FALSE
    /\ identity = FALSE
    /\ tokHead = 0
    /\ tokTail = 0
    /\ expLeft = -1
    /\ life = 0
    /\ timer = 0
    /\ cancelled = FALSE
    /\ wlocked = FALSE
    /\ spc = [s \in Signers |-> "idle"]

\* The top-of-loop select on forwardCtx.Done() left out.
LoopContinueUnchecked ==
    /\ rpc = "top"
    /\ rpc' = "reset"
    /\ UNCHANGED <<login, wait, refresh, identity, tokHead, tokTail, expLeft,
                   life, timer, cancelled, wlocked, spc>>

\* Unlock moved after the network call the branch starts.
ResetWaitUnlockLate ==
    /\ rpc = "reset"
    /\ CanLock
    /\ wait' = FALSE
    /\ rpc' = IF login THEN "login_call"
              ELSE IF refresh THEN "refresh_call" ELSE "norefresh"
    /\ wlocked' = (rpc' \in BlockingPCs)
    /\ UNCHANGED <<login, refresh, identity, tokHead, tokTail, expLeft, life,
                   timer, cancelled, spc>>

\* state.login = false forgotten in the login update.
LoginCommitKeepsLogin ==
    /\ rpc = "login_cs"
    /\ tokTail' = tokHead
    /\ identity' = TRUE
    /\ \E l \in Lifetimes : expLeft' = l /\ life' = l
    /\ wait' = TRUE
    /\ \E r \in BOOLEAN : refresh' = r
    /\ wlocked' = FALSE
    /\ rpc' = "check_wait"
    /\ UNCHANGED <<login, tokHead, timer, cancelled, spc>>

\* continue taken before state.Unlock() on a refresh error.
RefreshFailNoUnlock ==
    /\ rpc = "refresh_fail"
    /\ CanLock
    /\ login' = TRUE
    /\ wlocked' = TRUE
    /\ rpc' = "top"
    /\ UNCHANGED <<wait, refresh, identity, tokHead, tokTail, expLeft, life,
                   timer, cancelled, spc>>

\* login = true forgotten when a refresh fails.
RefreshFailKeepsLogin ==
    /\ rpc = "refresh_fail"
    /\ CanLock
    /\ rpc' = "top"
    /\ UNCHANGED <<login, wait, refresh, identity, tokHead, tokTail, expLeft,
                   life, timer, cancelled, wlocked, spc>>

\* state.Lock() on a successful refresh taken without waiting for readers.
RefreshLockNoWait ==
    /\ rpc = "refresh_lock"
    /\ ~wlocked
    /\ wlocked' = TRUE
    /\ tokHead' = NextToken
    /\ rpc' = "refresh_cs"
    /\ UNCHANGED <<login, wait, refresh, identity, tokTail, expLeft, life,
                   timer, cancelled, spc>>

\* The token read without state.RLock().
SignerReadUnlocked(s) ==
    /\ spc[s] = "rlock"
    /\ spc' = [spc EXCEPT ![s] = "reading"]
    /\ UNCHANGED <<rpc, login, wait, refresh, identity, tokHead, tokTail,
                   expLeft, life, timer, cancelled, wlocked>>

-----------------------------------------------------------------------------
(* Initial state: state := &forwardingState{login: true}, the renewal     *)
(* goroutine at the top of its loop, no signer inside the lock.            *)
Init ==
    /\ rpc = "top"
    /\ login = TRUE
    /\ wait = FALSE
    /\ refresh = FALSE
    /\ identity = FALSE
    /\ tokHead = 0
    /\ tokTail = 0
    /\ expLeft = -1
    /\ life = 0
    /\ timer = 0
    /\ cancelled = FALSE
    /\ wlocked = FALSE
    /\ spc = [s \in Signers |-> "idle"]

(* --- the renewal goroutine ---------------------------------------------- *)

\* select on forwardCtx.Done() at the top of the loop: cancelled, return.
LoopExit ==
    /\ rpc = "top"
    /\ cancelled
    /\ rpc' = "done"
    /\ UNCHANGED <<login, wait, refresh, identity, tokHead, tokTail, expLeft,
                   life, timer, cancelled, wlocked, spc>>

\* select falls to default: go on to lock the state.
LoopContinue ==
    /\ rpc = "top"
    /\ ~cancelled
    /\ rpc' = "reset"
    /\ UNCHANGED <<login, wait, refresh, identity, tokHead, tokTail, expLeft,
                   life, timer, cancelled, wlocked, spc>>

\* Lock, wait = false, cloneState := state, Unlock; then branch on login
\* and, in the else branch, on whether a refresh token is held.
ResetWait ==
    /\ rpc = "reset"
    /\ CanLock
    /\ wait' = FALSE
    /\ rpc' = IF login THEN "login_call"
              ELSE IF refresh THEN "refresh_call" ELSE "norefresh"
    /\ UNCHANGED <<login, refresh, identity, tokHead, tokTail, expLeft, life,
                   timer, cancelled, wlocked, spc>>

\* UserCredsToken or parseToken fails: back off before retrying.
LoginFailed ==
    /\ rpc = "login_call"
    /\ rpc' = "backoff"
    /\ timer' = BackoffDelay
    /\ UNCHANGED <<login, wait, refresh, identity, tokHead, tokTail, expLeft,
                   life, cancelled, wlocked, spc>>

\* UserCredsToken and parseToken succeed; the goroutine calls state.Lock().
LoginSucceeded ==
    /\ rpc = "login_call"
    /\ rpc' = "login_lock"
    /\ UNCHANGED <<login, wait, refresh, identity, tokHead, tokTail, expLeft,
                   life, timer, cancelled, wlocked, spc>>

\* Lock acquired; the copy of the new token into state.token begins.
LoginLock ==
    /\ rpc = "login_lock"
    /\ CanLock
    /\ wlocked' = TRUE
    /\ tokHead' = NextToken
    /\ rpc' = "login_cs"
    /\ UNCHANGED <<login, wait, refresh, identity, tokTail, expLeft, life,
                   timer, cancelled, spc>>

\* The rest of the update: token, identity, expiration, wait, login and the
\* refresh token of the response (possibly empty); then Unlock.
LoginCommit ==
    /\ rpc = "login_cs"
    /\ tokTail' = tokHead
    /\ identity' = TRUE
    /\ \E l \in Lifetimes : expLeft' = l /\ life' = l
    /\ wait' = TRUE
    /\ login' = FALSE
    /\ \E r \in BOOLEAN : refresh' = r
    /\ wlocked' = FALSE
    /\ rpc' = "check_wait"
    /\ UNCHANGED <<tokHead, timer, cancelled, spc>>

\* The back-off select: cancellation returns, the 5 s timer continues.
LoginBackoff ==
    /\ rpc = "backoff"
    /\ \/ cancelled /\ rpc' = "done"
       \/ timer = 0 /\ rpc' = "top"
    /\ UNCHANGED <<login, wait, refresh, identity, tokHead, tokTail, expLeft,
                   life, timer, cancelled, wlocked, spc>>

\* getRefreshedToken fails (expired refresh token or any other error).
RefreshFailed ==
    /\ rpc = "refresh_call"
    /\ rpc' = "refresh_fail"
    /\ UNCHANGED <<login, wait, refresh, identity, tokHead, tokTail, expLeft,
                   life, timer, cancelled, wlocked, spc>>

\* Lock, login = true, Unlock, continue: no back-off on this path.
RefreshFailLock ==
    /\ rpc = "refresh_fail"
    /\ CanLock
    /\ login' = TRUE
    /\ rpc' = "top"
    /\ UNCHANGED <<wait, refresh, identity, tokHead, tokTail, expLeft, life,
                   timer, cancelled, wlocked, spc>>

\* getRefreshedToken succeeds; the goroutine calls state.Lock().
RefreshSucceeded ==
    /\ rpc = "refresh_call"
    /\ rpc' = "refresh_lock"
    /\ UNCHANGED <<login, wait, refresh, identity, tokHead, tokTail, expLeft,
                   life, timer, cancelled, wlocked, spc>>

\* Lock acquired; the copy of the refreshed token begins.
RefreshLock ==
    /\ rpc = "refresh_lock"
    /\ CanLock
    /\ wlocked' = TRUE
    /\ tokHead' = NextToken
    /\ rpc' = "refresh_cs"
    /\ UNCHANGED <<login, wait, refresh, identity, tokTail, expLeft, life,
                   timer, cancelled, spc>>

\* token, expiration, wait, login; a new refresh token replaces the held
\* one and an empty one keeps it, so one stays held; identity is not
\* touched.  Then Unlock.
RefreshCommit ==
    /\ rpc = "refresh_cs"
    /\ tokTail' = tokHead
    /\ \E l \in Lifetimes : expLeft' = l /\ life' = l
    /\ wait' = TRUE
    /\ login' = FALSE
    /\ wlocked' = FALSE
    /\ rpc' = "check_wait"
    /\ UNCHANGED <<refresh, identity, tokHead, timer, cancelled, spc>>

\* No refresh token held: Lock, wait = false, login = true, Unlock.
NoRefreshToken ==
    /\ rpc = "norefresh"
    /\ CanLock
    /\ wait' = FALSE
    /\ login' = TRUE
    /\ rpc' = "check_wait"
    /\ UNCHANGED <<refresh, identity, tokHead, tokTail, expLeft, life, timer,
                   cancelled, wlocked, spc>>

\* if cloneState.wait: sleep getWithin(expiration, 0.85); else loop.
CheckWait ==
    /\ rpc = "check_wait"
    /\ \/ CloneWait /\ rpc' = "sleep" /\ timer' = getWithin(expLeft)
       \/ ~CloneWait /\ rpc' = "top" /\ UNCHANGED timer
    /\ UNCHANGED <<login, wait, refresh, identity, tokHead, tokTail, expLeft,
                   life, cancelled, wlocked, spc>>

\* The expiry wait's select: cancellation returns, the timer loops.
ExpiryWait ==
    /\ rpc = "sleep"
    /\ \/ cancelled /\ rpc' = "done"
       \/ timer = 0 /\ rpc' = "top"
    /\ UNCHANGED <<login, wait, refresh, identity, tokHead, tokTail, expLeft,
                   life, timer, cancelled, wlocked, spc>>

(* --- the signers -------------------------------------------------------- *)

\* A request for a signed host arrives; the closure calls state.RLock().
SignerRequest(s) ==
    /\ spc[s] = "idle"
    /\ spc' = [spc EXCEPT ![s] = "rlock"]
    /\ UNCHANGED <<rpc, login, wait, refresh, identity, tokHead, tokTail,
                   expLeft, life, timer, cancelled, wlocked>>

\* RLock returns: no writer holds the lock and none is waiting for it.
SignerRLock(s) ==
    /\ spc[s] = "rlock"
    /\ ~wlocked
    /\ rpc \notin LockWaitPCs
    /\ spc' = [spc EXCEPT ![s] = "reading"]
    /\ UNCHANGED <<rpc, login, wait, refresh, identity, tokHead, tokTail,
                   expLeft, life, timer, cancelled, wlocked>>

\* token = state.token; RUnlock; the Authorization header is set from it.
SignerSign(s) ==
    /\ spc[s] = "reading"
    /\ spc' = [spc EXCEPT ![s] = "idle"]
    /\ UNCHANGED <<rpc, login, wait, refresh, identity, tokHead, tokTail,
                   expLeft, life, timer, cancelled, wlocked>>

(* --- the environment ---------------------------------------------------- *)

\* forwardCancel() is called at shutdown.
Shutdown ==
    /\ ~cancelled
    /\ cancelled' = TRUE
    /\ UNCHANGED <<rpc, login, wait, refresh, identity, tokHead, tokTail,
                   expLeft, life, timer, wlocked, spc>>

\* One unit of time passes.  A due timer fires before time moves on.
Tick ==
    /\ ~(rpc \in {"backoff", "sleep"} /\ timer = 0)
    /\ expLeft' = IF expLeft > -1 THEN expLeft - 1 ELSE -1
    /\ timer' = IF rpc \in {"backoff", "sleep"} THEN timer - 1 ELSE timer
    /\ UNCHANGED <<rpc, login, wait, refresh, identity, tokHead, tokTail,
                   life, cancelled, wlocked, spc>>

-----------------------------------------------------------------------------
Renewer ==
    \/ LoopExit \/ LoopContinue \/ ResetWait
    \/ LoginFailed \/ LoginSucceeded \/ LoginLock \/ LoginCommit
    \/ LoginBackoff
    \/ RefreshFailed \/ RefreshFailLock
    \/ RefreshSucceeded \/ RefreshLock \/ RefreshCommit
    \/ NoRefreshToken \/ CheckWait \/ ExpiryWait

Signer(s) == SignerRequest(s) \/ SignerRLock(s) \/ SignerSign(s)

Next ==
    \/ Renewer
    \/ \E s \in Signers : Signer(s)
    \/ Shutdown
    \/ Tick

(***************************************************************************)
(* Fairness.  The renewal goroutine is never descheduled forever and its   *)
(* network calls return (WF on its steps).  The identity provider is not   *)
(* down forever: a login it is asked for infinitely often succeeds (SF).   *)
(* A signer blocked in RLock is admitted when the writer unlocks (Go's     *)
(* RWMutex wakes waiting readers in Unlock), so a reader that is enabled   *)
(* infinitely often gets in (SF), and a reader always releases (WF).       *)
(* Requests and shutdown are the environment's and need no fairness.       *)
(***************************************************************************)
Fairness ==
    /\ WF_vars(Renewer)
    /\ SF_vars(LoginSucceeded)
    /\ WF_vars(Tick)
    /\ \A s \in Signers : SF_vars(SignerRLock(s)) /\ WF_vars(SignerSign(s))

Spec == Init /\ [][Next]_vars /\ Fairness

-----------------------------------------------------------------------------
(* Type invariant. *)
TypeOK ==
    /\ rpc \in RenewerPCs
    /\ login \in BOOLEAN
    /\ wait \in BOOLEAN
    /\ refresh \in BOOLEAN
    /\ identity \in BOOLEAN
    /\ tokHead \in TokenGens
    /\ tokTail \in TokenGens
    /\ expLeft \in Int /\ expLeft >= -1
    /\ life \in Nat
    /\ timer \in Nat
    /\ cancelled \in BOOLEAN
    /\ wlocked \in BOOLEAN
    /\ spc \in [Signers -> SignerPCs]

(* The part of a token's lifetime left when the renewer wakes for it:      *)
(* what getWithin(., 0.85) leaves over.                                    *)
RenewMargin(l) == l - getWithin(l)

(* The renewer only asks the identity provider for a new credential once   *)
(* the one it holds is in the last 15% of its lifetime (or expired): the   *)
(* wait after a login or refresh (lines 293-306, through cloneState) is    *)
(* never skipped or cut short.                                             *)
RenewOnlyNearExpiry ==
    rpc \in {"login_call", "refresh_call"} => expLeft <= RenewMargin(life)

(* The write lock is never held across a network call or a timed wait     *)
(* (lines 179-182, 216-229, 246-256, 262-277, 280-288): a signer never     *)
(* waits on the identity provider or on a timer.                           *)
NoLockAcrossIO ==
    rpc \in BlockingPCs => ~wlocked

(* The else branch at line 231 dereferences cloneState.identity (lines     *)
(* 233, 250, 273, 282): it is only reached once a login stored an identity.*)
NoNilIdentityDeref ==
    rpc \in {"refresh_call", "norefresh"} => identity

(* A signer never attaches a torn token: the read of state.token under     *)
(* RLock (lines 316-318) never overlaps the renewer's copy into it.        *)
SignedTokenIntact ==
    [][\A s \in Signers : SignerSign(s) => tokHead = tokTail]_vars

(* Shutdown: once forwardCtx is cancelled the renewal goroutine returns,   *)
(* whatever it was doing (lines 173-176, 194-196, 301-303).                *)
Termination ==
    cancelled ~> rpc = "done"

(* The renewer leaves the needs-login state: a login eventually succeeds   *)
(* and clears state.login (lines 185-229), unless it is shut down first.   *)
EventuallyLoggedIn ==
    login ~> (~login \/ rpc = "done")

(* A signer blocked in RLock eventually signs its request: the renewer     *)
(* always releases the lock it takes (lines 179-289).                      *)
SignerProgress ==
    \A s \in Signers : spc[s] = "rlock" ~> spc[s] = "idle"

(* After a refresh fails (lines 245-258) the signers go on attaching the   *)
(* held token, which may expire meanwhile: an expired credential is        *)
(* eventually replaced by a fresh one, unless the renewer is shut down.    *)
ExpiredEventuallyReplaced ==
    (identity /\ expLeft = -1) ~> (expLeft > -1 \/ rpc = "done")

(* The abstract credential cell of ForwardingLock, seen through the lock  *)
(* flag, the signers inside RLock and the committed half of state.token.   *)
Lock == INSTANCE ForwardingLock
            WITH Clients <- Signers, Issued <- TokenGens \ {0}, Zero <- 0,
                 writer <- wlocked, holders <- Readers, cred <- tokTail

(* forwardingState behaves as a credential cell behind a read-write lock   *)
(* (lines 142-157): the renewer takes the lock only when no signer holds   *)
(* it, publishes each new token in the step that unlocks, and signers      *)
(* (lines 316-318) only enter while no writer holds the lock.              *)
ImplementsLock == Lock!LockSpec

(* Spec section 3: the token a reader observes is always one the identity  *)
(* provider issued, never the zero token the state starts with.           *)
SignedTokenIssued ==
    [][\A s \in Signers : SignerSign(s) => tokTail # 0]_vars

=============================================================================
