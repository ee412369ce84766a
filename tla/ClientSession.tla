---------------------------- MODULE ClientSession ----------------------------
(***************************************************************************)
(* One AquareaClient shared by concurrent calls: the login lock, the login *)
(* generation, the two copies of the access token, the Android version     *)
(* and the bounded recovery of a request the cloud refused.                *)
(*                                                                         *)
(* Everything runs on one event loop: a step is what happens between two   *)
(* awaits.  The cloud and Google Play are modelled by what they may        *)
(* answer.  Tokens are numbered as the cloud issues them, 0 is none.       *)
(***************************************************************************)
EXTENDS Naturals, FiniteSets

CONSTANTS
  Task,          \* concurrent callers, each making one call after another
  MaxTokens      \* bound on the tokens the cloud issues

ASSUME ClientSessionAssumption == MaxTokens \in Nat /\ Task # {}

VARIABLES
  token,        \* PanasonicSettings.access_token
  hasClientId,  \* PanasonicSettings.clientId is set
  apiToken,     \* AquareaAPIClient._access_token
  generation,   \* _login_generation
  validated,    \* CCAppVersion._validated
  lock,         \* the tasks holding _login_lock
  call,         \* the call each task is in
  issued,       \* tokens the cloud has issued
  dead,         \* tokens the cloud no longer accepts
  lapsed        \* tokens past their expiration time on the local clock

cloud == <<issued, dead, lapsed>>
session == <<token, hasClientId, apiToken, generation>>
vars == <<session, validated, lock, call, cloud>>

-----------------------------------------------------------------------------
\* States in which a task holds the login lock.
Authenticating == {"looking", "authorising", "relooking", "account", "accountLooking",
                   "accountAgain", "refreshing"}
Looking == {"looking", "relooking", "accountLooking"}
State == Authenticating \cup {"idle", "login", "refresh", "sent", "answered"}

Token == 0..MaxTokens

Idle == [at |-> "idle", intent |-> 0, recovery |-> 0, current |-> FALSE, got |-> 0, sent |-> 0,
         sends |-> 0, executed |-> 0, answer |-> "none", rotated |-> 0]

\* intent: the generation captured before the lock; current: its version lookup
\* has not been superseded; got: the token it has just been granted.
Call == [at : State, intent : 0..MaxTokens, recovery : 0..2, current : BOOLEAN, got : Token,
         sent : Token, sends : 0..3, executed : 0..1,
         answer : {"none", "ok", "expired", "error"}, rotated : Token]

TypeOK ==
  /\ token \in Token
  /\ hasClientId \in BOOLEAN
  /\ apiToken \in Token
  /\ generation \in 0..MaxTokens
  /\ validated \in BOOLEAN
  /\ lock \in SUBSET Task
  /\ call \in [Task -> Call]
  /\ issued \in Token
  /\ dead \in SUBSET (1..MaxTokens)
  /\ lapsed \in SUBSET (1..MaxTokens)

Init ==
  /\ token = 0
  /\ hasClientId = FALSE
  /\ apiToken = 0
  /\ generation = 0
  /\ validated = FALSE
  /\ lock = {}
  /\ call = [t \in Task |-> Idle]
  /\ issued = 0
  /\ dead = {}
  /\ lapsed = {}

LoggedIn == apiToken # 0 /\ apiToken \notin lapsed

Becomes(t, c) == call' = [call EXCEPT ![t] = c]

\* A task asks for the lock, capturing the generation first.
Asking(c, for) == [c EXCEPT !.at = for, !.intent = generation]

\* The headers are built from settings and version; without either the call fails.
Departed(c, tok) ==
  IF tok # 0 /\ validated
    THEN [c EXCEPT !.at = "sent", !.sent = tok, !.sends = @ + 1,
                   !.answer = "none", !.rotated = 0, !.got = 0]
    ELSE Idle

-----------------------------------------------------------------------------
(***************************************************************************)
(* auth_required, and AquareaAPIClient.request.                            *)
(***************************************************************************)
Begin(t) ==
  /\ call[t].at = "idle"
  /\ Becomes(t, IF LoggedIn THEN Departed(Idle, token) ELSE Asking(Idle, "login"))
  /\ UNCHANGED <<session, validated, lock, cloud>>

\* The cloud handles the request.  It may hand out a rotated token with its
\* answer, and its answer may be lost on the way.
Serve(t) ==
  /\ call[t].at = "sent"
  /\ \/ /\ call[t].sent \in dead
        /\ Becomes(t, [call[t] EXCEPT !.at = "answered", !.answer = "expired"])
        /\ UNCHANGED issued
     \/ /\ call[t].sent \notin dead
        /\ \E a \in {"ok", "error"} :
             Becomes(t, [call[t] EXCEPT !.at = "answered", !.answer = a, !.executed = @ + 1])
        /\ UNCHANGED issued
     \/ /\ call[t].sent \notin dead
        /\ issued < MaxTokens
        /\ issued' = issued + 1
        /\ Becomes(t, [call[t] EXCEPT !.at = "answered", !.answer = "ok", !.executed = @ + 1,
                                      !.rotated = issued'])
  /\ UNCHANGED <<session, validated, lock, dead, lapsed>>

\* The recovery callbacks in their order: refresh, then full login.
Recovering(c) ==
  CASE c.recovery = 0 -> [Asking(c, "refresh") EXCEPT !.recovery = 1]
    [] c.recovery = 1 -> [Asking(c, "login") EXCEPT !.recovery = 2]
    [] OTHER -> Idle

\* Mutant: any failed request is recovered and sent again.
ReceiveRetrying(t) ==
  LET c == call[t]
  IN  /\ c.at = "answered"
      /\ IF c.rotated # 0 /\ apiToken # 0
           THEN token' = c.rotated /\ apiToken' = c.rotated
           ELSE UNCHANGED <<token, apiToken>>
      /\ Becomes(t, IF c.answer # "ok" THEN Recovering(c) ELSE Idle)
      /\ UNCHANGED <<hasClientId, generation, validated, lock, cloud>>

\* A rotated token goes to both copies; an expired token starts the recovery.
Receive(t) ==
  LET c == call[t]
  IN  /\ c.at = "answered"
      /\ IF c.rotated # 0 /\ apiToken # 0
           THEN token' = c.rotated /\ apiToken' = c.rotated
           ELSE UNCHANGED <<token, apiToken>>
      /\ Becomes(t, IF c.answer = "expired" THEN Recovering(c) ELSE Idle)
      /\ UNCHANGED <<hasClientId, generation, validated, lock, cloud>>

-----------------------------------------------------------------------------
(***************************************************************************)
(* CCAppVersion.                                                           *)
(***************************************************************************)

\* refresh() drops the version before its lookup; a lookup begun earlier by
\* another task is superseded.
Lookup(t, at) ==
  /\ validated' = FALSE
  /\ call' = [u \in Task |-> IF u = t THEN [call[t] EXCEPT !.at = at, !.current = TRUE]
                                      ELSE [call[u] EXCEPT !.current = FALSE]]

\* inject_validated, with a well-formed version or not.
Inject(ok) ==
  /\ validated' = ok
  /\ call' = [u \in Task |-> [call[u] EXCEPT !.current = FALSE]]
  /\ UNCHANGED <<session, lock, cloud>>

-----------------------------------------------------------------------------
(***************************************************************************)
(* AquareaClient.login and refresh_login, with Authenticator.              *)
(***************************************************************************)

\* _sync_authentication_state
Publish(tok) ==
  /\ apiToken' = tok
  /\ generation' = generation + 1

\* An authentication fails: out of the lock, and the exception ends the call,
\* or, after a failed refresh, the full login is tried next.
Fails(t) ==
  /\ lock' = lock \ {t}
  /\ Becomes(t, IF call[t].at = "refreshing" THEN Recovering(call[t]) ELSE Idle)

\* Mutant: the login asked for is done even if another one came first.
LockLoginAlways(t) ==
  /\ call[t].at = "login"
  /\ lock = {}
  /\ lock' = {t}
  /\ IF validated
       THEN Becomes(t, [call[t] EXCEPT !.at = "authorising"]) /\ UNCHANGED validated
       ELSE Lookup(t, "looking")
  /\ UNCHANGED <<session, cloud>>

\* The lock is free.  A login that succeeded since the task asked is shared.
LockLogin(t) ==
  /\ call[t].at = "login"
  /\ lock = {}
  /\ IF generation # call[t].intent
       THEN Becomes(t, Departed(call[t], token)) /\ UNCHANGED <<validated, lock>>
       ELSE /\ lock' = {t}
            /\ IF validated
                 THEN Becomes(t, [call[t] EXCEPT !.at = "authorising"]) /\ UNCHANGED validated
                 ELSE Lookup(t, "looking")
  /\ UNCHANGED <<session, cloud>>

LockRefresh(t) ==
  /\ call[t].at = "refresh"
  /\ lock = {}
  /\ IF generation # call[t].intent
       THEN Becomes(t, Departed(call[t], token)) /\ UNCHANGED lock
       ELSE /\ lock' = {t}
            /\ Becomes(t, [call[t] EXCEPT !.at = "refreshing"])
  /\ UNCHANGED <<session, validated, cloud>>

\* A version lookup ends.  The one made because the authorisation was rejected
\* does not save that login.
LookupEnds(t, found) ==
  LET works == found /\ call[t].current
      next == [looking |-> "authorising", accountLooking |-> "accountAgain"]
  IN  /\ call[t].at \in Looking
      /\ validated' = (validated \/ works)
      /\ IF works /\ call[t].at \in DOMAIN next
           THEN Becomes(t, [call[t] EXCEPT !.at = next[@]]) /\ UNCHANGED lock
           ELSE Fails(t)
      /\ UNCHANGED <<session, cloud>>

\* authorize, login and callback requests: rejected for the version, or failed.
AuthorisationRejected(t) ==
  /\ call[t].at = "authorising"
  /\ Lookup(t, "relooking")
  /\ UNCHANGED <<session, lock, cloud>>

AuthenticationFails(t) ==
  /\ call[t].at \in Authenticating \ Looking
  /\ Fails(t)
  /\ UNCHANGED <<session, validated, cloud>>

\* Mutant: the token is published before the account login.
TokenPublished(t) ==
  /\ call[t].at = "authorising"
  /\ issued < MaxTokens
  /\ issued' = issued + 1
  /\ token' = issued'
  /\ apiToken' = issued'
  /\ IF validated
       THEN Becomes(t, [call[t] EXCEPT !.at = "account", !.got = issued']) /\ UNCHANGED lock
       ELSE Fails(t)
  /\ UNCHANGED <<hasClientId, generation, validated, dead, lapsed>>

\* _request_new_token: settings hold the token before the account login that
\* has still to succeed.
TokenGranted(t) ==
  /\ call[t].at = "authorising"
  /\ issued < MaxTokens
  /\ issued' = issued + 1
  /\ token' = issued'
  /\ IF validated
       THEN Becomes(t, [call[t] EXCEPT !.at = "account", !.got = issued']) /\ UNCHANGED lock
       ELSE Fails(t)
  /\ UNCHANGED <<hasClientId, apiToken, generation, validated, dead, lapsed>>

\* Code 4106 on the account login: one lookup and one repetition.
AccountRejected(t) ==
  /\ call[t].at = "account"
  /\ Lookup(t, "accountLooking")
  /\ UNCHANGED <<session, lock, cloud>>

AccountReady(t) ==
  /\ call[t].at \in {"account", "accountAgain"}
  /\ hasClientId' = TRUE
  /\ Publish(token)
  /\ lock' = lock \ {t}
  /\ Becomes(t, Departed(call[t], token))
  /\ UNCHANGED <<token, validated, cloud>>

TokenRefreshed(t) ==
  /\ call[t].at = "refreshing"
  /\ issued < MaxTokens
  /\ issued' = issued + 1
  /\ token' = issued'
  /\ Publish(issued')
  /\ lock' = lock \ {t}
  /\ Becomes(t, Departed(call[t], issued'))
  /\ UNCHANGED <<hasClientId, validated, dead, lapsed>>

\* Mutant: a cancelled authentication keeps the lock.
CancelledLocked(t) ==
  /\ call[t].at # "idle"
  /\ Becomes(t, Idle)
  /\ UNCHANGED <<session, validated, lock, cloud>>

\* The caller is cancelled at an await.
Cancelled(t) ==
  /\ call[t].at # "idle"
  /\ lock' = lock \ {t}
  /\ Becomes(t, Idle)
  /\ UNCHANGED <<session, validated, cloud>>

-----------------------------------------------------------------------------
(***************************************************************************)
(* Environment: the cloud revokes a token, the local clock passes its end. *)
(***************************************************************************)
Revoke ==
  /\ \E x \in (1..issued) \ dead : dead' = dead \cup {x}
  /\ UNCHANGED <<session, validated, lock, call, issued, lapsed>>

Lapse ==
  /\ \E x \in (1..issued) \ lapsed : lapsed' = lapsed \cup {x}
  /\ UNCHANGED <<session, validated, lock, call, issued, dead>>

Authenticate(t) ==
  \/ \E found \in BOOLEAN : LookupEnds(t, found)
  \/ AuthorisationRejected(t) \/ AuthenticationFails(t) \/ TokenGranted(t)
  \/ AccountRejected(t) \/ AccountReady(t) \/ TokenRefreshed(t)

Next ==
  \/ \E t \in Task :
       \/ Begin(t) \/ Serve(t) \/ Receive(t)
       \/ LockLogin(t) \/ LockRefresh(t) \/ Authenticate(t) \/ Cancelled(t)
  \/ \E ok \in BOOLEAN : Inject(ok)
  \/ Revoke \/ Lapse

Spec == Init /\ [][Next]_vars

\* Every request in flight is answered or fails (HTTP timeouts); asyncio.Lock
\* serves its waiters in order, so a task that waits gets its turn.
FairSpec ==
  /\ Spec
  /\ \A t \in Task :
       /\ WF_vars(Serve(t)) /\ WF_vars(Receive(t)) /\ WF_vars(Authenticate(t))
       /\ SF_vars(LockLogin(t)) /\ SF_vars(LockRefresh(t))

-----------------------------------------------------------------------------
(***************************************************************************)
(* Properties.                                                             *)
(***************************************************************************)

\* Authentications are serialised: the task that authenticates holds the lock,
\* and a lock held belongs to a task that authenticates, cancelled or not.
LockHeldByAuthenticator == lock = {t \in Task : call[t].at \in Authenticating}

\* Concurrent calls share one authentication: no task authenticates once
\* another has succeeded since it asked.
AuthenticationsAreShared ==
  \A t \in Task : call[t].at \in Authenticating => call[t].intent = generation

\* An operation reaches the device at most once however it is recovered: it is
\* sent again only after the cloud refused its token.
ExecutedOnce == \A t \in Task : call[t].executed + Cardinality({"sent"} \cap {call[t].at}) <= 1

\* No device request leaves before a login has completed with the account
\* login, although settings hold a token earlier.
SentAfterCompleteLogin ==
  \A t \in Task : call[t].at \in {"sent", "answered"} => hasClientId /\ generation > 0

\* What a successful authentication publishes is the token it obtained.
PublishesWhatItObtained ==
  [][\A t \in Task : (AccountReady(t) /\ generation' # generation) => apiToken' = call[t].got]_vars

\* Every call ends, however its token, its version and its retries fare.
CallsEnd == \A t \in Task : call[t].at # "idle" ~> call[t].at = "idle"
=============================================================================
