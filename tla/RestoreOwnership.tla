-------------------------- MODULE RestoreOwnership --------------------------
(***************************************************************************)
(* Ownership of one linked restore: the claim token of the plan_actions    *)
(* row, the process-device owner table, the PostgreSQL session advisory    *)
(* lock, and the drainage evidence one owner leaves for the next           *)
(* (core/safety_attempts.py and the safety lane of                         *)
(* optimizer/executor_core.py).                                            *)
(*                                                                         *)
(* Several executor processes run against one database.  Each runs one     *)
(* attempt at a time (one executor job, max_instances = 1) but may keep    *)
(* devices fenced off after an attempt whose work it could not drain.      *)
(* Processes crash, sessions are lost, calls hang and rows are rewritten   *)
(* by the shower watchdog in between.                                      *)
(*                                                                         *)
(* Abstracted: payload validation, the clocks behind deadlines (an         *)
(* attempt may be interrupted at any point), retry delays (a requeued row  *)
(* becomes ready at some later time) and what a status read returns        *)
(* (RestoreEvidence models that).                                          *)
(***************************************************************************)
EXTENDS FiniteSets

CONSTANTS
  Process,        \* optimizer processes, each with its own module globals
  Action,         \* linked restores
  Device,
  NoDevice,       \* device_id IS NULL
  DeviceOf,       \* DeviceOf[a]
  Token,          \* claim tokens; a UUID is one that nothing else refers to
  NoToken,        \* safety_claim_token IS NULL
  Nobody,         \* no session holds the advisory lock
  Quiet,          \* no command in progress, in the abstract ledger
  Legacy,         \* rows that may be executing without a token (pre-migration 034)
  Shower,         \* restores whose source an open shower event points at
  Faults          \* which of "crash", "fence", "stuck", "ack" may happen

ASSUME OwnershipAssumption ==
  /\ DeviceOf \in [Action -> Device \cup {NoDevice}]
  /\ NoDevice \notin Device
  /\ NoToken \notin Token
  /\ Nobody \notin Process
  /\ Quiet \notin Action
  /\ Action # {}
  /\ Legacy \subseteq Action
  /\ Shower \subseteq Action

VARIABLES
  \* plan_actions
  status,         \* status[a]
  token,          \* safety_claim_token
  proven,         \* result_json holds a confirmed drain for that token
  ready,          \* scheduled_ts and safety_next_retry_at have passed
  \* PostgreSQL and settings
  session,        \* session[d]: whose attempt holds the advisory lock
  learning,       \* effective learning state
  \* each process
  owned,          \* _DEVICE_OWNERS: devices a process has fenced for itself
  pc,             \* progress of its current attempt
  act,            \* action_id of the attempt
  tok,            \* token the attempt has bound
  goal,           \* what the attempt will write once drained
  stuck,          \* _keep_blocked: the process fence must not be released
  calls           \* SDK restore calls whose task has not ended

rowVars  == <<status, token, proven, ready>>
procVars == <<owned, pc, act, tok, goal, stuck>>
vars     == <<status, token, proven, ready, session, learning, owned, pc, act,
              tok, goal, stuck, calls>>

-----------------------------------------------------------------------------
Status == {"pending", "executing", "dispatched", "executed"}

\* unresolved_revert_predicate
Unresolved == {"pending", "executing", "dispatched"}

\* A claim is persisted and the attempt still works under its token.
Working == {"claimed", "cleared", "authorised", "calling", "settled",
            "verifying", "draining", "closing"}

Interruptible == {"claimed", "cleared", "authorised", "calling", "settled",
                  "verifying"}

Step == {"idle", "admitting", "fenced", "releasing", "unlocked"} \cup Working

Call == [proc : Process, act : Action, tok : Token \cup {NoToken}]

TypeOK ==
  /\ status \in [Action -> Status]
  /\ token \in [Action -> Token \cup {NoToken}]
  /\ proven \in [Action -> BOOLEAN]
  /\ ready \in [Action -> BOOLEAN]
  /\ session \in [Device -> Process \cup {Nobody}]
  /\ learning \in {"active", "inactive", "unknown"}
  /\ owned \in [Process -> SUBSET Device]
  /\ pc \in [Process -> Step]
  /\ act \in [Process -> Action]
  /\ tok \in [Process -> Token \cup {NoToken}]
  /\ goal \in [Process -> {"none", "requeue", "verified"}]
  /\ stuck \in [Process -> BOOLEAN]
  /\ calls \in SUBSET Call

Init ==
  /\ \E found \in SUBSET Legacy :
       status = [a \in Action |-> IF a \in found THEN "executing" ELSE "pending"]
  /\ token = [a \in Action |-> NoToken]
  /\ proven = [a \in Action |-> FALSE]
  /\ ready = [a \in Action |-> FALSE]
  /\ session = [d \in Device |-> Nobody]
  /\ learning \in {"active", "inactive", "unknown"}
  /\ owned = [p \in Process |-> {}]
  /\ pc = [p \in Process |-> "idle"]
  /\ act = [p \in Process |-> CHOOSE a \in Action : TRUE]
  /\ tok = [p \in Process |-> NoToken]
  /\ goal = [p \in Process |-> "none"]
  /\ stuck = [p \in Process |-> FALSE]
  /\ calls = {}

-----------------------------------------------------------------------------
\* The device of the attempt of p.
Dev(p) == DeviceOf[act[p]]

Goto(p, step) == pc' = [pc EXCEPT ![p] = step]

Aim(p, g) == goal' = [goal EXCEPT ![p] = g]

\* Some other UUID than every one a row, an attempt or a running call refers to.
Fresh(t) ==
  /\ \A a \in Action : token[a] # t
  /\ \A p \in Process : tok[p] # t
  /\ \A c \in calls : c.tok # t

\* Mutant: any earlier claim token counts as drained.
TokenIsEnough(a) == token[a] # NoToken

\* _confirmed_drain
ConfirmedDrain(a) == token[a] # NoToken /\ proven[a]

\* Rows whose owner may still be acting on device d.
Actors(d) ==
  {a \in Action : /\ DeviceOf[a] \in {d, NoDevice}
                  /\ \/ status[a] \in {"executing", "dispatched"}
                     \/ status[a] = "pending" /\ token[a] # NoToken}

\* Mutant: only the row itself is checked, as a claim per row would do.
AdmissibleAlone(a) ==
  /\ status[a] \in Unresolved
  /\ status[a] = "pending" \/ ConfirmedDrain(a)

\* Mutant: an executing row may be reclaimed for its age.
AdmissibleByAge(a) == status[a] \in Unresolved

Admissible(a) ==
  /\ status[a] \in Unresolved
  /\ \A b \in Actors(DeviceOf[a]) : ConfirmedDrain(b)

\* assert_live, check_fence and the row predicate of _assert_safety_authority.
Authority(p) ==
  /\ session[Dev(p)] = p
  /\ token[act[p]] = tok[p]
  /\ status[act[p]] \in {"executing", "dispatched"}

-----------------------------------------------------------------------------
(***************************************************************************)
(* Admission: process fence, dedicated session lock, claim.                *)
(***************************************************************************)

\* execute_due_actions and the synchronous part of SafetyAttempt.acquire.
Acquire(p, a) ==
  /\ pc[p] = "idle"
  /\ learning # "active"
  /\ status[a] \in Unresolved
  /\ ready[a]
  /\ DeviceOf[a] \in Device \ owned[p]
  /\ owned' = [owned EXCEPT ![p] = @ \cup {DeviceOf[a]}]
  /\ act' = [act EXCEPT ![p] = a]
  /\ stuck' = [stuck EXCEPT ![p] = FALSE]
  /\ Goto(p, "admitting")
  /\ UNCHANGED <<rowVars, session, learning, tok, goal, calls>>

\* pg_try_advisory_lock within the admission deadline.
TryLock(p) ==
  /\ pc[p] = "admitting"
  /\ IF session[Dev(p)] = Nobody
       THEN /\ session' = [session EXCEPT ![Dev(p)] = p]
            /\ Goto(p, "fenced")
       ELSE /\ Goto(p, "releasing")
            /\ UNCHANGED session
  /\ UNCHANGED <<rowVars, learning, owned, act, tok, goal, stuck, calls>>

\* No connection within two seconds, or the first fence check fails.
AdmissionFails(p) ==
  /\ pc[p] \in {"admitting", "fenced"}
  /\ stuck' \in {stuck} \cup
        (IF "stuck" \in Faults THEN {[stuck EXCEPT ![p] = TRUE]} ELSE {})
  /\ Goto(p, "releasing")
  /\ UNCHANGED <<rowVars, session, learning, owned, act, tok, goal, calls>>

\* The committed effect of _claim_safety_candidate for an admissible row.
Bind(p, t) ==
  /\ pc[p] = "fenced"
  /\ ready[act[p]]
  /\ Admissible(act[p])
  /\ Fresh(t)
  /\ status' = [status EXCEPT ![act[p]] = "executing"]
  /\ token' = [token EXCEPT ![act[p]] = t]
  /\ proven' = [proven EXCEPT ![act[p]] = FALSE]
  /\ UNCHANGED <<ready, session, learning, owned, act, goal, stuck, calls>>

Claim(p, t) ==
  /\ Bind(p, t)
  /\ tok' = [tok EXCEPT ![p] = t]
  /\ Goto(p, "claimed")

\* The transaction commits but the attempt is cancelled or times out first.
ClaimUnacknowledged(p, t) ==
  /\ "ack" \in Faults
  /\ Bind(p, t)
  /\ Goto(p, "releasing")
  /\ UNCHANGED tok

ClaimRefused(p) ==
  /\ pc[p] = "fenced"
  /\ ~(ready[act[p]] /\ Admissible(act[p]))
  /\ Goto(p, "releasing")
  /\ UNCHANGED <<rowVars, session, learning, owned, act, tok, goal, stuck, calls>>

-----------------------------------------------------------------------------
(***************************************************************************)
(* The claimed attempt: preflight, dispatch, verification.                 *)
(***************************************************************************)

\* What a step of the attempt that only changes its progress leaves alone.
OnlyProgress ==
  UNCHANGED <<rowVars, session, learning, owned, act, tok, stuck>>

\* Learning state read at the start of _preflight_safety_dispatch.
Preflight(p) ==
  /\ pc[p] = "claimed"
  /\ learning # "active"
  /\ Authority(p)
  /\ Goto(p, "cleared")
  /\ OnlyProgress /\ UNCHANGED <<goal, calls>>

LearningDefers(p) ==
  /\ pc[p] = "claimed"
  /\ learning = "active"
  /\ Goto(p, "draining")
  /\ Aim(p, "requeue")
  /\ OnlyProgress /\ UNCHANGED calls

\* Persisted or live evidence shows that the device needs no command.
AlreadySafe(p) ==
  /\ pc[p] = "cleared"
  /\ Authority(p)
  /\ Goto(p, "draining")
  /\ Aim(p, "verified")
  /\ OnlyProgress /\ UNCHANGED calls

\* The admission read shows an unsafe device; last authority check.
Authorise(p) ==
  /\ pc[p] = "cleared"
  /\ Authority(p)
  /\ Goto(p, "authorised")
  /\ OnlyProgress /\ UNCHANGED <<goal, calls>>

\* The SDK call of the restore starts.
Send(p) ==
  /\ pc[p] = "authorised"
  /\ Goto(p, "calling")
  /\ calls' = calls \cup {[proc |-> p, act |-> act[p], tok |-> tok[p]]}
  /\ OnlyProgress /\ UNCHANGED goal

CallsOf(p) == {c \in calls : c.proc = p}

\* It returns, or fails ambiguously: both are settled and verified alike.
CallReturns(p) ==
  /\ pc[p] = "calling"
  /\ Goto(p, "settled")
  /\ calls' = {c \in calls : ~(c.proc = p /\ c.tok = tok[p])}
  /\ OnlyProgress /\ UNCHANGED goal

RecordDispatched(p) ==
  /\ pc[p] = "settled"
  /\ Authority(p)
  /\ status' = [status EXCEPT ![act[p]] = "dispatched"]
  /\ Goto(p, "verifying")
  /\ UNCHANGED <<token, proven, ready, session, learning, owned, act, tok, goal,
                 stuck, calls>>

Verified(p) ==
  /\ pc[p] = "verifying"
  /\ Authority(p)
  /\ Goto(p, "draining")
  /\ Aim(p, "verified")
  /\ OnlyProgress /\ UNCHANGED calls

\* Deadline, quota, unusable evidence, failed precondition, cancellation.
Interrupt(p) ==
  /\ pc[p] \in Interruptible
  /\ Goto(p, "draining")
  /\ Aim(p, "requeue")
  /\ OnlyProgress /\ UNCHANGED calls

\* A failed check_fence of the attempt or of its monitor.
FenceLossSeen(p) ==
  /\ pc[p] \in Interruptible \cup {"closing"}
  /\ session[Dev(p)] # p
  /\ Goto(p, IF pc[p] = "closing" THEN "releasing" ELSE "draining")
  /\ Aim(p, "none")
  /\ stuck' = [stuck EXCEPT ![p] = TRUE]
  /\ UNCHANGED <<rowVars, session, learning, owned, act, tok, calls>>

-----------------------------------------------------------------------------
(***************************************************************************)
(* Drainage, the final row update and the release of both fences.          *)
(***************************************************************************)

Drain(p) ==
  /\ pc[p] = "draining"
  /\ calls' = {c \in calls : ~(c.proc = p /\ c.tok = tok[p])}
  /\ Goto(p, IF goal[p] = "none" THEN "releasing" ELSE "closing")
  /\ OnlyProgress /\ UNCHANGED goal

\* Mutant: the result of the drain is not looked at.
DrainFailsUnnoticed(p) ==
  /\ "stuck" \in Faults
  /\ pc[p] = "draining"
  /\ Goto(p, IF goal[p] = "none" THEN "releasing" ELSE "closing")
  /\ OnlyProgress /\ UNCHANGED <<goal, calls>>

\* The owned tasks are still running when the drain deadline passes.  The pass
\* inside _bounded is followed by one in _execute_safety_action.
DrainFails(p) ==
  /\ "stuck" \in Faults
  /\ pc[p] = "draining"
  /\ stuck' = [stuck EXCEPT ![p] = TRUE]
  /\ \/ UNCHANGED <<goal, pc>>
     \/ Aim(p, "none") /\ Goto(p, "releasing")
  /\ UNCHANGED <<rowVars, session, learning, owned, act, tok, calls>>

\* Mutant: the requeued row does not carry the drainage evidence.
RequeueUnproven(p) ==
  /\ pc[p] = "closing"
  /\ goal[p] = "requeue"
  /\ Authority(p)
  /\ status' = [status EXCEPT ![act[p]] = "pending"]
  /\ ready' = [ready EXCEPT ![act[p]] = FALSE]
  /\ Goto(p, "releasing")
  /\ UNCHANGED <<token, proven, session, learning, owned, act, tok, goal, stuck, calls>>

Requeue(p) ==
  /\ pc[p] = "closing"
  /\ goal[p] = "requeue"
  /\ Authority(p)
  /\ status' = [status EXCEPT ![act[p]] = "pending"]
  /\ proven' = [proven EXCEPT ![act[p]] = TRUE]
  /\ ready' = [ready EXCEPT ![act[p]] = FALSE]
  /\ Goto(p, "releasing")
  /\ UNCHANGED <<token, session, learning, owned, act, tok, goal, stuck, calls>>

Complete(p) ==
  /\ pc[p] = "closing"
  /\ goal[p] = "verified"
  /\ Authority(p)
  /\ status' = [status EXCEPT ![act[p]] = "executed"]
  /\ proven' = [proven EXCEPT ![act[p]] = TRUE]
  /\ Goto(p, "releasing")
  /\ UNCHANGED <<token, ready, session, learning, owned, act, tok, goal, stuck, calls>>

\* The final update fails: a completion falls back to a requeue, and a requeue
\* that fails leaves the row claimed and unproven.
CloseFails(p) ==
  /\ "ack" \in Faults
  /\ pc[p] = "closing"
  /\ Goto(p, IF goal[p] = "verified" THEN "closing" ELSE "releasing")
  /\ Aim(p, IF goal[p] = "verified" THEN "requeue" ELSE "none")
  /\ OnlyProgress /\ UNCHANGED calls

\* pg_advisory_unlock, or invalidation and close of the connection.
Unlock(p) ==
  /\ pc[p] = "releasing"
  /\ session' = [session EXCEPT ![Dev(p)] = IF @ = p THEN Nobody ELSE @]
  /\ Goto(p, "unlocked")
  /\ UNCHANGED <<rowVars, learning, owned, act, tok, goal, stuck, calls>>

\* Neither unlock, invalidation nor close can be confirmed.
UnlockFails(p) ==
  /\ "stuck" \in Faults
  /\ pc[p] = "releasing"
  /\ stuck' = [stuck EXCEPT ![p] = TRUE]
  /\ Goto(p, "unlocked")
  /\ UNCHANGED <<rowVars, session, learning, owned, act, tok, goal, calls>>

\* The attempt object is gone.
Forget(p) ==
  /\ Goto(p, "idle")
  /\ tok' = [tok EXCEPT ![p] = NoToken]
  /\ Aim(p, "none")

\* The device owner entry goes too, unless _keep_blocked.
Unfence(p) ==
  /\ pc[p] = "unlocked"
  /\ owned' = [owned EXCEPT ![p] = IF stuck[p] THEN @ ELSE @ \ {Dev(p)}]
  /\ Forget(p)
  /\ UNCHANGED <<rowVars, session, learning, act, stuck, calls>>

-----------------------------------------------------------------------------
(***************************************************************************)
(* The environment.                                                        *)
(***************************************************************************)

\* A call whose attempt gave up draining it ends at last.
StrandedCallEnds(c) ==
  /\ c \in calls
  /\ tok[c.proc] # c.tok
  /\ calls' = calls \ {c}
  /\ UNCHANGED <<rowVars, session, learning, procVars>>

\* The process dies: its memory, its tasks and its sessions go with it.
Crash(p) ==
  /\ "crash" \in Faults
  /\ session' = [d \in Device |-> IF session[d] = p THEN Nobody ELSE session[d]]
  /\ owned' = [owned EXCEPT ![p] = {}]
  /\ stuck' = [stuck EXCEPT ![p] = FALSE]
  /\ calls' = calls \ CallsOf(p)
  /\ Forget(p)
  /\ UNCHANGED <<rowVars, learning, act>>

\* PostgreSQL ends the session that holds the advisory lock.
SessionLost(d) ==
  /\ "fence" \in Faults
  /\ session[d] # Nobody
  /\ session' = [session EXCEPT ![d] = Nobody]
  /\ UNCHANGED <<rowVars, learning, procVars, calls>>

\* _reschedule_linked_off: the row is made due and its result_json replaced.
ShowerReschedule(a) ==
  /\ a \in Shower
  /\ status[a] = "pending"
  /\ DeviceOf[a] \in Device
  /\ session[DeviceOf[a]] = Nobody
  /\ proven' = [proven EXCEPT ![a] = FALSE]
  /\ ready' = [ready EXCEPT ![a] = @ \/ token[a] = NoToken]
  /\ UNCHANGED <<status, token, session, learning, procVars, calls>>

\* scheduled_ts or safety_next_retry_at passes.
BecomesReady(a) ==
  /\ ~ready[a]
  /\ ready' = [ready EXCEPT ![a] = TRUE]
  /\ UNCHANGED <<status, token, proven, session, learning, procVars, calls>>

SetLearning(l) ==
  /\ learning # l
  /\ learning' = l
  /\ UNCHANGED <<rowVars, session, procVars, calls>>

-----------------------------------------------------------------------------
Attempt(p) ==
  \/ \E a \in Action : Acquire(p, a)
  \/ \E t \in Token : Claim(p, t) \/ ClaimUnacknowledged(p, t)
  \/ TryLock(p)        \/ AdmissionFails(p) \/ ClaimRefused(p)
  \/ Preflight(p)      \/ LearningDefers(p) \/ AlreadySafe(p)
  \/ Authorise(p)      \/ Send(p)           \/ CallReturns(p)
  \/ RecordDispatched(p) \/ Verified(p)     \/ Interrupt(p)
  \/ FenceLossSeen(p)  \/ Drain(p)          \/ DrainFails(p)
  \/ Requeue(p)        \/ Complete(p)       \/ CloseFails(p)
  \/ Unlock(p)         \/ UnlockFails(p)    \/ Unfence(p)

Environment ==
  \/ \E c \in calls : StrandedCallEnds(c)
  \/ \E p \in Process : Crash(p)
  \/ \E d \in Device : SessionLost(d)
  \/ \E a \in Action : ShowerReschedule(a) \/ BecomesReady(a)
  \/ \E l \in {"active", "inactive", "unknown"} : SetLearning(l)

Next == (\E p \in Process : Attempt(p)) \/ Environment

Spec == Init /\ [][Next]_vars

\* What the process does next when nothing interferes with its attempt.
Advance(p) ==
  \/ TryLock(p)        \/ ClaimRefused(p) \/ \E t \in Token : Claim(p, t)
  \/ Preflight(p)      \/ LearningDefers(p)
  \/ Authorise(p)      \/ Send(p)         \/ CallReturns(p)
  \/ RecordDispatched(p) \/ Verified(p)
  \/ Drain(p)          \/ Requeue(p)      \/ Complete(p)
  \/ Unlock(p)         \/ Unfence(p)

\* An attempt that could go on is given up.
Deferral ==
  \E p \in Process : \/ AdmissionFails(p) /\ ~ClaimRefused(p)
                     \/ Interrupt(p)

\* The executor job runs every minute and finishes what it started; candidates
\* are taken oldest first and a deferred one waits at least a minute, so none
\* that keeps coming up is passed over for ever.
FairSpec ==
  /\ Spec
  /\ \A p \in Process : WF_vars(Advance(p))
  /\ \A a \in Action : /\ WF_vars(BecomesReady(a))
                      /\ SF_vars(\E p \in Process : Acquire(p, a))
-----------------------------------------------------------------------------
(***************************************************************************)
(* Safety.                                                                 *)
(***************************************************************************)

\* At most one SDK restore call is in progress for a device, over all
\* processes, through crashes, lost sessions and calls that outlive their
\* attempt (the device fences and the actor check of _claim_safety_candidate).
OneCallPerDevice ==
  \A c, e \in calls : DeviceOf[c.act] = DeviceOf[e.act] => c = e

\* Drainage evidence is true: the token it was written for belongs to no
\* attempt that can still act and to no running call, so the next claim,
\* which trusts it (_confirmed_drain), does not overtake a live owner.
DrainProofIsTrue ==
  \A a \in Action : ConfirmedDrain(a) =>
    /\ \A c \in calls : c.tok # token[a]
    /\ \A p \in Process : pc[p] \in Working => tok[p] # token[a]

\* A restore is only marked executed once none of its calls is running, and no
\* call is ever made for it again (the obligation of README "Restore
\* ownership" is settled for good).
SettledIsQuiet ==
  \A a \in Action : status[a] = "executed" =>
    /\ \A c \in calls : c.act # a
    /\ \A p \in Process : pc[p] \in Working => act[p] # a

\* Two attempts never work on the same device at once, in one process or in
\* two, even after one of them lost its session and the other took the lock.
OneWorkerPerDevice ==
  \A p, q \in Process :
    pc[p] \in Working /\ pc[q] \in Working /\ Dev(p) = Dev(q) => p = q

\* A claim token is replaced only after its owner has gone quiet: nobody takes
\* a row over on age alone (SAFETY_ACTION_STUCK_AFTER selects candidates, the
\* drain evidence decides).
NoTakeoverWhileActing ==
  [][\A a \in Action : token'[a] # token[a] =>
       /\ \A c \in calls : DeviceOf[c.act] # DeviceOf[a]
       /\ \A p \in Process : pc[p] \in Working => Dev(p) # DeviceOf[a]]_vars

\* The process fence of a device is given up only after the session lock is:
\* a connection never goes back to the pool, or away, still holding the lock.
FenceReleasedInOrder ==
  \A d \in Device : session[d] # Nobody => d \in owned[session[d]]

\* A row found executing with no claim token (it was claimed before tokens
\* existed) has an owner nobody can name: as long as it stands, nothing is
\* claimed for its device, or for any device when its device is unknown.
LegacyRowFencesItsDevice ==
  \A a \in Action : status[a] \in {"executing", "dispatched"} /\ token[a] = NoToken =>
    \A p \in Process : pc[p] \in Working => DeviceOf[a] \notin {Dev(p), NoDevice}

-----------------------------------------------------------------------------
(***************************************************************************)
(* The inductive invariant behind the safety properties.                   *)
(***************************************************************************)

\* A running call belongs to the row's present claim, and that row carries no
\* drainage evidence.
CallsAreClaimed ==
  \A c \in calls : /\ c.tok # NoToken
                    /\ token[c.act] = c.tok
                    /\ status[c.act] \in {"executing", "dispatched"}
                    /\ ~proven[c.act]

\* So does a working attempt.
WorkersAreClaimed ==
  \A p \in Process : pc[p] \in Working =>
    /\ tok[p] # NoToken
    /\ token[act[p]] = tok[p]
    /\ status[act[p]] \in {"executing", "dispatched"}
    /\ ~proven[act[p]]

\* A token names one row and one attempt.
TokensIdentify ==
  /\ \A a, b \in Action : token[a] = token[b] /\ token[a] # NoToken => a = b
  /\ \A p, q \in Process : tok[p] = tok[q] /\ tok[p] # NoToken => p = q
  /\ \A c \in calls, p \in Process : tok[p] = c.tok => c.proc = p
  /\ \A p \in Process :
       pc[p] \in {"idle", "admitting", "fenced"} => tok[p] = NoToken

\* A working attempt shares its device with no other and with no stray call,
\* and has no call of its own before it sends one or after it is drained.
WorkersAreAlone ==
  /\ OneWorkerPerDevice
  /\ OneCallPerDevice
  /\ \A p \in Process, c \in calls :
       pc[p] \in Working /\ DeviceOf[c.act] = Dev(p) => c.tok = tok[p]
  /\ \A p \in Process, c \in calls :
       pc[p] \in {"claimed", "cleared", "authorised", "closing"} => c.tok # tok[p]

\* The session fence is inside the process fence.
FencesNested ==
  /\ FenceReleasedInOrder
  /\ \A p \in Process :
       /\ pc[p] # "idle" => Dev(p) \in owned[p]
       /\ pc[p] = "unlocked" /\ session[Dev(p)] = p => stuck[p]

OwnershipInv ==
  /\ TypeOK
  /\ CallsAreClaimed
  /\ WorkersAreClaimed
  /\ TokensIdentify
  /\ WorkersAreAlone
  /\ FencesNested

-----------------------------------------------------------------------------
(***************************************************************************)
(* Progress, and what the shower watchdog says of its rescheduling.         *)
(***************************************************************************)

\* If positive observation ends for good and deferrals cease, every linked
\* restore is settled: claims, requeues, retries and drainage evidence never
\* wedge a row on their own.
EveryRestoreSettles ==
  <>[](learning # "active") /\ <>[][~Deferral]_vars =>
    \A a \in Action : <>(status[a] = "executed")

\* _reschedule_linked_off makes the linked restore immediately due: a restore
\* that could be claimed before can still be claimed.
RescheduleKeepsRestoreClaimable ==
  [][\A a \in Action : ShowerReschedule(a) /\ Admissible(a) => Admissible(a)']_vars

-----------------------------------------------------------------------------
(***************************************************************************)
(* The abstract ledger.                                                    *)
(***************************************************************************)

openActions == {a \in Action : status[a] # "executed"}

\* What each device is busy with, if K are the running calls.
BusyWith(K) ==
  [d \in Device |-> IF \E c \in K : DeviceOf[c.act] = d
                      THEN (CHOOSE c \in K : DeviceOf[c.act] = d).act
                      ELSE Quiet]

Ledger == INSTANCE RestoreLedger WITH open <- openActions, busy <- BusyWith(calls)

\* Every step of the executors is a step of the ledger or leaves it alone.
ImplementsLedger == Ledger!LedgerSpec
=============================================================================
