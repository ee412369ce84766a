---------------------------- MODULE ShowerEvents ----------------------------
(***************************************************************************)
(* Showers and the restore each of them owes.  A shower in progress has a  *)
(* row of shower_events and, linked to the action that started the boost,  *)
(* a row of plan_actions that ends it.  Four actors close or move the two: *)
(* the poller's detector on every reading and the optimizer's watchdog     *)
(* (optimizer/shower_mode.py), the attempt that switches the boost off     *)
(* (optimizer/executor_core.py, RestoreOwnership), and an operator who     *)
(* resolves a restore by hand (api/routers/optimizer.py).  Migration 029   *)
(* made the obligations of the showers an older build had left open.       *)
(*                                                                         *)
(* Transactions read what is committed (READ COMMITTED) and hold the locks *)
(* of their rows to the end; what they write is in "draft" until then.     *)
(***************************************************************************)
EXTENDS Naturals, FiniteSets

CONSTANTS Devices,
          MaxShowers,  \* showers the older build starts, bounded for TLC
          MaxFaults,   \* crashes and failed transactions, bounded for TLC
          None

Checkers == {"poller", "watchdog"}
OPEN_SHOWER_STATUSES == {"active", "recovery_pending", "timeout_pending"}
UNRESOLVED_STATUSES == {"pending", "executing", "dispatched"}

VARIABLES
  schema,   \* revision of the database, "028" or "029"
  \* per device: its last shower and the restore linked to it
  shower,   \* shower_events.status
  expired,  \* expires_at has passed
  restore,  \* plan_actions.status of the linked force_dhw_off, None without one
  due,      \* scheduled_ts and safety_next_retry_at have passed
  claim,    \* "free", "drained" or "unsettled": token and proof in result_json
  seen,     \* fresh device_status: force_dhw "on" or "off", None when stale
  skipped,  \* drops recorded as skipped_observe_only_build
  fence,    \* who holds the advisory lock of the device
  attempt,  \* the executor's: device and the status it last wrote
  tx,       \* transaction of each checker
  hand,     \* the operator's request
  showers, faults,  \* bounds
  closings  \* history: audit rows that close a restore of the device

showerVars == <<schema, shower, expired, restore, due, claim, seen, skipped, fence,
                attempt, tx, hand, showers, faults, closings>>
rows == <<shower, restore, due, claim, closings>>
world == <<schema, expired, seen, showers>>

\* What a transaction will write: the new status of showers in progress.
Drafts == UNION {[S -> OPEN_SHOWER_STATUSES] : S \in SUBSET Devices}

NoTx == [at |-> "idle", dev |-> None, todo |-> {}, held |-> {}, acted |-> {},
         draft |-> [d \in {} |-> None]]
NoHand == [at |-> "idle", dev |-> None]
NoAttempt == [dev |-> None, known |-> None]

TypeOK ==
  /\ schema \in {"028", "029"}
  /\ shower \in [Devices -> OPEN_SHOWER_STATUSES \cup {"none", "resolved", "recovered"}]
  /\ expired \in [Devices -> BOOLEAN]
  /\ restore \in [Devices -> UNRESOLVED_STATUSES \cup {"executed", None}]
  /\ due \in [Devices -> BOOLEAN]
  /\ claim \in [Devices -> {"free", "drained", "unsettled"}]
  /\ seen \in [Devices -> {"on", "off", None}]
  /\ skipped \in SUBSET Devices
  /\ fence \in [Devices -> Checkers \cup {"executor", None}]
  /\ attempt \in {NoAttempt} \cup [dev : Devices, known : {"executing", "dispatched"}]
  /\ tx \in [Checkers -> [at : {"idle", "next", "row", "act"}, dev : Devices \cup {None},
                          todo : SUBSET Devices, held : SUBSET Devices, acted : SUBSET Devices,
                          draft : Drafts]]
  /\ hand \in {NoHand} \cup [at : {"write"}, dev : Devices]
  /\ showers \in 0 .. MaxShowers
  /\ faults \in 0 .. MaxFaults
  /\ closings \in [Devices -> Nat]

Open(d) == shower[d] \in OPEN_SHOWER_STATUSES
Unresolved(d) == restore[d] \in UNRESOLVED_STATUSES
EventLocked(d) == \E c \in Checkers : d \in tx[c].held
ActionLocked(d) == hand = [at |-> "write", dev |-> d] \/ \E c \in Checkers : d \in tx[c].acted

Init ==
  /\ schema = "028" /\ attempt = NoAttempt /\ hand = NoHand
  /\ shower \in [Devices -> {"none", "active"}]
  /\ expired = [d \in Devices |-> FALSE]
  /\ restore = [d \in Devices |-> None]
  /\ due = [d \in Devices |-> FALSE]
  /\ claim = [d \in Devices |-> "free"]
  /\ seen = [d \in Devices |-> None]
  /\ fence = [d \in Devices |-> None]
  /\ tx = [c \in Checkers |-> NoTx]
  /\ skipped = {} /\ showers = 0 /\ faults = 0
  /\ closings = [d \in Devices |-> 0]

(* Migration 029, with the writers stopped.  Each active shower gets an    *)
(* executed source and a pending restore due at its expiry; a setting that *)
(* is no duration, a status row that is missing or not unique, or a lock   *)
(* that is not had in time, undoes all of it. *)
Upgrade(duration, named, locked) ==
  /\ schema = "028"
  /\ LET legacy == {d \in Devices : shower[d] = "active"}
     IN IF duration /\ legacy \subseteq named /\ locked
        THEN /\ schema' = "029"
             /\ restore' = [d \in Devices |-> IF d \in legacy THEN "pending" ELSE restore[d]]
             /\ due' = [d \in Devices |-> IF d \in legacy THEN expired[d] ELSE due[d]]
        ELSE UNCHANGED <<schema, restore, due>>
  /\ UNCHANGED <<shower, expired, claim, seen, skipped, fence, attempt, tx, hand, showers, faults,
                 closings>>

(* The way back drops the links; it is refused while one is owed. *)
Stopped == attempt = NoAttempt /\ hand = NoHand /\ \A c \in Checkers : tx[c] = NoTx
Downgrade ==
  /\ schema = "029" /\ Stopped
  /\ \A d \in Devices : ~Unresolved(d)
  /\ schema' = "028"
  /\ restore' = [d \in Devices |-> None]
  /\ due' = [d \in Devices |-> FALSE]
  /\ claim' = [d \in Devices |-> "free"]
  /\ closings' = [d \in Devices |-> 0]
  /\ UNCHANGED <<shower, expired, seen, skipped, fence, attempt, tx, hand, showers, faults>>

(* The older build boosts the tank of a device whose shower is over. *)
OldBuild(d) ==
  /\ schema = "028" /\ ~Open(d) /\ showers < MaxShowers
  /\ shower' = [shower EXCEPT ![d] = "active"]
  /\ expired' = [expired EXCEPT ![d] = FALSE]
  /\ showers' = showers + 1
  /\ UNCHANGED <<schema, restore, due, claim, seen, skipped, fence, attempt, tx, hand, faults, closings>>

(* A checker starts a transaction.  The poller looks at the device it has  *)
(* just read: a shower in progress is checked, a sudden drop of the tank   *)
(* with the boost off is only recorded, in this build. *)
Begin(c, todo) == tx' = [tx EXCEPT ![c] = [NoTx EXCEPT !.at = "next", !.todo = todo]]
PollerCheck(d, drop) ==
  /\ schema = "029" /\ tx["poller"] = NoTx
  /\ IF Open(d)
     THEN Begin("poller", {d}) /\ UNCHANGED skipped
     ELSE /\ skipped' = IF drop /\ seen[d] # "on" THEN skipped \cup {d} ELSE skipped
          /\ UNCHANGED tx
  /\ UNCHANGED <<rows, world, fence, attempt, hand, faults>>

WatchdogCheck ==
  /\ schema = "029" /\ tx["watchdog"] = NoTx
  /\ LET late == {d \in Devices : Open(d) /\ expired[d]}
     IN late # {} /\ Begin("watchdog", late)
  /\ UNCHANGED <<rows, world, skipped, fence, attempt, hand, faults>>

(* lock_shower_device: a device whose lock another holds is left alone. *)
Leave(c) == tx' = [tx EXCEPT ![c].at = "next", ![c].dev = None, ![c].todo = @ \ {tx[c].dev}]
TakeDevice(c, d) ==
  /\ tx[c].at = "next" /\ d \in tx[c].todo
  /\ IF fence[d] = None
     THEN /\ fence' = [fence EXCEPT ![d] = c]
          /\ tx' = [tx EXCEPT ![c].at = "row", ![c].dev = d]
     ELSE /\ tx' = [tx EXCEPT ![c].todo = @ \ {d}]
          /\ UNCHANGED fence
  /\ UNCHANGED <<rows, world, skipped, attempt, hand, faults>>

(* The row is read again under its lock: the event may be over by now. *)
StillOpen(d) == Open(d)
TakeRow(c, warm) ==
  LET d == tx[c].dev
      moved == IF expired[d] THEN "timeout_pending"
               ELSE IF c = "poller" /\ warm THEN "recovery_pending" ELSE None
      keep == [tx[c] EXCEPT !.held = @ \cup {d}]
  IN /\ tx[c].at = "row" /\ ~EventLocked(d)
     /\ \/ ~StillOpen(d) /\ Leave(c)
        \/ StillOpen(d) /\ moved = None
           /\ tx' = [tx EXCEPT ![c] = [keep EXCEPT !.at = "next", !.dev = None, !.todo = @ \ {d}]]
        \/ StillOpen(d) /\ moved # None
           /\ tx' = [tx EXCEPT ![c] = [keep EXCEPT !.at = "act",
                      !.draft = [x \in DOMAIN @ \cup {d} |-> IF x = d THEN moved ELSE @[x]]]]
     /\ UNCHANGED <<rows, world, skipped, fence, attempt, hand, faults>>

(* _reschedule_linked_off waits for a pending action that is locked. *)
Reschedule(c) ==
  LET d == tx[c].dev
  IN /\ tx[c].at = "act"
     /\ restore[d] = "pending" => ~ActionLocked(d)
     /\ tx' = [tx EXCEPT ![c].at = "next", ![c].dev = None, ![c].todo = @ \ {d},
                         ![c].acted = @ \cup {x \in {d} : restore[x] = "pending"}]
     /\ UNCHANGED <<rows, world, skipped, fence, attempt, hand, faults>>

Released(c) == [d \in Devices |-> IF fence[d] = c THEN None ELSE fence[d]]
Commit(c) ==
  /\ tx[c].at = "next" /\ tx[c].todo = {}
  /\ LET acted == tx[c].acted
     IN /\ shower' = [d \in Devices |-> IF d \in DOMAIN tx[c].draft THEN tx[c].draft[d] ELSE shower[d]]
        /\ due' = [d \in Devices |-> d \in acted \/ due[d]]
        /\ claim' = [d \in Devices |->
             IF d \in acted /\ claim[d] = "drained" THEN "unsettled" ELSE claim[d]]
  /\ tx' = [tx EXCEPT ![c] = NoTx]
  /\ fence' = Released(c)
  /\ UNCHANGED <<world, restore, skipped, attempt, hand, faults, closings>>

(* A transaction fails or its process dies: it leaves nothing. *)
Abort(c) ==
  /\ tx' = [tx EXCEPT ![c] = NoTx]
  /\ fence' = Released(c)
  /\ UNCHANGED <<rows, world, skipped, attempt, hand>>
Fail(c) ==
  /\ tx[c] # NoTx /\ faults < MaxFaults
  /\ faults' = faults + 1
  /\ Abort(c)

(* resolve_safety_revert locks the action, asks for a fresh reading with   *)
(* the boost off, and then closes the action and its event.               *)
Ask(d) ==
  /\ schema = "029" /\ hand = NoHand
  /\ ~ActionLocked(d) /\ Unresolved(d) /\ seen[d] = "off"
  /\ hand' = [at |-> "write", dev |-> d]
  /\ UNCHANGED <<rows, world, skipped, fence, attempt, tx, faults>>

Resolve ==
  LET d == hand.dev
  IN /\ hand.at = "write" /\ ~EventLocked(d)
     /\ restore' = [restore EXCEPT ![d] = "executed"]
     /\ shower' = [shower EXCEPT ![d] = "resolved"]
     /\ closings' = [closings EXCEPT ![d] = @ + 1]
     /\ hand' = NoHand
     /\ UNCHANGED <<world, due, claim, skipped, fence, attempt, tx, faults>>

(* The request holds the action and wants the event, a checker holds the   *)
(* event and wants the action: PostgreSQL fails one of the two. *)
Deadlocked(c) ==
  /\ hand.at = "write" /\ hand.dev \in tx[c].held
  /\ tx[c].at = "act" /\ tx[c].dev = hand.dev /\ restore[hand.dev] = "pending"
Victim(c) ==
  /\ Deadlocked(c)
  /\ UNCHANGED faults
  /\ \/ Abort(c)
     \/ hand' = NoHand /\ UNCHANGED <<rows, world, skipped, fence, attempt, tx>>

(* The attempt (RestoreOwnership has all of it).  It takes a due restore   *)
(* whose last owner left proof, under the device's lock; every write is    *)
(* refused unless the row is as the attempt wrote it last. *)
Claim(d) ==
  /\ schema = "029" /\ attempt = NoAttempt /\ fence[d] = None
  /\ restore[d] = "pending" /\ due[d] /\ claim[d] # "unsettled" /\ ~ActionLocked(d)
  /\ restore' = [restore EXCEPT ![d] = "executing"]
  /\ claim' = [claim EXCEPT ![d] = "unsettled"]
  /\ fence' = [fence EXCEPT ![d] = "executor"]
  /\ attempt' = [dev |-> d, known |-> "executing"]
  /\ UNCHANGED <<world, shower, due, skipped, tx, hand, faults, closings>>

Current == /\ attempt # NoAttempt
           /\ restore[attempt.dev] = attempt.known
           /\ ~ActionLocked(attempt.dev)
Unfenced == [fence EXCEPT ![attempt.dev] = None]
Dispatch ==
  /\ Current /\ attempt.known = "executing"
  /\ restore' = [restore EXCEPT ![attempt.dev] = "dispatched"]
  /\ attempt' = [attempt EXCEPT !.known = "dispatched"]
  /\ UNCHANGED <<world, shower, due, claim, skipped, fence, tx, hand, faults, closings>>

(* The boost is seen to be off: the action and its shower end together. *)
Verified ==
  LET d == attempt.dev
  IN /\ Current /\ ~EventLocked(d)
     /\ restore' = [restore EXCEPT ![d] = "executed"]
     /\ shower' = [shower EXCEPT ![d] = IF Open(d) THEN "recovered" ELSE @]
     /\ closings' = [closings EXCEPT ![d] = @ + 1]
     /\ attempt' = NoAttempt /\ fence' = Unfenced
     /\ UNCHANGED <<world, due, claim, skipped, tx, hand, faults>>

Requeue ==
  LET d == attempt.dev
  IN /\ Current
     /\ restore' = [restore EXCEPT ![d] = "pending"]
     /\ due' = [due EXCEPT ![d] = FALSE]
     /\ claim' = [claim EXCEPT ![d] = "drained"]
     /\ attempt' = NoAttempt /\ fence' = Unfenced
     /\ UNCHANGED <<world, shower, skipped, tx, hand, faults, closings>>

(* Its authority is gone, or the row is locked: the row stays as it is. *)
Lost ==
  /\ attempt # NoAttempt /\ ~Current
  /\ attempt' = NoAttempt /\ fence' = Unfenced
  /\ UNCHANGED <<rows, world, skipped, tx, hand, faults>>
Crash ==
  /\ attempt # NoAttempt /\ faults < MaxFaults
  /\ faults' = faults + 1
  /\ attempt' = NoAttempt /\ fence' = Unfenced
  /\ UNCHANGED <<rows, world, skipped, tx, hand>>

(* Time and the pump. *)
Expire(d) ==
  /\ Open(d) /\ ~expired[d]
  /\ expired' = [expired EXCEPT ![d] = TRUE]
  /\ due' = [due EXCEPT ![d] = @ \/ restore[d] = "pending"]
  /\ UNCHANGED <<schema, seen, showers, shower, restore, claim, skipped, fence, attempt, tx, hand,
                 faults, closings>>
RetryDue(d) ==
  /\ restore[d] = "pending" /\ ~due[d] /\ claim[d] = "drained"
  /\ due' = [due EXCEPT ![d] = TRUE]
  /\ UNCHANGED <<world, shower, restore, claim, skipped, fence, attempt, tx, hand, faults, closings>>
Reading(d, v) ==
  /\ seen[d] # v
  /\ seen' = [seen EXCEPT ![d] = v]
  /\ UNCHANGED <<schema, expired, showers, rows, skipped, fence, attempt, tx, hand, faults>>

Next ==
  \/ \E duration, locked \in BOOLEAN, named \in SUBSET Devices : Upgrade(duration, named, locked)
  \/ Downgrade
  \/ \E d \in Devices :
       \/ OldBuild(d) \/ Ask(d) \/ Claim(d) \/ Expire(d) \/ RetryDue(d)
       \/ \E drop \in BOOLEAN : PollerCheck(d, drop)
       \/ \E v \in {"on", "off", None} : Reading(d, v)
       \/ \E c \in Checkers : TakeDevice(c, d)
  \/ WatchdogCheck \/ Resolve
  \/ Dispatch \/ Verified \/ Requeue \/ Lost \/ Crash
  \/ \E c \in Checkers :
       \/ \E warm \in BOOLEAN : TakeRow(c, warm)
       \/ Reschedule(c) \/ Commit(c) \/ Fail(c) \/ Victim(c)

Spec == Init /\ [][Next]_showerVars

-----------------------------------------------------------------------------
(***************************************************************************)
(* Whoever comes first, a shower is open as long as its restore is owed    *)
(* and no longer: no checker reopens one that the attempt or an operator   *)
(* has closed (shower_mode.py reads the row again under its lock), none is *)
(* closed with its restore left, and none is left open without one, also   *)
(* across the migration and its way back.                                  *)
(***************************************************************************)
OpenShowersAreOwed ==
  schema = "029" => \A d \in Devices : Open(d) <=> Unresolved(d)

(***************************************************************************)
(* A restore is closed once: the operator and the attempt never both write *)
(* the audit row that ends it (resolve_safety_revert locks the row and     *)
(* asks for an unresolved status, _update_safety_action for the status the *)
(* attempt wrote last).                                                    *)
(***************************************************************************)
RestoresCloseOnce == \A d \in Devices : closings[d] <= 1

=============================================================================
