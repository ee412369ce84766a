--------------------------- MODULE SettingsStore ----------------------------
(***************************************************************************)
(* Settings that must agree with each other: set_settings_bulk             *)
(* (core/settings_service.py) as the API's PUT reaches it, and the         *)
(* transition of the seasonal observation campaign                         *)
(* (ml/seasonal_learning.py).  Bulk writers take the contract lock and     *)
(* then the heat-gate lock; the seasonal transition takes the heat-gate    *)
(* lock, a share lock on plan_actions, and the contract lock only inside   *)
(* its own bulk write, every wait of it bounded by a lock timeout.         *)
(***************************************************************************)
EXTENDS Naturals, Sequences

CONSTANTS Writers,    \* requests that change settings
          Offsets,    \* values of the two gate offsets
          Providers,  \* weather providers
          MaxWrites,  \* bound: bulk writes that commit
          Free        \* a lock nobody holds

VARIABLES stored,     \* the settings
          generation, \* dependency generations of the installation
          weather,    \* history: the provider at each generation
          owed,       \* an unresolved linked restore exists
          acting,     \* a transaction of the executor has written plan_actions
          lock,       \* who holds "contract" and "gate"
          shared,     \* the share lock on plan_actions is held
          writer,     \* what each request is doing
          cycle,      \* what the seasonal transition is doing
          writes

settingsVars == <<stored, generation, weather, owed, acting, lock, shared, writer, cycle, writes>>
dataVars == <<stored, generation, weather, writes>>
actionVars == <<owed, acting>>

Updates == [{"on"} -> Offsets] \cup [{"off"} -> Offsets]
           \cup [{"enabled"} -> BOOLEAN] \cup [{"provider"} -> Providers]

\* The settings after an update of some of them.
Over(u, values) == [k \in DOMAIN values |-> IF k \in DOMAIN u THEN u[k] ELSE values[k]]

Resting == [at |-> "idle", updates |-> <<>>, seen |-> <<>>]

Stored == [on : Nat, off : Nat, enabled : BOOLEAN, provider : Providers,
           since : BOOLEAN, deferred : BOOLEAN]
Holding == [at : {"idle", "contract", "gate", "locked", "read"},
            updates : Updates \cup {<<>>}, seen : Stored \cup {<<>>}]
Changes == {<<>>, [deferred |-> TRUE], [deferred |-> FALSE],
            [since |-> TRUE, deferred |-> FALSE]}
Cycling == [at : {"idle", "gate", "share", "deciding", "contract"},
            season : BOOLEAN, updates : Changes]
TypeOK ==
    /\ stored \in Stored /\ generation \in Nat /\ weather \in Seq(Providers)
    /\ owed \in BOOLEAN /\ acting \in BOOLEAN /\ shared \in BOOLEAN /\ writes \in Nat
    /\ lock \in [{"contract", "gate"} -> Writers \cup {"seasonal", Free}]
    /\ writer \in [Writers -> Holding] /\ cycle \in Cycling

Init == /\ \E p \in {CHOOSE p \in Providers : TRUE}, opted \in BOOLEAN :
              /\ stored = [on |-> 1, off |-> 3, enabled |-> opted, provider |-> p,
                           since |-> FALSE, deferred |-> FALSE]
              /\ weather = <<p>>
        /\ generation = 0
        /\ owed \in BOOLEAN
        /\ acting = FALSE
        /\ lock = [l \in {"contract", "gate"} |-> Free]
        /\ shared = FALSE
        /\ writer = [w \in Writers |-> Resting]
        /\ cycle = [at |-> "idle", season |-> FALSE, updates |-> <<>>]
        /\ writes = 0

Coherent(values) == values.on < values.off

\* PUT /api/settings validates the combination it reads before any lock.
Request(w) ==
    /\ writer[w].at = "idle"
    /\ \E u \in Updates :
          /\ Coherent(Over(u, stored))
          /\ writer' = [writer EXCEPT ![w] = [Resting EXCEPT !.at = "contract", !.updates = u]]
    /\ UNCHANGED <<dataVars, actionVars, lock, shared, cycle>>

\* _lock_contract: the contract, then the gate.
LockContract(w) ==
    /\ writer[w].at = "contract"
    /\ lock["contract"] = Free
    /\ lock' = [lock EXCEPT !["contract"] = w]
    /\ writer' = [writer EXCEPT ![w].at = "gate"]
    /\ UNCHANGED <<dataVars, actionVars, shared, cycle>>

LockGate(w) ==
    /\ writer[w].at = "gate"
    /\ lock["gate"] = Free
    /\ lock' = [lock EXCEPT !["gate"] = w]
    /\ writer' = [writer EXCEPT ![w].at = "locked"]
    /\ UNCHANGED <<dataVars, actionVars, shared, cycle>>

\* The values are read under both locks, and the combination validated again.
ReadValues(w) ==
    /\ writer[w].at = "locked"
    /\ writer' = [writer EXCEPT ![w].at = "read", ![w].seen = stored]
    /\ UNCHANGED <<dataVars, actionVars, lock, shared, cycle>>

Released(a) == [l \in DOMAIN lock |-> IF lock[l] = a THEN Free ELSE lock[l]]

\* Disabling the campaign ends it in the same write.
Completed(u) == IF "enabled" \in DOMAIN u /\ ~u["enabled"]
                THEN [enabled |-> FALSE, since |-> FALSE, deferred |-> FALSE]
                ELSE u

\* Only the updated keys are written; a changed provider is a new generation.
Write(w) ==
    /\ writer[w].at = "read"
    /\ LET u == Completed(writer[w].updates)
           values == Over(u, writer[w].seen)
           changed == values.provider # writer[w].seen.provider
       IN IF Coherent(values)
          THEN /\ writes < MaxWrites
               /\ writes' = writes + 1
               /\ stored' = Over(u, stored)
               /\ generation' = IF changed THEN generation + 1 ELSE generation
               /\ weather' = IF changed THEN Append(weather, values.provider) ELSE weather
          ELSE UNCHANGED dataVars
    /\ lock' = Released(w)
    /\ writer' = [writer EXCEPT ![w] = Resting]
    /\ UNCHANGED <<actionVars, shared, cycle>>

Abandon(w) ==
    /\ writer[w].at # "idle"
    /\ lock' = Released(w)
    /\ writer' = [writer EXCEPT ![w] = Resting]
    /\ UNCHANGED <<dataVars, actionVars, shared, cycle>>

\* _transition_seasonal_campaign: the temperature evidence, then the gate lock.
Cycle ==
    /\ cycle.at = "idle"
    /\ \E season \in BOOLEAN : cycle' = [cycle EXCEPT !.at = "gate", !.season = season]
    /\ UNCHANGED <<dataVars, actionVars, lock, shared, writer>>

CycleLocks ==
    /\ cycle.at = "gate"
    /\ lock["gate"] = Free
    /\ lock' = [lock EXCEPT !["gate"] = "seasonal"]
    /\ cycle' = [cycle EXCEPT !.at = "share"]
    /\ UNCHANGED <<dataVars, actionVars, shared, writer>>

CycleSharesNothing ==
    /\ cycle.at = "share"
    /\ cycle' = [cycle EXCEPT !.at = "deciding"]
    /\ UNCHANGED <<dataVars, actionVars, lock, shared, writer>>

\* A share lock waits for the writers of plan_actions to commit.
CycleShares ==
    /\ cycle.at = "share"
    /\ ~acting
    /\ shared' = TRUE
    /\ cycle' = [cycle EXCEPT !.at = "deciding"]
    /\ UNCHANGED <<dataVars, actionVars, lock, writer>>

Decision(values) ==
    IF values.enabled /\ cycle.season /\ ~values.since
    THEN IF owed
         THEN IF values.deferred THEN <<>> ELSE [deferred |-> TRUE]
         ELSE [since |-> TRUE, deferred |-> FALSE]
    ELSE IF values.deferred THEN [deferred |-> FALSE] ELSE <<>>

\* The settings and the obligations under the locks: what to change, if anything.
CycleDecides ==
    /\ cycle.at = "deciding"
    /\ LET u == Decision(stored)
       IN IF u = <<>>
          THEN /\ cycle' = [cycle EXCEPT !.at = "idle", !.updates = u]
               /\ lock' = Released("seasonal")
               /\ shared' = FALSE
          ELSE /\ cycle' = [cycle EXCEPT !.at = "contract", !.updates = u]
               /\ UNCHANGED <<lock, shared>>
    /\ UNCHANGED <<dataVars, actionVars, writer>>

\* Its bulk write: the contract lock, the values again, the campaign of a
\* disabled setting dropped.  The gate lock is its own already.
CycleWrites ==
    /\ cycle.at = "contract"
    /\ lock["contract"] = Free
    /\ writes < MaxWrites
    /\ writes' = writes + 1
    /\ stored' = Over(IF /\ "since" \in DOMAIN cycle.updates /\ cycle.updates["since"]
                         /\ ~stored.enabled
                      THEN [deferred |-> FALSE] ELSE cycle.updates, stored)
    /\ lock' = Released("seasonal")
    /\ shared' = FALSE
    /\ cycle' = [cycle EXCEPT !.at = "idle", !.updates = <<>>]
    /\ UNCHANGED <<generation, weather, actionVars, writer>>

\* The lock timeout, or any failure: the transition is rolled back.
CycleFails ==
    /\ cycle.at # "idle"
    /\ lock' = Released("seasonal")
    /\ shared' = FALSE
    /\ cycle' = [cycle EXCEPT !.at = "idle", !.updates = <<>>]
    /\ UNCHANGED <<dataVars, actionVars, writer>>

\* A transaction of the executor that writes plan_actions (_claim_safety_candidate),
\* and its commit, which leaves a restore owed or not (_update_safety_action).
Act ==
    /\ ~acting /\ ~shared
    /\ acting' = TRUE
    /\ UNCHANGED <<dataVars, owed, lock, shared, writer, cycle>>

Acted ==
    /\ acting
    /\ acting' = FALSE
    /\ owed' \in BOOLEAN
    /\ UNCHANGED <<dataVars, lock, shared, writer, cycle>>

Next == \/ \E w \in Writers : \/ Request(w) \/ LockContract(w) \/ LockGate(w)
                              \/ ReadValues(w) \/ Write(w) \/ Abandon(w)
        \/ Cycle \/ CycleLocks \/ CycleShares \/ CycleDecides \/ CycleWrites \/ CycleFails
        \/ Act \/ Acted

Spec == Init /\ [][Next]_settingsVars

-----------------------------------------------------------------------------
(***************************************************************************)
(* Settings written one at a time by concurrent requests stay a valid      *)
(* combination: the gate's thresholds in order, a campaign only while it   *)
(* is opted in and no longer deferred, and one dependency generation for   *)
(* every change of the weather provider, so that going back to an earlier  *)
(* provider is not taken for no change.                                    *)
(***************************************************************************)
SettingsCohere ==
    /\ Coherent(stored)
    /\ stored.since => stored.enabled /\ ~stored.deferred
    /\ stored.deferred => stored.enabled
    /\ generation + 1 = Len(weather)
    /\ weather[Len(weather)] = stored.provider

(***************************************************************************)
(* A campaign, which silences the executor, starts only when no linked     *)
(* restore is owed at that moment.                                         *)
(***************************************************************************)
StartsWithoutDebt == ~stored.since /\ stored'.since => ~owed

CampaignsAreSafe == []SettingsCohere /\ [][StartsWithoutDebt]_settingsVars
=============================================================================
