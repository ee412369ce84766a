-------------------------------- MODULE Alerts --------------------------------
(***************************************************************************)
(* What tells the owner that something is wrong: heartbeats of the         *)
(* services (core/service_health.py), the alerts computed from them and    *)
(* from stored state (core/operational_alerts.py), their delivery to a     *)
(* webhook, and the ping that an outside monitor misses when all is not    *)
(* well (core/external_heartbeat.py).  Time is counted in ticks of the     *)
(* delivery job; clocks are kept as ages.                                  *)
(***************************************************************************)
EXTENDS Naturals

CONSTANTS StaleAfter,   \* ticks after which a heartbeat is stale
          DeviceAfter,  \* ticks after which a device status is stale
          Persistent,   \* failures in a row that raise an alert
          Throttle,     \* ticks for which an identical payload is withheld
          Horizon,      \* bound: ticks
          MaxTurns,     \* bound: failures and other changes for the worse
          Never         \* nothing sent yet

VARIABLES ticks,
          beat,         \* age of each ServiceHeartbeatRecord
          watchdog,     \* consecutive_failures of the safety watchdog
          status,       \* age of the latest device status
          adapter,      \* panasonic_adapter: [failures, age]
          stuck,        \* a restore is due and unclaimed, or retried often
          gate,         \* consecutive_evaluation_failures of the heating gate
          turns,        \* those changes so far
          delivery,     \* the delivery job, once in a tick: [at, payload]
          stored,       \* _operational_alert_delivery_state: [payload, at]
          received,     \* history: what the webhook received, and when
          pinged        \* history: the last tick of the monitor sent a ping

world == <<beat, watchdog, status, adapter, stuck, gate, turns>>
outbox == <<delivery, stored, received>>
alertVars == <<ticks, beat, watchdog, status, adapter, stuck, gate, turns,
               delivery, stored, received, pinged>>

Services == {"poller", "optimizer"}
NoPayload == [alerts |-> {}, counts |-> <<0, 0, 0>>, stamp |-> 0]

Names == Services \cup {"watchdog", "adapter", "device", "revert", "gate"}
Message == [alerts : SUBSET Names, counts : Nat \X Nat \X Nat, stamp : Nat]
TypeOK ==
    /\ ticks \in Nat /\ beat \in [Services -> Nat] /\ watchdog \in Nat /\ status \in Nat
    /\ adapter \in [failures : Nat, age : Nat] /\ stuck \in BOOLEAN /\ gate \in Nat
    /\ turns \in Nat /\ pinged \in BOOLEAN
    /\ delivery \in [at : {"due", "sending", "storing", "withheld", "done"}, payload : Message]
    /\ stored \in [payload : Message, at : Nat] \cup {Never}
    /\ received \subseteq [payload : Message, at : Nat]

Init == /\ ticks = 1
        /\ beat = [s \in Services |-> 0]
        /\ watchdog = 0
        /\ status = 0
        /\ adapter = [failures |-> 0, age |-> 0]
        /\ stuck = FALSE
        /\ gate = 0
        /\ turns = 0
        /\ delivery = [at |-> "due", payload |-> NoPayload]
        /\ stored = Never
        /\ received = {}
        /\ pinged = FALSE

-----------------------------------------------------------------------------
\* project_panasonic_adapter_state, _panasonic_adapter_alert: old diagnostics
\* raise nothing.
AdapterFailing == adapter.age <= DeviceAfter /\ adapter.failures >= Persistent

ServiceAlerts ==
    {s \in Services : beat[s] > StaleAfter}
    \cup {a \in {"watchdog"} : watchdog >= Persistent}

\* A failing adaptor explains a stale status; otherwise the status is named.
DeviceAlerts ==
    {a \in {"adapter"} : AdapterFailing}
    \cup {a \in {"device"} : status > DeviceAfter /\ ~AdapterFailing}

StateAlerts ==
    {a \in {"revert"} : stuck} \cup {a \in {"gate"} : gate >= Persistent}

Raised == ServiceAlerts \cup DeviceAlerts \cup StateAlerts

\* operational_webhook_payload: the texts carry the counts, and the age of a
\* stuck restore, which is another one at every evaluation.
Payload ==
    [alerts |-> Raised,
     counts |-> <<IF "watchdog" \in Raised THEN watchdog ELSE 0,
                  IF "adapter" \in Raised THEN adapter.failures ELSE 0,
                  IF "gate" \in Raised THEN gate ELSE 0>>,
     stamp |-> IF "revert" \in Raised THEN ticks ELSE 0]

\* deliver_operational_alert_webhook until it sends: an identical payload is
\* withheld while the stored delivery is recent.
Evaluate ==
    /\ delivery.at = "due"
    /\ delivery' =
         [payload |-> Payload,
          at |-> IF Raised = {} THEN "done"
                 ELSE IF stored # Never /\ stored.payload = Payload
                         /\ ticks - stored.at < Throttle THEN "withheld"
                 ELSE "sending"]
    /\ UNCHANGED <<ticks, world, stored, received, pinged>>

\* The webhook answers, the request or its answer is lost, or it refuses.
Send ==
    /\ delivery.at = "sending"
    /\ \/ /\ received' = {r \in received : ticks - r.at < Throttle}
                         \cup {[payload |-> delivery.payload, at |-> ticks]}
          /\ \/ delivery' = [delivery EXCEPT !.at = "storing"]
             \/ delivery' = [delivery EXCEPT !.at = "done", !.payload = NoPayload]
       \/ /\ delivery' = [delivery EXCEPT !.at = "done", !.payload = NoPayload]
          /\ UNCHANGED received
    /\ UNCHANGED <<ticks, world, stored, pinged>>

\* set_setting, after the answer; the poller may die before it.
Store ==
    /\ delivery.at = "storing"
    /\ \/ stored' = [payload |-> delivery.payload, at |-> ticks]
       \/ UNCHANGED stored
    /\ delivery' = [delivery EXCEPT !.at = "done", !.payload = NoPayload]
    /\ UNCHANGED <<ticks, world, received, pinged>>

Withhold ==
    /\ delivery.at = "withheld"
    /\ delivery' = [delivery EXCEPT !.at = "done", !.payload = NoPayload]
    /\ UNCHANGED <<ticks, world, stored, received, pinged>>

-----------------------------------------------------------------------------
Worse == turns < MaxTurns /\ turns' = turns + 1

\* record_service_heartbeat.
Beat(s) ==
    /\ beat[s] > 0
    /\ beat' = [beat EXCEPT ![s] = 0]
    /\ UNCHANGED <<ticks, watchdog, status, adapter, stuck, gate, turns, outbox, pinged>>

\* poll_device_status: a status is stored, or the adaptor's failure counted;
\* either is a heartbeat of the poller as well.
Poll ==
    /\ \/ status' = 0 /\ adapter' = [failures |-> 0, age |-> 0] /\ UNCHANGED turns
       \/ /\ Worse
          /\ adapter' = [failures |-> adapter.failures + 1, age |-> 0]
          /\ UNCHANGED status
    /\ beat' = [beat EXCEPT !["poller"] = 0]
    /\ UNCHANGED <<ticks, watchdog, stuck, gate, outbox, pinged>>

\* record_safety_watchdog_result
WatchdogEnds ==
    /\ \/ Worse /\ watchdog' = watchdog + 1
       \/ watchdog' = 0 /\ UNCHANGED turns
    /\ UNCHANGED <<ticks, beat, status, adapter, stuck, gate, outbox, pinged>>

\* ingest_device_status counts the evaluations of the gate that failed; a restore
\* becomes due or is settled (RestoreProtocol).
StateTurns ==
    /\ \/ Worse /\ stuck' = TRUE /\ UNCHANGED gate
       \/ Worse /\ gate' = gate + 1 /\ UNCHANGED stuck
       \/ stuck' = FALSE /\ UNCHANGED <<gate, turns>>
       \/ gate' = 0 /\ UNCHANGED <<stuck, turns>>
    /\ UNCHANGED <<ticks, beat, watchdog, status, adapter, outbox, pinged>>

ReportingAlone == \A s \in Services : beat[s] <= StaleAfter

\* evaluate_reporting_conditions, with Redis and the API answering.
Reporting == (\A s \in Services : beat[s] <= StaleAfter) /\ status <= DeviceAfter

\* ExternalHeartbeatRunner.tick: within fifteen seconds or not at all.
Ping ==
    /\ pinged' \in {FALSE, Reporting}
    /\ pinged' # pinged
    /\ UNCHANGED <<ticks, world, outbox>>

Older(age, limit) == IF age > limit THEN age ELSE age + 1

Tick ==
    /\ ticks < Horizon
    /\ delivery.at \in {"due", "done"}
    /\ ticks' = ticks + 1
    /\ beat' = [s \in Services |-> Older(beat[s], StaleAfter)]
    /\ status' = Older(status, DeviceAfter)
    /\ adapter' = [adapter EXCEPT !.age = Older(@, DeviceAfter)]
    /\ pinged' = FALSE
    /\ delivery' = [at |-> "due", payload |-> NoPayload]
    /\ UNCHANGED <<watchdog, stuck, gate, turns, stored, received>>

Next == \/ Evaluate \/ Send \/ Store \/ Withhold \/ Poll \/ WatchdogEnds \/ StateTurns
        \/ Ping \/ Tick \/ \E s \in Services : Beat(s)

Spec == Init /\ [][Next]_alertVars

(***************************************************************************)
(* An alert is withheld only if the webhook has received this very payload *)
(* within the throttle, whatever deliveries failed, were lost or went      *)
(* unrecorded before (deliver_operational_alert_webhook).                  *)
(***************************************************************************)
WithheldWasReceived ==
    delivery.at = "withheld" =>
        \E r \in received : r.payload = delivery.payload /\ ticks - r.at <= Throttle

(***************************************************************************)
(* The monitor is told that all is well only when the service and the      *)
(* device are not named by an alert for being silent: the two computations *)
(* agree (evaluate_reporting_conditions, get_operational_alerts).          *)
(***************************************************************************)
PingOnlyInService ==
    pinged' /\ ~pinged => Raised \cap (Services \cup {"device"}) = {}
=============================================================================
