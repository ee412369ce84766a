----------------------------- MODULE LoginBreaker -----------------------------
(***************************************************************************)
(* Logins of the service wrapper (core/services/aquarea.py,                *)
(* core/resilience.py).  Each process has a breaker in memory, which a     *)
(* restart forgets; Redis keeps one for all of them, with keys that        *)
(* expire.  Checking a breaker, logging in and counting the failure are    *)
(* separate awaits, so processes overlap.                                  *)
(***************************************************************************)
EXTENDS Naturals, FiniteSets

CONSTANTS Processes,
          Threshold,    \* failure_threshold
          MaxRestarts,  \* bound: process restarts
          MaxOutages    \* bound: Redis outages

VARIABLES login,        \* rest, checked, sent, failing, succeeding: each process's login
          memory,       \* CircuitBreaker: [failures, open] of each process
          shared,       \* RedisCircuitBreaker: [failures, open]
          redisUp,
          outages,
          restarts,
          failed,       \* history: failed logins since the shared keys expired
          uncounted     \* history: those whose process died before Redis knew

breakerVars == <<login, memory, shared, redisUp, outages, restarts, failed, uncounted>>

Breaker == [failures : Nat, open : BOOLEAN]

Closed == [failures |-> 0, open |-> FALSE]

\* More than every process can fail in one period; the history stops there.
MaxFailed == Threshold * Cardinality(Processes) + MaxRestarts + 1

TypeOK == /\ login \in [Processes -> {"rest", "checked", "sent", "failing", "succeeding"}]
          /\ memory \in [Processes -> Breaker]
          /\ shared \in Breaker
          /\ redisUp \in BOOLEAN
          /\ outages \in 0 .. MaxOutages
          /\ restarts \in 0 .. MaxRestarts
          /\ failed \in Nat
          /\ uncounted \in Nat

Init == /\ login = [p \in Processes |-> "rest"]
        /\ memory = [p \in Processes |-> Closed]
        /\ shared = Closed
        /\ redisUp = TRUE
        /\ outages = 0
        /\ restarts = 0
        /\ failed = 0
        /\ uncounted = 0

\* record_failure of either breaker.
Counted(b) == [failures |-> b.failures + 1, open |-> b.open \/ b.failures + 1 >= Threshold]

\* CircuitBreaker.is_open: the cool-down of a process ends when it is asked.
MayTry(p) ==
    /\ login[p] = "rest"
    /\ memory' = [memory EXCEPT ![p] = IF @.open THEN Closed ELSE @]
    /\ login' = [login EXCEPT ![p] = "checked"]
    /\ UNCHANGED <<shared, redisUp, outages, restarts, failed, uncounted>>

AskMemoryOnly(p) ==
    /\ login[p] = "checked"
    /\ login' = [login EXCEPT ![p] = "sent"]
    /\ UNCHANGED <<memory, shared, redisUp, outages, restarts, failed, uncounted>>

\* RedisCircuitBreaker.is_open: an unavailable Redis does not refuse.
AskRedis(p) ==
    /\ login[p] = "checked"
    /\ login' = [login EXCEPT ![p] = IF redisUp /\ shared.open THEN "rest" ELSE "sent"]
    /\ UNCHANGED <<memory, shared, redisUp, outages, restarts, failed, uncounted>>

\* Client.login fails: the process counts it, then Redis does.
LoginFails(p) ==
    /\ login[p] = "sent"
    /\ failed < MaxFailed
    /\ failed' = failed + 1
    /\ memory' = [memory EXCEPT ![p] = Counted(@)]
    /\ login' = [login EXCEPT ![p] = "failing"]
    /\ UNCHANGED <<shared, redisUp, outages, restarts, uncounted>>

CountFailure(p) ==
    /\ login[p] = "failing"
    /\ shared' = IF redisUp THEN Counted(shared) ELSE shared
    /\ login' = [login EXCEPT ![p] = "rest"]
    /\ UNCHANGED <<memory, redisUp, outages, restarts, failed, uncounted>>

\* Client.login succeeds: both breakers are reset.
LoginSucceeds(p) ==
    /\ login[p] = "sent"
    /\ memory' = [memory EXCEPT ![p] = Closed]
    /\ login' = [login EXCEPT ![p] = "succeeding"]
    /\ UNCHANGED <<shared, redisUp, outages, restarts, failed, uncounted>>

ResetShared(p) ==
    /\ login[p] = "succeeding"
    /\ IF redisUp THEN shared' = Closed /\ failed' = 0 /\ uncounted' = 0
       ELSE UNCHANGED <<shared, failed, uncounted>>
    /\ login' = [login EXCEPT ![p] = "rest"]
    /\ UNCHANGED <<memory, redisUp, outages, restarts>>

\* The keys expire together, a recovery time after the last failure.
Expire ==
    /\ shared # Closed
    /\ \A p \in Processes : login[p] \notin {"sent", "failing"}
    /\ shared' = Closed
    /\ failed' = 0
    /\ uncounted' = 0
    /\ UNCHANGED <<login, memory, redisUp, outages, restarts>>

Restart(p) ==
    /\ restarts < MaxRestarts
    /\ uncounted' = uncounted + (IF login[p] = "failing" THEN 1 ELSE 0)
    /\ restarts' = restarts + 1
    /\ memory' = [memory EXCEPT ![p] = Closed]
    /\ login' = [login EXCEPT ![p] = "rest"]
    /\ UNCHANGED <<shared, redisUp, outages, failed>>

Outage ==
    /\ \/ redisUp /\ outages < MaxOutages /\ redisUp' = FALSE /\ outages' = outages + 1
       \/ ~redisUp /\ redisUp' = TRUE /\ UNCHANGED outages
    /\ UNCHANGED <<login, memory, shared, restarts, failed, uncounted>>

Next == \/ \E p \in Processes : \/ MayTry(p) \/ AskRedis(p) \/ LoginFails(p)
                                \/ CountFailure(p) \/ LoginSucceeds(p) \/ ResetShared(p)
                                \/ Restart(p)
        \/ Expire \/ Outage

Spec == Init /\ [][Next]_breakerVars

(***************************************************************************)
(* Between two expiries of the shared breaker the account sees at most the *)
(* threshold of failed logins, and one more for each other process that    *)
(* had asked before the breaker opened.  Restarting a process does not buy *)
(* attempts (resilience.py:92, "across process restarts"), unless it dies  *)
(* between a failure and its count.  Without Redis each process answers    *)
(* for itself.                                                             *)
(***************************************************************************)
LoginsAreBounded ==
    outages = 0 => failed <= Threshold + Cardinality(Processes) - 1 + uncounted
=============================================================================
