----------------------------- MODULE DeviceAccess -----------------------------
(***************************************************************************)
(* Reads and restores of one service process through AquareaWrapper        *)
(* (core/services/aquarea.py, core/resilience.py).  A cloud read is paid   *)
(* for before it is made: with a token of the account's bucket in Redis,   *)
(* which other processes share, or of the process's own limiter when Redis *)
(* fails.  Between paying and reading there are waits, a lock, and a login *)
(* that takes the account from Settings as it finds it.                    *)
(***************************************************************************)
EXTENDS Naturals

CONSTANTS Tasks,
          Accounts,     \* Panasonic accounts named in Settings
          Local,        \* the process's own limiter, as the payer of a read
          NoAccount     \* not logged in yet

VARIABLES setting,      \* the account in Settings
          account,      \* _account_key
          authenticated,
          redisUp,
          device,       \* none, or the mode of its last status: live, cached
          age,          \* _last_live_status_at: none, fresh, stale
          backoff,      \* an adaptor retry delay is running
          task          \* [at, kind, purse, leg]

accessVars == <<setting, account, authenticated, redisUp, device, age,
                backoff, task>>

Kinds == {"status", "identity", "timer", "usage", "manual", "restore"}
Free == [at |-> "rest", kind |-> "status", purse |-> {}, leg |-> 1]
Paid(by, for) == [by |-> by, for |-> for]

TaskType == [at : {"rest", "pay", "owe", "both", "lock", "load", "fetch", "read", "extra", "done",
                   "send", "decide", "capacity"},
             kind : Kinds,
             purse : SUBSET [by : Accounts \cup {Local}, for : {"status", "extra"}],
             leg : 1..2]

TypeOK == /\ setting \in Accounts
          /\ account \in Accounts \cup {NoAccount}
          /\ authenticated \in BOOLEAN
          /\ redisUp \in BOOLEAN
          /\ device \in {"none", "live", "cached"}
          /\ age \in {"none", "fresh", "stale"}
          /\ backoff \in BOOLEAN
          /\ task \in [Tasks -> TaskType]

Init == /\ setting \in Accounts
        /\ account = NoAccount
        /\ authenticated = FALSE
        /\ redisUp = TRUE
        /\ device = "none"
        /\ age = "none"
        /\ backoff = FALSE
        /\ task = [t \in Tasks |-> Free]

Goes(t, at) == task' = [task EXCEPT ![t].at = at]
Spends(t, for, at) ==
    task' = [task EXCEPT ![t].at = at, ![t].purse = {p \in @ : p.for # for}]
Ends(t) == task' = [task EXCEPT ![t] = Free]

\* Where a task goes once it has the device and has read what it came for.
OnDevice(k) == CASE k \in {"status", "identity"} -> "done"
                 [] k = "timer" -> "owe"
                 [] k \in {"usage", "manual"} -> "extra"
                 [] k = "restore" -> "decide"

\* refresh_device refuses during a backoff; the others start by paying, or
\* use the device they find.
Start(t, k) ==
    /\ task[t].at = "rest"
    /\ task' = [task EXCEPT ![t] = [Free EXCEPT !.kind = k, !.at =
          CASE k = "status" -> IF backoff THEN "rest" ELSE "pay"
            [] k = "usage" -> "owe"
            [] k = "manual" -> "both"
            [] OTHER -> IF device = "none" THEN "pay" ELSE OnDevice(k)]]
    /\ UNCHANGED <<setting, account, authenticated, redisUp, device, age, backoff>>

\* _resolve_account_key.
Payer == IF account # NoAccount THEN account ELSE setting

(***************************************************************************)
(* _reserve_background_read: one token of the account's bucket or, when    *)
(* Redis is not there, of the local limiter.  An exhausted bucket is       *)
(* waited for; how full it is depends on other processes too (ReadQuota).  *)
(***************************************************************************)
Reserve(t) ==
    LET for == IF task[t].at = "pay" THEN "status" ELSE "extra"
        next == IF task[t].at = "pay" THEN "lock"
                ELSE IF task[t].kind = "timer" \/ device # "none" THEN "extra" ELSE "pay" IN
    /\ task[t].at \in {"pay", "owe"}
    /\ task' = [task EXCEPT
          ![t].at = next,
          ![t].purse = @ \cup {Paid(IF redisUp THEN Payer ELSE Local, for)}]
    /\ UNCHANGED <<setting, account, authenticated, redisUp, device, age, backoff>>

\* refresh_status_and_consumption: two tokens at once and a rest left over,
\* or none; it does not wait.
ReserveBoth(t) ==
    /\ task[t].at = "both"
    /\ \/ /\ redisUp
          /\ task' = [task EXCEPT ![t].at = "lock",
                       ![t].purse = {Paid(Payer, f) : f \in {"status", "extra"}}]
       \/ Ends(t)
    /\ UNCHANGED <<setting, account, authenticated, redisUp, device, age, backoff>>

\* _assert_reservation_account
Admitted(t, acct) ==
    acct # NoAccount => \A p \in task[t].purse : p.by \in {acct, Local}

Holding(t) == task[t].at \in {"load", "fetch"}

\* The device lock.  A status read leaves it before it reads; whoever finds
\* no device keeps it and loads one; get_device may find it loaded meanwhile.
Lock(t) ==
    /\ task[t].at = "lock"
    /\ \A u \in Tasks : ~Holding(u)
    /\ IF ~Admitted(t, account) THEN Ends(t)
       ELSE Goes(t, IF device = "none" THEN "load"
                    ELSE IF \/ task[t].kind \in {"status", "manual"} \/ task[t].leg = 2
                            \/ task[t].kind = "restore" /\ age # "fresh"
                         THEN "read" ELSE OnDevice(task[t].kind))
    /\ UNCHANGED <<setting, account, authenticated, redisUp, device, age, backoff>>

\* _ensure_authenticated, and the account checked again after it.  The
\* wrapper adopts the account of Settings even when the login then fails.
Authenticate(t) ==
    /\ task[t].at = "load"
    /\ account' = IF authenticated THEN account ELSE setting
    /\ \/ /\ authenticated' = TRUE
          /\ IF Admitted(t, account') THEN Goes(t, "fetch") ELSE Ends(t)
       \/ /\ ~authenticated
          /\ UNCHANGED authenticated
          /\ Ends(t)
    /\ UNCHANGED <<setting, redisUp, device, age, backoff>>

\* _record_live_status, _register_adapter_failure
Recorded(live) == /\ age' = IF live THEN "fresh" ELSE "none"
                  /\ backoff' = ~live

\* _initialize_device_locked: a device whose first status is cached stays,
\* and the caller fails; an unreachable cloud leaves none.
Fetch(t) ==
    /\ task[t].at = "fetch"
    /\ \/ device' = "live" /\ Recorded(TRUE) /\ Spends(t, "status", OnDevice(task[t].kind))
       \/ device' = "cached" /\ Recorded(FALSE) /\ Ends(t)
       \/ Ends(t) /\ UNCHANGED <<device, age, backoff>>
    /\ UNCHANGED <<setting, account, authenticated, redisUp>>

\* refresh_data(allow_cached_fallback=False), outside the lock.
Read(t) ==
    /\ task[t].at = "read"
    /\ \/ device' = "live" /\ Recorded(TRUE) /\ Spends(t, "status", OnDevice(task[t].kind))
       \/ Recorded(FALSE) /\ Ends(t) /\ UNCHANGED device
       \/ Ends(t) /\ UNCHANGED <<device, age, backoff>>
    /\ UNCHANGED <<setting, account, authenticated, redisUp>>

\* The weekly timer, or the consumption of the day.
ReadExtra(t) ==
    /\ task[t].at = "extra"
    /\ Ends(t)
    /\ UNCHANGED <<setting, account, authenticated, redisUp, device, age, backoff>>

Finish(t) ==
    /\ task[t].at \in {"done", "send"}
    /\ Ends(t)
    /\ UNCHANGED <<setting, account, authenticated, redisUp, device, age, backoff>>

(***************************************************************************)
(* _get_writable_device, before and after write capacity is taken: a       *)
(* cached device is refused, a status older than a minute is read again    *)
(* unless a backoff runs, and then the value is compared: the command may  *)
(* have become needless.  A restore does not wait for capacity.            *)
(***************************************************************************)
Decide(t) ==
    /\ task[t].at = "decide"
    /\ \/ /\ device = "cached"
          /\ age' = "none"
          /\ Ends(t)
       \/ /\ device # "cached"
          /\ age = "fresh"
          /\ \/ task' = [task EXCEPT ![t].at = IF @ = "decide" /\ task[t].leg = 1
                                               THEN "capacity" ELSE "send"]
             \/ Ends(t)
          /\ UNCHANGED age
       \/ /\ device # "cached"
          /\ age # "fresh"
          /\ IF backoff THEN Ends(t) ELSE Goes(t, "pay")
          /\ UNCHANGED age
    /\ UNCHANGED <<setting, account, authenticated, redisUp, device, backoff>>

Capacitate(t) ==
    /\ task[t].at = "capacity"
    /\ \/ task' = [task EXCEPT ![t].at = "decide", ![t].leg = 2]
       \/ Ends(t)
    /\ UNCHANGED <<setting, account, authenticated, redisUp, device, age, backoff>>

\* Settings, the Redis and the clocks have lives of their own.
SaveAccount == \E a \in Accounts : setting' = a /\ UNCHANGED <<redisUp, age, backoff>>

RedisTurns == redisUp' = ~redisUp /\ UNCHANGED <<setting, age, backoff>>

Tick == \/ age = "fresh" /\ age' = "stale" /\ UNCHANGED <<setting, redisUp, backoff>>
        \/ backoff /\ backoff' = FALSE /\ UNCHANGED <<setting, redisUp, age>>

Outside == /\ SaveAccount \/ RedisTurns \/ Tick
           /\ UNCHANGED <<account, authenticated, device, task>>

Step(t) == \/ \E k \in Kinds : Start(t, k)
           \/ Reserve(t) \/ ReserveBoth(t) \/ Lock(t) \/ Authenticate(t) \/ Fetch(t)
           \/ Read(t) \/ ReadExtra(t) \/ Finish(t) \/ Decide(t) \/ Capacitate(t)

Next == (\E t \in Tasks : Step(t)) \/ Outside

Spec == Init /\ [][Next]_accessVars

(***************************************************************************)
(* Every read of the Panasonic cloud is paid for with an unspent token of  *)
(* the account it reads, or of the local limiter, however the account,     *)
(* the device and Redis changed while the reader waited; and the device is *)
(* loaded by one task at a time, never over another's                      *)
(* (aquarea.py:507, "Panasonic account changed after quota admission").    *)
(***************************************************************************)
ReadsArePaid ==
    \A t \in Tasks :
        /\ task[t].at \in {"fetch", "read"} =>
              Paid(account, "status") \in task[t].purse \/ Paid(Local, "status") \in task[t].purse
        /\ task[t].at = "extra" =>
              Paid(account, "extra") \in task[t].purse \/ Paid(Local, "extra") \in task[t].purse
        /\ task[t].at = "fetch" => device = "none" /\ \A u \in Tasks \ {t} : ~Holding(u)
=============================================================================
