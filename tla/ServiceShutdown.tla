---------------------------- MODULE ServiceShutdown ----------------------------
(***************************************************************************)
(* How a service process starts and ends: the scheduler's jobs             *)
(* (core/scheduling.py), the threads they wait for, and the teardown of    *)
(* what they use (core/runtime_ownership.py, the main functions of the     *)
(* poller, the optimizer and the ML service, and the API's lifespan).  The *)
(* worker services run jobs; the API has none, and lives without a         *)
(* Panasonic client that failed to start.  A job is cancelled between two  *)
(* of its steps.                                                           *)
(***************************************************************************)
EXTENDS Naturals, FiniteSets

CONSTANTS Jobs,       \* scheduled jobs, each at most once at a time
          Fit,        \* the one that fits models on the maintenance's own thread
          MaxSignals, \* bound: signals and cancellations of the main task
          MaxRuns     \* bound: starts of each job

VARIABLES kind,    \* "worker" or "api"
          main,    \* the main task
          cleanup, \* the teardown, a task of its own
          job,     \* each job of the scheduler
          thread,  \* jobs whose thread runs
          closing, \* OwnedScheduler.closing
          pending, \* jobs the scheduler's close waits for
          wrapper, \* the Panasonic client
          engine,  \* the database engine is alive
          logs,    \* the log sink
          writing, \* a batch of logs is being stored
          runs,    \* starts of each job
          signals  \* signals and cancellations

tasks == <<job, thread, runs>>
resources == <<wrapper, engine, logs, writing>>
shutdownVars == <<kind, main, cleanup, tasks, closing, pending, resources, signals>>

TypeOK == /\ kind \in {"worker", "api"}
          /\ main \in {"starting", "serving", "undoing", "ending", "waiting", "exited"}
          /\ cleanup \in {"none", "scheduler", "jobs", "maintenance", "logs", "wrapper", "engine",
                          "over", "failed"}
          /\ job \in [Jobs -> {"idle", "submitted", "running", "threaded", "retained", "undoing"}]
          /\ thread \in SUBSET Jobs
          /\ closing \in BOOLEAN
          /\ pending \in SUBSET Jobs
          /\ wrapper \in {"none", "starting", "up", "failed", "cancelled", "kept", "stopped", "broken"}
          /\ engine \in BOOLEAN
          /\ logs \in {"open", "draining", "settled", "unsettled"}
          /\ writing \in BOOLEAN
          /\ runs \in [Jobs -> 0 .. MaxRuns]
          /\ signals \in 0 .. MaxSignals

Init == /\ kind \in {"worker", "api"}
        /\ main = "starting"
        /\ cleanup = "none"
        /\ job = [j \in Jobs |-> "idle"]
        /\ thread = {}
        /\ closing = FALSE
        /\ pending = {}
        /\ wrapper \in IF kind = "api" THEN {"none", "starting"} ELSE {"starting"}
        /\ engine = TRUE
        /\ logs = "open"
        /\ writing = FALSE
        /\ runs = [j \in Jobs |-> 0]
        /\ signals = 0

-----------------------------------------------------------------------------
(* Starting.                                                               *)

Serve ==
    /\ main = "starting" /\ wrapper \in {"none", "starting"}
    /\ main' = "serving"
    /\ wrapper' = IF wrapper = "starting" THEN "up" ELSE wrapper
    /\ UNCHANGED <<kind, cleanup, tasks, closing, pending, engine, logs, writing, signals>>

\* The client gives back what it has opened before its failure is passed on.
StartFails ==
    /\ main = "starting" /\ wrapper = "starting"
    /\ main' = "undoing"
    /\ wrapper' = "failed"
    /\ UNCHANGED <<kind, cleanup, tasks, closing, pending, engine, logs, writing, signals>>

\* The API lets go of a client that failed, and goes on unless it was cancelled;
\* a worker, or one cancelled while it started, leaves it to the teardown.
StopFailed ==
    /\ main = "undoing"
    /\ IF kind = "api" /\ wrapper = "failed"
       THEN \/ wrapper' = "stopped" /\ main' \in {"serving", "ending"}
            \/ wrapper' = "broken" /\ main' = "ending"
       ELSE wrapper' = "kept" /\ main' = "ending"
    /\ UNCHANGED <<kind, cleanup, tasks, closing, pending, engine, logs, writing, signals>>

-----------------------------------------------------------------------------
(* The jobs.                                                               *)

Scheduling == kind = "worker" /\ main \in {"serving", "ending", "waiting"} /\ ~closing

Submit(j) ==
    /\ Scheduling /\ main = "serving"
    /\ job[j] = "idle" /\ runs[j] < MaxRuns
    /\ job' = [job EXCEPT ![j] = "submitted"]
    /\ runs' = [runs EXCEPT ![j] = @ + 1]
    /\ UNCHANGED <<kind, main, cleanup, thread, closing, pending, resources, signals>>

\* One that was submitted and had not begun finds the scheduler closing.
Begin(j) ==
    /\ job[j] = "submitted"
    /\ job' = [job EXCEPT ![j] = IF closing THEN "idle" ELSE "running"]
    /\ UNCHANGED <<kind, main, cleanup, thread, runs, closing, pending, resources, signals>>

EnterThread(j) ==
    /\ job[j] = "running"
    /\ job' = [job EXCEPT ![j] = "threaded"]
    /\ thread' = thread \cup {j}
    /\ UNCHANGED <<kind, main, cleanup, runs, closing, pending, resources, signals>>

\* A job that was cancelled meanwhile goes on to undo what it had begun.
LeaveThread(j) ==
    /\ j \in thread
    /\ thread' = thread \ {j}
    /\ job' = [job EXCEPT ![j] = CASE @ = "threaded" -> "running"
                                   [] @ = "retained" -> "undoing"
                                   [] OTHER -> @]
    /\ UNCHANGED <<kind, main, cleanup, runs, closing, pending, resources, signals>>

End(j) ==
    /\ job[j] \in {"running", "undoing"}
    /\ job' = [job EXCEPT ![j] = "idle"]
    /\ UNCHANGED <<kind, main, cleanup, thread, runs, closing, pending, resources, signals>>

Store ==
    /\ logs \in {"open", "draining"} /\ ~writing /\ main # "exited"
    /\ writing' = TRUE
    /\ UNCHANGED <<kind, main, cleanup, tasks, closing, pending, wrapper, engine, logs, signals>>

Stored ==
    /\ writing
    /\ writing' = FALSE
    /\ UNCHANGED <<kind, main, cleanup, tasks, closing, pending, wrapper, engine, logs, signals>>

-----------------------------------------------------------------------------
(* The end.  The main task waits for the teardown however often it is      *)
(* cancelled itself.                                                       *)

\* Mutant: a cancelled main task no longer waits.
WaitsNoLonger == main' = IF main = "waiting" THEN "exited" ELSE main

StillWaits == main' = main

Signal ==
    /\ signals < MaxSignals /\ signals' = signals + 1
    /\ \/ main = "starting" /\ wrapper = "starting" /\ main' = "undoing" /\ wrapper' = "cancelled"
       \/ main = "serving" /\ main' = "ending" /\ wrapper' = wrapper
       \/ main \in {"undoing", "waiting"} /\ StillWaits /\ wrapper' = wrapper
    /\ UNCHANGED <<kind, cleanup, tasks, closing, pending, engine, logs, writing>>

BeginCleanup ==
    /\ main = "ending"
    /\ main' = "waiting"
    /\ cleanup' = IF kind = "worker" THEN "scheduler" ELSE "logs"
    /\ UNCHANGED <<kind, tasks, closing, pending, resources, signals>>

\* A job that awaits its thread is not over while the thread runs.
Cancelled(state) == CASE state = "running" -> "undoing"
                      [] state = "threaded" -> "retained"
                      [] OTHER -> state

Owned == {j \in Jobs : job[j] \in {"running", "threaded"}}

CloseScheduler ==
    /\ cleanup = "scheduler"
    /\ cleanup' = "jobs"
    /\ closing' = TRUE
    /\ pending' = Owned
    /\ job' = [j \in Jobs |-> Cancelled(job[j])]
    /\ UNCHANGED <<kind, main, thread, runs, resources, signals>>

JobsOver ==
    /\ cleanup = "jobs"
    /\ \A j \in pending : job[j] = "idle"
    /\ cleanup' = "maintenance"
    /\ pending' = {}
    /\ UNCHANGED <<kind, main, tasks, closing, resources, signals>>

CloseMaintenance ==
    /\ cleanup = "maintenance"
    /\ Fit \notin thread
    /\ cleanup' = "logs"
    /\ UNCHANGED <<kind, main, tasks, closing, pending, resources, signals>>

Drain ==
    /\ cleanup = "logs" /\ logs = "open"
    /\ logs' = "draining"
    /\ UNCHANGED <<kind, main, cleanup, tasks, closing, pending, wrapper, engine, writing, signals>>

\* Everything is stored, or the deadline passes while a write is not settled.
Drained ==
    /\ cleanup = "logs" /\ logs = "draining"
    /\ \/ ~writing /\ logs' = "settled" /\ cleanup' = "wrapper"
       \/ writing /\ logs' = "unsettled" /\ cleanup' = "failed"
    /\ UNCHANGED <<kind, main, tasks, closing, pending, wrapper, engine, writing, signals>>

\* The API has let go of a client that failed to start.
Kept == wrapper \in {"up", "kept"}

StopWrapper ==
    /\ cleanup = "wrapper"
    /\ IF Kept
       THEN \/ wrapper' = "stopped" /\ cleanup' = "engine"
            \/ wrapper' = "broken" /\ cleanup' = "failed"
       ELSE wrapper' = wrapper /\ cleanup' = "engine"
    /\ UNCHANGED <<kind, main, tasks, closing, pending, engine, logs, writing, signals>>

DisposeEngine ==
    /\ cleanup = "engine"
    /\ cleanup' = "over"
    /\ engine' = (kind = "api" /\ wrapper = "broken")
    /\ UNCHANGED <<kind, main, tasks, closing, pending, wrapper, logs, writing, signals>>

Exit ==
    /\ main = "waiting" /\ cleanup \in {"over", "failed"}
    /\ main' = "exited"
    /\ UNCHANGED <<kind, cleanup, tasks, closing, pending, resources, signals>>

Next == \/ Serve \/ StartFails \/ StopFailed \/ Store \/ Stored \/ Signal \/ BeginCleanup
        \/ CloseScheduler \/ JobsOver \/ CloseMaintenance \/ Drain \/ Drained \/ StopWrapper
        \/ DisposeEngine \/ Exit
        \/ \E j \in Jobs : Submit(j) \/ Begin(j) \/ EnterThread(j) \/ LeaveThread(j) \/ End(j)

Spec == Init /\ [][Next]_shutdownVars

-----------------------------------------------------------------------------

Active == {j \in Jobs : job[j] \notin {"idle", "submitted"}} \cup thread

(***************************************************************************)
(* Nothing is disposed of while it is used: the client is stopped only     *)
(* when no job is left, its thread included, the engine only when in       *)
(* addition no batch of logs is being stored and the client is not left    *)
(* half stopped; and the process ends only when the teardown has, so that  *)
(* no job, thread or write is cut off unless the teardown itself failed.   *)
(***************************************************************************)
DisposedWhenUnused ==
    /\ cleanup \in {"engine", "over"} => Active = {}
    /\ ~engine => Active = {} /\ ~writing /\ wrapper \in {"none", "stopped"}
    /\ main = "exited" => Active = {} /\ (writing => logs = "unsettled")
=============================================================================
