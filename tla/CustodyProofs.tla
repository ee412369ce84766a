-------------------------- MODULE CustodyProofs ---------------------------
(***************************************************************************)
(* Proofs about the services that keep, replace and dispose of what others *)
(* rely on, for any values of their constants that satisfy the assumptions *)
(* of CustodyServices.                                                     *)
(***************************************************************************)
EXTENDS CustodyServices, SequenceTheorems, FiniteSetTheorems, WellFoundedInduction, TLAPS

-----------------------------------------------------------------------------
(***************************************************************************)
(* The end of a service (ServiceShutdown).                                 *)
(***************************************************************************)

\* A job that awaits its thread is held by it.
ShutdownThreadsAreHeld == shutdown_thread =
  {j \in shutdown_Jobs : shutdown_job[j] \in {"threaded", "retained"}}

\* Only a closing scheduler cancels; what it does not wait for has not begun.
ShutdownJobsAreOwned ==
  /\ ~shutdown_closing => \A j \in shutdown_Jobs :
       shutdown_job[j] \in {"idle", "submitted", "running", "threaded"}
  /\ shutdown_closing => \A j \in shutdown_Jobs \ shutdown_pending :
       shutdown_job[j] \in {"idle", "submitted"}
  /\ shutdown_kind = "api" => \A j \in shutdown_Jobs : shutdown_job[j] = "idle"

\* The order of the teardown.
ShutdownTeardownOrder ==
  /\ shutdown_main \in {"waiting", "exited"} <=> shutdown_cleanup # "none"
  /\ shutdown_main = "exited" => shutdown_cleanup \in {"over", "failed"}
  /\ shutdown_cleanup \in {"scheduler", "jobs", "maintenance"} => shutdown_kind = "worker"
  /\ shutdown_closing <=> shutdown_kind = "worker"
       /\ shutdown_cleanup \notin {"none", "scheduler"}
  /\ shutdown_cleanup # "jobs" => shutdown_pending = {}

\* Where the client and the log sink are at each point of it.
ShutdownResourceOrder ==
  /\ shutdown_main = "starting" => shutdown_wrapper \in {"none", "starting"}
  /\ shutdown_main = "undoing" => shutdown_wrapper \in {"failed", "cancelled"}
  /\ shutdown_main \notin {"starting", "undoing"}
       => shutdown_wrapper \in {"none", "up", "kept", "stopped", "broken"}
  /\ shutdown_kind = "worker" /\ shutdown_wrapper = "broken" => shutdown_cleanup = "failed"
  /\ shutdown_cleanup \in {"engine", "over"} => shutdown_wrapper \notin {"up", "kept"}
  /\ shutdown_cleanup \in {"wrapper", "engine", "over"} => shutdown_logs = "settled"
  /\ shutdown_cleanup = "failed" => shutdown_logs \in {"settled", "unsettled"}
  /\ shutdown_logs = "settled" => ~shutdown_writing
  /\ ~shutdown_engine => shutdown_cleanup = "over" /\ shutdown_wrapper # "broken"

ShutdownIInv == Shutdown!TypeOK /\ ShutdownThreadsAreHeld /\ ShutdownJobsAreOwned
  /\ ShutdownTeardownOrder /\ ShutdownResourceOrder

\* Once the scheduler has closed no job and no thread is left.
LEMMA ShutdownNothingIsActive ==
  ASSUME ShutdownIInv, shutdown_cleanup \in {"maintenance", "logs", "wrapper", "engine",
                                             "over", "failed"}
  PROVE  Shutdown!Active = {}
<1>1. \A j \in shutdown_Jobs : shutdown_job[j] \in {"idle", "submitted"}
  <2>1. CASE shutdown_kind = "api"
    BY <2>1 DEF ShutdownIInv, ShutdownJobsAreOwned
  <2>2. CASE shutdown_kind = "worker"
    <3>1. shutdown_closing /\ shutdown_pending = {}
      BY <2>2 DEF ShutdownIInv, ShutdownTeardownOrder
    <3> QED
      BY <3>1 DEF ShutdownIInv, ShutdownJobsAreOwned
  <2> QED
    BY <2>1, <2>2 DEF ShutdownIInv, Shutdown!TypeOK
<1> QED
  BY <1>1 DEF ShutdownIInv, ShutdownThreadsAreHeld, Shutdown!Active

\* The invariant says what the service promises.
LEMMA ShutdownNothingIsCut == ShutdownIInv => Shutdown!DisposedWhenUnused
<1> SUFFICES ASSUME ShutdownIInv
             PROVE  Shutdown!DisposedWhenUnused
  OBVIOUS
<1>1. shutdown_cleanup \in {"engine", "over", "failed"} => Shutdown!Active = {}
  BY ShutdownNothingIsActive
<1>2. ~shutdown_engine => shutdown_cleanup = "over" /\ shutdown_logs = "settled"
        /\ ~shutdown_writing
  BY DEF ShutdownIInv, ShutdownResourceOrder
<1>3. ~shutdown_engine => shutdown_wrapper \in {"none", "stopped"}
  <2>1. ~shutdown_engine => shutdown_main \in {"waiting", "exited"}
    BY DEF ShutdownIInv, ShutdownResourceOrder, ShutdownTeardownOrder, Shutdown!TypeOK
  <2> QED
    BY <2>1 DEF ShutdownIInv, ShutdownResourceOrder
<1>4. shutdown_main = "exited"
        => shutdown_cleanup \in {"over", "failed"}
          /\ (shutdown_writing => shutdown_logs = "unsettled")
  BY DEF ShutdownIInv, ShutdownResourceOrder, ShutdownTeardownOrder, Shutdown!TypeOK
<1> QED
  BY <1>1, <1>2, <1>3, <1>4 DEF Shutdown!DisposedWhenUnused

\* A service that starts.
LEMMA ShutdownInvariantInitially == Shutdown!Init => ShutdownIInv
<1> SUFFICES ASSUME Shutdown!Init
             PROVE  ShutdownIInv
  OBVIOUS
<1>1. Shutdown!TypeOK
  <2>1. shutdown_runs \in [shutdown_Jobs -> 0 .. shutdown_MaxRuns]
          /\ shutdown_signals \in 0 .. shutdown_MaxSignals
    BY ShutdownAssumption DEF Shutdown!Init
  <2>2. shutdown_wrapper \in {"none", "starting"} /\ shutdown_kind \in {"worker", "api"}
    BY DEF Shutdown!Init
  <2>3. shutdown_job \in [shutdown_Jobs -> {"idle", "submitted", "running", "threaded",
                                            "retained", "undoing"}]
    BY DEF Shutdown!Init
  <2> QED
    BY <2>1, <2>2, <2>3 DEF Shutdown!Init, Shutdown!TypeOK
<1>2. ShutdownThreadsAreHeld /\ ShutdownJobsAreOwned
  BY DEF Shutdown!Init, ShutdownThreadsAreHeld, ShutdownJobsAreOwned
<1>3. ShutdownTeardownOrder
  BY DEF Shutdown!Init, ShutdownTeardownOrder
<1>4. ShutdownResourceOrder
  BY DEF Shutdown!Init, ShutdownResourceOrder
<1> QED
  BY <1>1, <1>2, <1>3, <1>4 DEF ShutdownIInv

\* The main task.
LEMMA ShutdownMainKeeps ==
  ShutdownIInv /\ (Shutdown!Serve \/ Shutdown!StartFails \/ Shutdown!StopFailed
                   \/ Shutdown!Signal \/ Shutdown!BeginCleanup \/ Shutdown!Exit)
                        => ShutdownIInv'
<1> SUFFICES ASSUME ShutdownIInv, Shutdown!Serve \/ Shutdown!StartFails \/ Shutdown!StopFailed
                      \/ Shutdown!Signal \/ Shutdown!BeginCleanup \/ Shutdown!Exit
             PROVE  ShutdownIInv'
  OBVIOUS
<1>1. UNCHANGED <<shutdown_kind, shutdown_job, shutdown_thread, shutdown_closing,
                  shutdown_pending, shutdown_engine, shutdown_logs, shutdown_writing,
                  shutdown_runs>>
  BY DEF Shutdown!Serve, Shutdown!StartFails, Shutdown!StopFailed, Shutdown!Signal,
     Shutdown!BeginCleanup, Shutdown!Exit, Shutdown!tasks, Shutdown!resources
<1>2. ShutdownThreadsAreHeld' /\ ShutdownJobsAreOwned'
  BY <1>1 DEF ShutdownIInv, ShutdownThreadsAreHeld, ShutdownJobsAreOwned
<1>3. Shutdown!TypeOK'
  BY <1>1, ShutdownAssumption
  DEF ShutdownIInv, Shutdown!TypeOK, Shutdown!Serve, Shutdown!StartFails, Shutdown!StopFailed,
      Shutdown!Signal, Shutdown!BeginCleanup, Shutdown!Exit, Shutdown!tasks, Shutdown!resources,
      Shutdown!StillWaits
<1>4. ShutdownTeardownOrder'
  BY <1>1
  DEF ShutdownIInv, Shutdown!TypeOK, ShutdownTeardownOrder, Shutdown!Serve, Shutdown!StartFails,
      Shutdown!StopFailed, Shutdown!Signal, Shutdown!BeginCleanup, Shutdown!Exit,
      Shutdown!tasks,
      Shutdown!resources, Shutdown!StillWaits
<1>5. ShutdownResourceOrder'
  BY <1>1
  DEF ShutdownIInv, Shutdown!TypeOK, ShutdownTeardownOrder, ShutdownResourceOrder,
      Shutdown!Serve, Shutdown!StartFails, Shutdown!StopFailed, Shutdown!Signal,
      Shutdown!BeginCleanup,
      Shutdown!Exit, Shutdown!tasks, Shutdown!resources, Shutdown!StillWaits
<1> QED
  BY <1>2, <1>3, <1>4, <1>5 DEF ShutdownIInv

\* The jobs.
LEMMA ShutdownJobsKeep ==
  ASSUME ShutdownIInv, NEW j \in shutdown_Jobs, Shutdown!Submit(j) \/ Shutdown!Begin(j)
           \/ Shutdown!EnterThread(j) \/ Shutdown!LeaveThread(j) \/ Shutdown!End(j)
  PROVE  ShutdownIInv'
<1>1. UNCHANGED <<shutdown_kind, shutdown_main, shutdown_cleanup, shutdown_closing,
                  shutdown_pending, shutdown_wrapper, shutdown_engine, shutdown_logs,
                  shutdown_writing, shutdown_signals>>
  BY DEF Shutdown!Submit, Shutdown!Begin, Shutdown!EnterThread, Shutdown!LeaveThread,
     Shutdown!End, Shutdown!resources
<1>2. ShutdownTeardownOrder' /\ ShutdownResourceOrder'
  BY <1>1 DEF ShutdownIInv, ShutdownTeardownOrder, ShutdownResourceOrder
<1>3. Shutdown!TypeOK'
  <2>1. shutdown_job' \in [shutdown_Jobs -> {"idle", "submitted", "running", "threaded",
                                             "retained", "undoing"}]
    BY DEF ShutdownIInv, Shutdown!TypeOK, Shutdown!Submit, Shutdown!Begin,
       Shutdown!EnterThread, Shutdown!LeaveThread, Shutdown!End
  <2>2. shutdown_thread' \in SUBSET shutdown_Jobs
    BY DEF ShutdownIInv, Shutdown!TypeOK, Shutdown!Submit, Shutdown!Begin,
       Shutdown!EnterThread, Shutdown!LeaveThread, Shutdown!End
  <2>3. shutdown_runs' \in [shutdown_Jobs -> 0 .. shutdown_MaxRuns]
    BY ShutdownAssumption DEF ShutdownIInv, Shutdown!TypeOK, Shutdown!Submit,
       Shutdown!Begin, Shutdown!EnterThread, Shutdown!LeaveThread, Shutdown!End
  <2> QED
    BY <1>1, <2>1, <2>2, <2>3 DEF ShutdownIInv, Shutdown!TypeOK
<1>4. ShutdownThreadsAreHeld'
  BY DEF ShutdownIInv, Shutdown!TypeOK, ShutdownThreadsAreHeld, Shutdown!Submit,
     Shutdown!Begin, Shutdown!EnterThread, Shutdown!LeaveThread, Shutdown!End
<1>5. ShutdownJobsAreOwned'
  <2>1. shutdown_job[j] = "submitted" \/ shutdown_job[j] = "idle"
          \/ (shutdown_job[j] \notin {"submitted", "idle"})
    OBVIOUS
  <2>2. shutdown_kind = "worker"
    BY DEF ShutdownIInv, Shutdown!TypeOK, ShutdownThreadsAreHeld, ShutdownJobsAreOwned,
       Shutdown!Submit, Shutdown!Begin, Shutdown!EnterThread, Shutdown!LeaveThread,
       Shutdown!End,
           Shutdown!Scheduling
  <2>3. \A i \in shutdown_Jobs \ {j} : shutdown_job'[i] = shutdown_job[i]
    BY DEF ShutdownIInv, Shutdown!TypeOK, Shutdown!Submit, Shutdown!Begin,
       Shutdown!EnterThread, Shutdown!LeaveThread, Shutdown!End
  <2>4. shutdown_closing /\ j \notin shutdown_pending
          => shutdown_job'[j] \in {"idle", "submitted"}
    BY DEF ShutdownIInv, Shutdown!TypeOK, ShutdownThreadsAreHeld, ShutdownJobsAreOwned,
       Shutdown!Submit, Shutdown!Begin, Shutdown!EnterThread, Shutdown!LeaveThread,
       Shutdown!End,
           Shutdown!Scheduling
  <2>5. ~shutdown_closing => shutdown_job'[j] \in {"idle", "submitted", "running", "threaded"}
    BY DEF ShutdownIInv, Shutdown!TypeOK, ShutdownJobsAreOwned, Shutdown!Submit,
       Shutdown!Begin, Shutdown!EnterThread, Shutdown!LeaveThread, Shutdown!End
  <2> QED
    BY <1>1, <2>2, <2>3, <2>4, <2>5 DEF ShutdownIInv, ShutdownJobsAreOwned
<1> QED
  BY <1>2, <1>3, <1>4, <1>5 DEF ShutdownIInv

\* The scheduler closes: what has begun is cancelled, and waited for.
LEMMA ShutdownCloseKeeps == ShutdownIInv /\ Shutdown!CloseScheduler => ShutdownIInv'
<1> SUFFICES ASSUME ShutdownIInv, Shutdown!CloseScheduler
             PROVE  ShutdownIInv'
  OBVIOUS
<1>1. UNCHANGED <<shutdown_kind, shutdown_main, shutdown_thread, shutdown_wrapper,
                  shutdown_engine, shutdown_logs, shutdown_writing, shutdown_runs,
                  shutdown_signals>>
  BY DEF Shutdown!CloseScheduler, Shutdown!resources
<1>2. shutdown_kind = "worker" /\ ~shutdown_closing
  BY DEF Shutdown!CloseScheduler, ShutdownIInv, ShutdownTeardownOrder
<1>3. Shutdown!TypeOK'
  BY <1>1 DEF Shutdown!CloseScheduler, ShutdownIInv, Shutdown!TypeOK, Shutdown!Cancelled,
     Shutdown!Owned
<1>4. ShutdownThreadsAreHeld'
  BY <1>1, <1>2 DEF Shutdown!CloseScheduler, ShutdownIInv, Shutdown!TypeOK,
     ShutdownThreadsAreHeld, ShutdownJobsAreOwned, Shutdown!Cancelled
<1>5. ShutdownJobsAreOwned'
  BY <1>1, <1>2 DEF Shutdown!CloseScheduler, ShutdownIInv, Shutdown!TypeOK,
     ShutdownJobsAreOwned, Shutdown!Cancelled, Shutdown!Owned
<1>6. ShutdownTeardownOrder' /\ ShutdownResourceOrder'
  BY <1>1, <1>2 DEF Shutdown!CloseScheduler, ShutdownIInv, Shutdown!TypeOK,
     ShutdownTeardownOrder, ShutdownResourceOrder
<1> QED
  BY <1>3, <1>4, <1>5, <1>6 DEF ShutdownIInv

\* The rest of the teardown.
LEMMA ShutdownTeardownKeeps ==
  ShutdownIInv /\ (Shutdown!JobsOver \/ Shutdown!CloseMaintenance \/ Shutdown!Drain
                   \/ Shutdown!Drained \/ Shutdown!StopWrapper \/ Shutdown!DisposeEngine
                   \/ Shutdown!Store \/ Shutdown!Stored) => ShutdownIInv'
<1> SUFFICES ASSUME ShutdownIInv, Shutdown!JobsOver \/ Shutdown!CloseMaintenance
                      \/ Shutdown!Drain \/ Shutdown!Drained \/ Shutdown!StopWrapper
                                  \/ Shutdown!DisposeEngine \/ Shutdown!Store \/ Shutdown!Stored
             PROVE  ShutdownIInv'
  OBVIOUS
<1>1. UNCHANGED <<shutdown_kind, shutdown_main, shutdown_job, shutdown_thread,
                  shutdown_closing, shutdown_runs, shutdown_signals>>
  BY DEF Shutdown!JobsOver, Shutdown!CloseMaintenance, Shutdown!Drain, Shutdown!Drained,
     Shutdown!StopWrapper, Shutdown!DisposeEngine, Shutdown!Store, Shutdown!Stored,
     Shutdown!tasks,
         Shutdown!resources
<1>2. ShutdownThreadsAreHeld'
  BY <1>1 DEF ShutdownIInv, ShutdownThreadsAreHeld
<1>3. ShutdownJobsAreOwned'
  BY <1>1
  DEF ShutdownIInv, ShutdownJobsAreOwned, Shutdown!JobsOver, Shutdown!CloseMaintenance,
      Shutdown!Drain, Shutdown!Drained, Shutdown!StopWrapper, Shutdown!DisposeEngine,
      Shutdown!Store,
      Shutdown!Stored, Shutdown!tasks, Shutdown!resources
<1>4. shutdown_engine' \in BOOLEAN
  BY DEF ShutdownIInv, Shutdown!TypeOK, Shutdown!JobsOver, Shutdown!CloseMaintenance,
     Shutdown!Drain, Shutdown!Drained, Shutdown!StopWrapper, Shutdown!DisposeEngine,
     Shutdown!Store,
      Shutdown!Stored, Shutdown!tasks, Shutdown!resources
<1>5. Shutdown!TypeOK'
  <2>1. shutdown_pending' \in SUBSET shutdown_Jobs
    BY DEF ShutdownIInv, Shutdown!TypeOK, Shutdown!JobsOver, Shutdown!CloseMaintenance,
       Shutdown!Drain, Shutdown!Drained, Shutdown!StopWrapper, Shutdown!DisposeEngine,
       Shutdown!Store,
           Shutdown!Stored, Shutdown!tasks, Shutdown!resources
  <2>2. /\ shutdown_cleanup' \in {"none", "scheduler", "jobs", "maintenance", "logs",
                                  "wrapper", "engine",
                                  "over", "failed"}
        /\ shutdown_wrapper' \in {"none", "starting", "up", "failed", "cancelled", "kept",
                                  "stopped", "broken"}
        /\ shutdown_logs' \in {"open", "draining", "settled", "unsettled"}
        /\ shutdown_writing' \in BOOLEAN
    BY DEF ShutdownIInv, Shutdown!TypeOK, Shutdown!JobsOver, Shutdown!CloseMaintenance,
       Shutdown!Drain, Shutdown!Drained, Shutdown!StopWrapper, Shutdown!DisposeEngine,
       Shutdown!Store,
           Shutdown!Stored, Shutdown!tasks, Shutdown!resources
  <2> QED
    BY <1>1, <1>4, <2>1, <2>2 DEF ShutdownIInv, Shutdown!TypeOK
<1>6. ShutdownTeardownOrder'
  BY <1>1
  DEF ShutdownIInv, Shutdown!TypeOK, ShutdownTeardownOrder, Shutdown!JobsOver,
      Shutdown!CloseMaintenance, Shutdown!Drain, Shutdown!Drained, Shutdown!StopWrapper,
      Shutdown!DisposeEngine, Shutdown!Store, Shutdown!Stored, Shutdown!tasks,
      Shutdown!resources
<1>7. ShutdownResourceOrder'
  <2>1. CASE Shutdown!DisposeEngine
    <3>1. ~shutdown_engine' => shutdown_wrapper # "broken"
      BY <2>1 DEF Shutdown!DisposeEngine, ShutdownIInv, Shutdown!TypeOK,
         ShutdownResourceOrder
    <3> QED
      BY <1>1, <2>1, <3>1 DEF Shutdown!DisposeEngine, ShutdownIInv, Shutdown!TypeOK,
         ShutdownResourceOrder, ShutdownTeardownOrder
  <2>2. CASE ~Shutdown!DisposeEngine
    BY <1>1, <2>2
    DEF ShutdownIInv, Shutdown!TypeOK, ShutdownTeardownOrder, ShutdownResourceOrder,
        Shutdown!JobsOver, Shutdown!CloseMaintenance, Shutdown!Drain, Shutdown!Drained,
        Shutdown!StopWrapper, Shutdown!Store, Shutdown!Stored, Shutdown!tasks,
        Shutdown!resources, Shutdown!Kept
  <2> QED
    BY <2>1, <2>2
<1> QED
  BY <1>2, <1>3, <1>5, <1>6, <1>7 DEF ShutdownIInv

\* Every step of the service keeps the invariant.
LEMMA ShutdownInvariantKept == ShutdownIInv /\ [Shutdown!Next]_shutdownVars => ShutdownIInv'
<1> SUFFICES ASSUME ShutdownIInv, [Shutdown!Next]_shutdownVars
             PROVE  ShutdownIInv'
  OBVIOUS
<1>1. CASE UNCHANGED shutdownVars
  BY <1>1
  DEF shutdownVars, Shutdown!tasks, Shutdown!resources, ShutdownIInv, Shutdown!TypeOK,
      ShutdownThreadsAreHeld, ShutdownJobsAreOwned, ShutdownTeardownOrder,
      ShutdownResourceOrder
<1> QED
  BY <1>1, ShutdownMainKeeps, ShutdownJobsKeep, ShutdownCloseKeeps, ShutdownTeardownKeeps
     DEF Shutdown!Next


\* The invariant of this service, whenever it is the one that acts.
LEMMA ShutdownInvariant == CustodySpec => [](custody = "shutdown" => ShutdownIInv)
<1>1. CustodyInit => (custody = "shutdown" => ShutdownIInv)
  BY ShutdownInvariantInitially DEF CustodyInit
<1>2. (custody = "shutdown" => ShutdownIInv) /\ [CustodyNext]_custodyVars
        => (custody = "shutdown" => ShutdownIInv)'
  BY ShutdownInvariantKept DEF CustodyNext, custodyVars
<1> QED
  BY <1>1, <1>2, PTL DEF CustodySpec

-----------------------------------------------------------------------------
(***************************************************************************)
(* Backup archives, their retention and drills (BackupArchive).            *)
(***************************************************************************)

BackupAttempting == {"started", "dumping", "published", "succeeded", "failing"}

\* A worker that has started an attempt: it is its own, and while it works on
\* it the row names it and calls it running.
BackupJobIs(d) ==
  LET j == backup_job[d] IN
  /\ j.at \in {"idle", "ready"} => j.id = Backup!NoId
  /\ j.at \notin {"idle", "ready"} => j.id \in DOMAIN backup_made /\ backup_made[j.id].by = d
  /\ j.at \in BackupAttempting => /\ backup_row.attempt.id = j.id /\ backup_row.attempt.status = "running"
                                  /\ backup_now <= backup_made[j.id].at + backup_Timeout
  /\ j.at = "started" => backup_disk[j.id] = "none"
  /\ j.at = "dumping" => backup_disk[j.id] = "partial"
  /\ j.at = "published" => backup_disk[j.id] = "published"
  /\ j.at = "succeeded" => backup_disk[j.id] = "whole"

\* While a worker removes archives, the row names none of its own that it does
\* not spare.
BackupSpares(d) ==
  backup_job[d].at = "retaining" =>
    \A id \in {backup_row.success, backup_row.verified} :
      id \in DOMAIN backup_made /\ backup_made[id].by = d
        => id \in {backup_job[d].seen.success, backup_job[d].seen.verified}

\* What the row names is whole; a drill restored what it calls verified.
BackupRowIsTrue ==
  /\ \A id \in {backup_row.success, backup_row.verified} : id # Backup!NoId => Backup!Whole(id)
  /\ backup_row.verified # Backup!NoId => backup_row.verified \in backup_restored
  /\ backup_row.check.id \in 0..backup_drills

\* A dump that the server still serves is the last attempt's.
BackupOneServed == backup_sessions \subseteq {backup_row.attempt.id}

\* A drill that the row names as running: what it has staged is whole, and its
\* destination is not removing anything.
BackupDrillIs(c) ==
  LET k == backup_drill[c] IN
  /\ k.at # "idle" => k.id \in 1..backup_drills /\ k.archive # Backup!NoId
  /\ k.at = "selected" => backup_row.check.id # k.id
  /\ k.at \in {"started", "staged", "restored"} /\ backup_row.check.id = k.id
       => backup_row.check.status = "running"
  /\ k.at \in {"staged", "restored"} /\ backup_row.check.id = k.id
       => Backup!Whole(k.archive) /\ backup_job[backup_made[k.archive].by].at # "retaining"
  /\ k.at = "restored" => k.archive \in backup_restored

BackupDrillsDiffer ==
  \A b, c \in backup_Drills : backup_drill[b].at # "idle" /\ backup_drill[c].at # "idle"
    /\ b # c
                                => backup_drill[b].id # backup_drill[c].id

BackupIInv == /\ Backup!TypeOK
              /\ \A d \in backup_Destinations : BackupJobIs(d) /\ BackupSpares(d)
              /\ BackupRowIsTrue
              /\ BackupOneServed
              /\ \A c \in backup_Drills : BackupDrillIs(c)
              /\ BackupDrillsDiffer

\* The invariant says that what the row names is kept, and that the database
\* serves one dump.
LEMMA BackupKeptArchives == BackupIInv => Backup!RecordedIsKept
<1> SUFFICES ASSUME BackupIInv PROVE Backup!RecordedIsKept
  OBVIOUS
<1>1. Backup!Ready => backup_row.success # Backup!NoId
        /\ backup_now - backup_made[backup_row.success].at < backup_Freshness
  BY DEF Backup!Ready
<1>2. backup_row.success # Backup!NoId
        => Backup!Whole(backup_row.success) /\ backup_row.success \in DOMAIN backup_made
  BY DEF BackupIInv, BackupRowIsTrue, Backup!Whole, Backup!TypeOK
<1> QED
  BY <1>1, <1>2 DEF BackupIInv, BackupRowIsTrue, Backup!RecordedIsKept

\* The module's cardinality is the one of finite sets.
LEMMA BackupCardinalityIs == \A S : Backup!Cardinality(S) = Cardinality(S)
  BY DEF Backup!Cardinality, Cardinality

\* One worker dumps, and a dump that is served is its own.
LEMMA BackupOneIsServed == BackupIInv => Backup!OneDump
<1> SUFFICES ASSUME BackupIInv PROVE Backup!OneDump
  OBVIOUS
<1>1. IsFiniteSet({backup_row.attempt.id}) /\ Cardinality({backup_row.attempt.id}) = 1
  BY FS_Singleton
<1>2. IsFiniteSet(backup_sessions)
        /\ Cardinality(backup_sessions) <= Cardinality({backup_row.attempt.id})
  BY <1>1, FS_Subset DEF BackupIInv, BackupOneServed
<1>3. Cardinality(backup_sessions) \in Nat
  BY <1>2, FS_CardinalityType
<1> QED
  BY <1>1, <1>2, <1>3, BackupCardinalityIs DEF Backup!OneDump

\* At first there is no archive, no drill and nothing in the row.
LEMMA BackupInvariantInitially == ASSUME Backup!Init PROVE BackupIInv
<1>1. Backup!NoAttempt \in Backup!Attempt /\ Backup!NoCheck \in Backup!Check
        /\ Backup!NoRow \in Backup!Row
  BY DEF Backup!NoAttempt, Backup!NoCheck, Backup!NoRow, Backup!NoId, Backup!Attempt,
     Backup!Check, Backup!Row, Backup!Outcomes
<1>2. Backup!Idle \in Backup!Job /\ Backup!NoDrill \in Backup!Drill
  BY <1>1 DEF Backup!Idle, Backup!NoDrill, Backup!Job, Backup!Drill, Backup!NoId
<1>3. Backup!TypeOK
  BY <1>1, <1>2 DEF Backup!Init, Backup!TypeOK
<1>4. backup_row.success = Backup!NoId /\ backup_row.verified = Backup!NoId
        /\ backup_row.check.id = Backup!NoId
  BY DEF Backup!Init, Backup!NoRow, Backup!NoCheck
<1> QED
  BY <1>3, <1>4
     DEF Backup!Init, BackupIInv, BackupJobIs, BackupSpares, BackupRowIsTrue, BackupOneServed,
         BackupDrillIs, BackupDrillsDiffer, Backup!Idle, Backup!NoDrill, Backup!NoId,
     BackupAttempting

\* The archives are numbered from one, and each worker's are its own.
LEMMA BackupMadeIs ==
  ASSUME Backup!TypeOK
  PROVE  /\ Len(backup_made) \in Nat /\ DOMAIN backup_made = 1..Len(backup_made)
         /\ \A id \in DOMAIN backup_made : backup_made[id].at \in Nat
              /\ backup_made[id].by \in backup_Destinations
         /\ Backup!NoId \notin DOMAIN backup_made
         /\ DOMAIN backup_disk = DOMAIN backup_made
<1>1. backup_made \in Seq([at : Nat, by : backup_Destinations])
        /\ backup_disk \in [DOMAIN backup_made -> Backup!Contents]
  BY DEF Backup!TypeOK
<1>2. /\ Len(backup_made) \in Nat /\ DOMAIN backup_made = 1..Len(backup_made)
      /\ \A id \in 1..Len(backup_made) :
           backup_made[id] \in [at : Nat, by : backup_Destinations]
  BY <1>1, LenProperties, ElementOfSeq
<1> QED
  BY <1>1, <1>2 DEF Backup!NoId

\* Two workers are never at the same archive.
LEMMA BackupJobIdsDiffer ==
  ASSUME BackupIInv, NEW d \in backup_Destinations, NEW e \in backup_Destinations, d # e,
         backup_job[d].at \notin {"idle", "ready"}, backup_job[e].at \notin {"idle", "ready"}
  PROVE  backup_job[d].id # backup_job[e].id
BY DEF BackupIInv, BackupJobIs

\* A step of one worker that takes no archive away.
LEMMA BackupWorkerKeeps ==
  ASSUME BackupIInv, Backup!TypeOK', UNCHANGED <<backup_now, backup_made, Backup!drilling>>,
         backup_row'.check = backup_row.check, backup_row'.verified = backup_row.verified,
         backup_row'.attempt.id = backup_row.attempt.id,
         NEW d \in backup_Destinations, BackupJobIs(d)', backup_job'[d].at # "retaining",
         \A e \in backup_Destinations : e # d => backup_job'[e] = backup_job[e],
         backup_row'.attempt.status = backup_row.attempt.status
           \/ backup_job[d].at \in BackupAttempting,
         \/ backup_row'.success = backup_row.success
         \/ (backup_row'.success \in DOMAIN backup_made
             /\ backup_made[backup_row'.success].by = d
             /\ backup_disk'[backup_row'.success] = "whole"),
         \A id \in DOMAIN backup_made : backup_disk[id] = "whole" => backup_disk'[id] = "whole",
         \A id \in DOMAIN backup_made : backup_made[id].by # d
           => backup_disk'[id] = backup_disk[id],
         backup_sessions' \subseteq {backup_row.attempt.id}
  PROVE  BackupIInv'
<1>1. ASSUME NEW e \in backup_Destinations, e # d PROVE BackupJobIs(e)' /\ BackupSpares(e)'
  <2>1. backup_job'[e] = backup_job[e] /\ backup_job[e].at \in BackupAttempting
          => backup_row'.attempt.status = backup_row.attempt.status
    BY <1>1, BackupJobIdsDiffer DEF BackupIInv, BackupJobIs, BackupAttempting
  <2>2. backup_job[e].at \notin {"idle", "ready"}
          => backup_disk'[backup_job[e].id] = backup_disk[backup_job[e].id]
    BY <1>1 DEF BackupIInv, BackupJobIs
  <2>3. BackupJobIs(e)'
    BY <1>1, <2>1, <2>2 DEF BackupIInv, BackupJobIs, BackupAttempting
  <2>4. BackupSpares(e)'
    BY <1>1 DEF BackupIInv, BackupSpares
  <2> QED
    BY <2>3, <2>4
<1>2. BackupSpares(d)'
  BY DEF BackupSpares
<1>3. BackupRowIsTrue'
  <2>1. /\ DOMAIN backup_disk = DOMAIN backup_made /\ DOMAIN backup_disk' = DOMAIN backup_made'
        /\ \A id : id \in DOMAIN backup_made /\ backup_disk'[id] = "whole" <=> Backup!Whole(id)'
    BY BackupMadeIs DEF BackupIInv, Backup!TypeOK, Backup!Whole
  <2>2. \A id : Backup!Whole(id) => Backup!Whole(id)'
    BY <2>1 DEF Backup!Whole
  <2> QED
    BY <2>1, <2>2 DEF BackupIInv, BackupRowIsTrue, Backup!drilling
<1>4. BackupOneServed'
  BY DEF BackupOneServed
<1>5. ASSUME NEW c \in backup_Drills PROVE BackupDrillIs(c)'
  <2>1. BackupDrillIs(c) /\ backup_drill' = backup_drill /\ backup_drills' = backup_drills
          /\ backup_restored' = backup_restored
    BY DEF BackupIInv, Backup!drilling
  <2>2. ASSUME backup_drill[c].at \in {"staged", "restored"},
               backup_row.check.id = backup_drill[c].id
        PROVE  /\ Backup!Whole(backup_drill[c].archive)'
               /\ backup_job'[backup_made[backup_drill[c].archive].by].at # "retaining"
    <3>1. Backup!Whole(backup_drill[c].archive)
            /\ backup_job[backup_made[backup_drill[c].archive].by].at # "retaining"
      BY <2>1, <2>2 DEF BackupDrillIs
    <3>2. backup_drill[c].archive \in DOMAIN backup_made
            /\ backup_made[backup_drill[c].archive].by \in backup_Destinations
      BY <3>1, BackupMadeIs DEF Backup!Whole, BackupIInv
    <3>3. DOMAIN backup_disk' = DOMAIN backup_made
            /\ backup_disk'[backup_drill[c].archive] = "whole"
      BY <3>1, <3>2 DEF Backup!Whole, Backup!TypeOK
    <3> QED
      BY <3>1, <3>2, <3>3 DEF Backup!Whole, Backup!drilling
  <2> QED
    BY <2>1, <2>2 DEF BackupDrillIs
<1>6. BackupDrillsDiffer'
  BY DEF BackupIInv, BackupDrillsDiffer, Backup!drilling
<1> QED
  BY <1>1, <1>2, <1>3, <1>4, <1>5, <1>6 DEF BackupIInv

\* The steps of a worker.
LEMMA BackupWorkerRests ==
  ASSUME BackupIInv, NEW d \in backup_Destinations, Backup!Prepare(d) \/ Backup!Crash(d)
  PROVE  BackupIInv'
<1>1. /\ backup_job \in [backup_Destinations -> Backup!Job] /\ backup_row \in Backup!Row
      /\ UNCHANGED <<backup_now, backup_row, backup_made, backup_disk, backup_sessions,
                     Backup!drilling>>
  BY DEF BackupIInv, Backup!TypeOK, Backup!Prepare, Backup!Crash
<1>2. \E j \in Backup!Job : /\ j.at \in {"idle", "ready"} /\ j.id = Backup!NoId
                            /\ backup_job' = [backup_job EXCEPT ![d] = j]
  <2>1. Backup!Idle \in Backup!Job /\ Backup!Idle.at = "idle" /\ Backup!Idle.id = Backup!NoId
    BY DEF Backup!Idle, Backup!Job, Backup!NoRow, Backup!Row, Backup!NoAttempt,
       Backup!NoCheck, Backup!Attempt, Backup!Check, Backup!Outcomes, Backup!NoId
  <2>2. [at |-> "ready", id |-> Backup!NoId, seen |-> backup_row] \in Backup!Job
    BY <1>1 DEF Backup!Job, Backup!NoId
  <2> QED
    BY <2>1, <2>2 DEF Backup!Prepare, Backup!Crash, Backup!Rests
<1>3. PICK j \in Backup!Job : /\ j.at \in {"idle", "ready"} /\ j.id = Backup!NoId
                              /\ backup_job' = [backup_job EXCEPT ![d] = j]
  BY <1>2
<1>4. Backup!TypeOK'
  BY <1>1, <1>3 DEF BackupIInv, Backup!TypeOK, Backup!drilling
<1>5. BackupJobIs(d)' /\ backup_job'[d].at # "retaining"
  BY <1>1, <1>3 DEF BackupJobIs, BackupAttempting
<1> QED
  BY <1>1, <1>3, <1>4, <1>5, BackupWorkerKeeps DEF BackupIInv, BackupOneServed

\* A dump begins, grows, is published and is read back.
LEMMA BackupWorkerDumps ==
  ASSUME BackupIInv, NEW d \in backup_Destinations, Backup!DumpBegins(d) \/ Backup!Publish(d)
           \/ Backup!PublishManifest(d) \/ Backup!Fail(d)
  PROVE  BackupIInv'
<1> DEFINE id == backup_job[d].id
<1>1. /\ backup_job \in [backup_Destinations -> Backup!Job]
           /\ backup_disk \in [DOMAIN backup_made -> Backup!Contents]
      /\ UNCHANGED <<backup_now, backup_row, backup_made, Backup!drilling>> /\ BackupJobIs(d)
           /\ backup_sessions \subseteq {backup_row.attempt.id}
  BY DEF BackupIInv, Backup!TypeOK, Backup!DumpBegins, Backup!Publish,
     Backup!PublishManifest, Backup!Fail, BackupOneServed
<1>2. backup_job[d].at \in {"started", "dumping", "published"}
  BY DEF Backup!DumpBegins, Backup!Publish, Backup!PublishManifest, Backup!Fail
<1>3. id \in DOMAIN backup_made /\ backup_made[id].by = d /\ backup_row.attempt.id = id
        /\ backup_disk[id] # "whole"
  BY <1>1, <1>2 DEF BackupJobIs, BackupAttempting
<1>4. \E phase \in {"dumping", "published", "succeeded", "failing"}, c \in Backup!Contents :
        /\ backup_job' = [backup_job EXCEPT ![d].at = phase]
             /\ backup_disk' = [backup_disk EXCEPT ![id] = c]
        /\ phase = "dumping" => c = "partial"
        /\ phase = "published" => c = "published"
        /\ phase = "succeeded" => c = "whole"
        /\ backup_sessions' \subseteq {backup_row.attempt.id}
  <2>1. CASE Backup!DumpBegins(d)
    BY <1>1, <1>3, <2>1 DEF Backup!DumpBegins, Backup!Goes, Backup!Contents
  <2>2. CASE Backup!Publish(d)
    BY <1>1, <1>3, <2>2 DEF Backup!Publish, Backup!Goes, Backup!Contents
  <2>3. CASE Backup!PublishManifest(d)
    BY <1>1, <1>3, <2>3 DEF Backup!PublishManifest, Backup!Goes, Backup!Contents
  <2>4. CASE Backup!Fail(d)
    <3>1. backup_disk' = [backup_disk EXCEPT ![id] = backup_disk[id]]
            /\ backup_disk[id] \in Backup!Contents
      BY <1>1, <1>3, <2>4 DEF Backup!Fail
    <3> QED
      BY <1>1, <2>4, <3>1 DEF Backup!Fail, Backup!Goes
  <2> QED
    BY <2>1, <2>2, <2>3, <2>4
<1>5. PICK phase \in {"dumping", "published", "succeeded", "failing"}, c \in Backup!Contents :
        /\ backup_job' = [backup_job EXCEPT ![d].at = phase]
             /\ backup_disk' = [backup_disk EXCEPT ![id] = c]
        /\ phase = "dumping" => c = "partial"
        /\ phase = "published" => c = "published"
        /\ phase = "succeeded" => c = "whole"
        /\ backup_sessions' \subseteq {backup_row.attempt.id}
  BY <1>4
<1>6. /\ backup_job'[d] \in Backup!Job /\ backup_job'[d].at = phase /\ backup_job'[d].id = id
           /\ backup_job' \in [backup_Destinations -> Backup!Job]
      /\ \A e \in backup_Destinations : e # d => backup_job'[e] = backup_job[e]
  BY <1>1, <1>5 DEF Backup!Job
<1>7. Backup!TypeOK'
  BY <1>1, <1>5, <1>6 DEF BackupIInv, Backup!TypeOK, Backup!drilling
<1>8. backup_disk'[id] = c /\ \A i \in DOMAIN backup_made : i # id
        => backup_disk'[i] = backup_disk[i]
  BY <1>1, <1>3, <1>5
<1>9. BackupJobIs(d)' /\ backup_job'[d].at # "retaining"
  BY <1>1, <1>2, <1>3, <1>5, <1>6, <1>8 DEF BackupJobIs, BackupAttempting
<1> HIDE DEF id
<1> QED
  BY <1>1, <1>3, <1>5, <1>6, <1>7, <1>8, <1>9, BackupWorkerKeeps

\* The row may say that the attempt has ended, one way or the other.
LEMMA BackupAttemptChanges ==
  ASSUME backup_row \in Backup!Row, NEW s \in Backup!Outcomes, NEW id \in Nat
  PROVE  /\ [backup_row EXCEPT !.attempt.status = s] \in Backup!Row
         /\ [backup_row EXCEPT !.attempt.blocked = TRUE] \in Backup!Row
         /\ [backup_row EXCEPT !.attempt.status = s, !.success = id] \in Backup!Row
BY DEF Backup!Row, Backup!Attempt

\* An attempt is recorded as succeeded or failed, or its worker dies.
LEMMA BackupWorkerEnds ==
  ASSUME BackupIInv, NEW d \in backup_Destinations, Backup!Finish(d) \/ Backup!Settle(d)
  PROVE  BackupIInv'
<1> DEFINE id == backup_job[d].id
<1>1. /\ backup_job \in [backup_Destinations -> Backup!Job]
           /\ backup_disk \in [DOMAIN backup_made -> Backup!Contents]
           /\ backup_row \in Backup!Row
      /\ UNCHANGED <<backup_now, backup_made, Backup!drilling>> /\ BackupJobIs(d)
           /\ backup_sessions \subseteq {backup_row.attempt.id}
      /\ id \in Nat
  BY DEF BackupIInv, Backup!TypeOK, Backup!Finish, Backup!Settle, BackupOneServed,
     Backup!Job
<1>2. backup_job[d].at \in {"succeeded", "failing"}
  BY DEF Backup!Finish, Backup!Settle
<1>3. id \in DOMAIN backup_made /\ backup_made[id].by = d /\ backup_row.attempt.id = id
      /\ (backup_job[d].at = "succeeded" => backup_disk[id] = "whole")
  BY <1>1, <1>2 DEF BackupJobIs, BackupAttempting
<1>4. Backup!Idle \in Backup!Job /\ Backup!Idle.at = "idle" /\ Backup!Idle.id = Backup!NoId
  BY DEF Backup!Idle, Backup!Job, Backup!NoRow, Backup!Row, Backup!NoAttempt,
     Backup!NoCheck, Backup!Attempt, Backup!Check, Backup!Outcomes, Backup!NoId
<1>5. /\ \/ backup_job' = [backup_job EXCEPT ![d].at = "told"]
              \/ backup_job' = [backup_job EXCEPT ![d] = Backup!Idle]
      /\ backup_sessions' \subseteq backup_sessions
      /\ \/ backup_row' = backup_row
         \/ backup_row' = [backup_row EXCEPT !.attempt.status = "succeeded", !.success = id]
              /\ backup_disk[id] = "whole"
         \/ backup_row' = [backup_row EXCEPT !.attempt.status = "failed"]
      /\ \E c \in Backup!Contents : backup_disk' = [backup_disk EXCEPT ![id] = c]
           /\ (backup_disk[id] = "whole" => c = "whole")
  <2>1. CASE Backup!Finish(d)
    <3>1. backup_disk' = [backup_disk EXCEPT ![id] = backup_disk[id]]
            /\ backup_disk[id] \in Backup!Contents
      BY <1>1, <1>3, <2>1 DEF Backup!Finish
    <3>2. backup_disk[id] = "whole"
      BY <1>3, <2>1 DEF Backup!Finish
    <3> QED
      BY <2>1, <3>1, <3>2 DEF Backup!Finish, Backup!Succeeded, Backup!Rests
  <2>2. CASE Backup!Settle(d)
    <3>1. backup_disk' = [backup_disk EXCEPT ![id] = IF @ = "partial" THEN "none" ELSE @]
      BY <2>2 DEF Backup!Settle
    <3>2. (IF backup_disk[id] = "partial" THEN "none" ELSE backup_disk[id]) \in Backup!Contents
      BY <1>1, <1>3 DEF Backup!Contents
    <3> QED
      BY <2>2, <3>1, <3>2 DEF Backup!Settle, Backup!Rests
  <2> QED
    BY <2>1, <2>2
<1>6. PICK c \in Backup!Contents : backup_disk' = [backup_disk EXCEPT ![id] = c]
        /\ (backup_disk[id] = "whole" => c = "whole")
  BY <1>5
<1>7. /\ backup_job'[d] \in Backup!Job /\ backup_job'[d].at \in {"told", "idle"}
      /\ (backup_job'[d].at = "told" => backup_job'[d].id = id)
           /\ (backup_job'[d].at = "idle" => backup_job'[d].id = Backup!NoId)
      /\ backup_job' \in [backup_Destinations -> Backup!Job]
      /\ \A e \in backup_Destinations : e # d => backup_job'[e] = backup_job[e]
  BY <1>1, <1>4, <1>5 DEF Backup!Job
<1>8. /\ backup_row' \in Backup!Row /\ backup_row'.check = backup_row.check
           /\ backup_row'.verified = backup_row.verified
      /\ backup_row'.attempt.id = backup_row.attempt.id
      /\ backup_row'.success = backup_row.success
           \/ (backup_row'.success = id /\ backup_disk[id] = "whole")
  <2>1. {"succeeded", "failed"} \subseteq Backup!Outcomes
    BY DEF Backup!Outcomes
  <2> HIDE DEF id
  <2>2. CASE backup_row' = backup_row
    BY <1>1, <2>2
  <2>3. CASE backup_row' = [backup_row EXCEPT !.attempt.status = "succeeded", !.success = id]
               /\ backup_disk[id] = "whole"
    BY <1>1, <2>1, <2>3, BackupAttemptChanges DEF Backup!Row, Backup!Attempt
  <2>4. CASE backup_row' = [backup_row EXCEPT !.attempt.status = "failed"]
    BY <1>1, <2>1, <2>4, BackupAttemptChanges DEF Backup!Row, Backup!Attempt
  <2> QED
    BY <1>5, <2>2, <2>3, <2>4
<1>9. Backup!TypeOK'
  BY <1>1, <1>6, <1>7, <1>8 DEF BackupIInv, Backup!TypeOK, Backup!drilling
<1>10. backup_disk'[id] = c /\ \A i \in DOMAIN backup_made : i # id
         => backup_disk'[i] = backup_disk[i]
  BY <1>1, <1>3, <1>6
<1>11. BackupJobIs(d)' /\ backup_job'[d].at # "retaining"
         /\ backup_job[d].at \in BackupAttempting
  BY <1>1, <1>2, <1>3, <1>7 DEF BackupJobIs, BackupAttempting
<1> HIDE DEF id
<1> QED
  BY <1>1, <1>3, <1>5, <1>6, <1>7, <1>8, <1>9, <1>10, <1>11, BackupWorkerKeeps

\* A new attempt is made under a number of its own, when none may still run.
LEMMA BackupAttemptStarts ==
  ASSUME BackupIInv, NEW d \in backup_Destinations, Backup!Start(d)
  PROVE  BackupIInv'
<1> DEFINE id == Len(backup_made) + 1
<1>1. /\ backup_job \in [backup_Destinations -> Backup!Job] /\ backup_row \in Backup!Row
           /\ backup_now \in Nat
      /\ backup_made \in Seq([at : Nat, by : backup_Destinations])
           /\ backup_disk \in [DOMAIN backup_made -> Backup!Contents]
      /\ UNCHANGED <<backup_now, backup_sessions, Backup!drilling>>
           /\ backup_job[d].at = "ready"
      /\ backup_sessions \subseteq {backup_row.attempt.id} /\ BackupJobIs(d) /\ Backup!TypeOK
  BY DEF BackupIInv, Backup!TypeOK, Backup!Start, BackupOneServed
<1>2. /\ Len(backup_made) \in Nat /\ DOMAIN backup_made = 1..Len(backup_made)
           /\ Backup!NoId \notin DOMAIN backup_made
      /\ \A i \in DOMAIN backup_made : backup_made[i].at \in Nat
           /\ backup_made[i].by \in backup_Destinations
      /\ DOMAIN backup_disk = DOMAIN backup_made
  BY <1>1, BackupMadeIs
<1>3. Backup!Idle \in Backup!Job /\ Backup!Idle.at = "idle" /\ Backup!Idle.id = Backup!NoId
        /\ Backup!NoRow \in Backup!Row
  BY DEF Backup!Idle, Backup!Job, Backup!NoRow, Backup!Row, Backup!NoAttempt,
     Backup!NoCheck, Backup!Attempt, Backup!Check, Backup!Outcomes, Backup!NoId
<1>4. CASE Backup!Rests(d) /\ UNCHANGED <<backup_row, backup_made, backup_disk>>
  <2>1. /\ backup_job' = [backup_job EXCEPT ![d] = Backup!Idle]
        /\ UNCHANGED <<backup_now, backup_row, backup_made, backup_disk, Backup!drilling,
                       backup_sessions>>
    BY <1>1, <1>4 DEF Backup!Rests
  <2>2. Backup!TypeOK'
    BY <1>1, <1>3, <2>1 DEF BackupIInv, Backup!TypeOK, Backup!drilling
  <2>3. BackupJobIs(d)' /\ backup_job'[d].at # "retaining"
    BY <1>1, <1>3, <2>1 DEF BackupJobIs, BackupAttempting
  <2> QED
    BY <1>1, <2>1, <2>2, <2>3, BackupWorkerKeeps
<1>5. CASE /\ Backup!Due /\ backup_row.attempt.id \notin backup_sessions
           /\ backup_row' = [backup_row EXCEPT !.attempt =
                               [id |-> id, status |-> "running", blocked |-> FALSE]]
           /\ backup_made' = Append(backup_made, [at |-> backup_now, by |-> d])
           /\ backup_disk' = Append(backup_disk, "none")
           /\ backup_job' \in {[backup_job EXCEPT ![d] = j] :
                                 j \in {[at |-> "started", id |-> id, seen |-> Backup!NoRow],
                                        Backup!Idle}}
  <2>1. PICK j \in {[at |-> "started", id |-> id, seen |-> Backup!NoRow], Backup!Idle} :
            backup_job' = [backup_job EXCEPT ![d] = j]
    BY <1>5
  <2>2. /\ j \in Backup!Job /\ ((j.at = "started" /\ j.id = id)
                                \/ (j.at = "idle" /\ j.id = Backup!NoId))
    BY <1>2, <1>3, <2>1 DEF Backup!Job
  <2>3. /\ backup_job' \in [backup_Destinations -> Backup!Job] /\ backup_job'[d] = j
        /\ \A e \in backup_Destinations : e # d => backup_job'[e] = backup_job[e]
    BY <1>1, <2>1, <2>2
  <2>4. /\ backup_made' \in Seq([at : Nat, by : backup_Destinations]) /\ Len(backup_made') = id
             /\ id \in Nat
        /\ DOMAIN backup_made' = 1..id
        /\ backup_made'[id].at = backup_now /\ backup_made'[id].by = d
             /\ id \in DOMAIN backup_made'
        /\ \A i \in DOMAIN backup_made : backup_made'[i] = backup_made[i]
             /\ i \in DOMAIN backup_made' /\ i # id
    <3>1. [at |-> backup_now, by |-> d] \in [at : Nat, by : backup_Destinations]
      BY <1>1
    <3> QED
      BY <1>1, <1>2, <1>5, <3>1, AppendProperties, LenProperties
  <2>5. /\ backup_disk' \in [DOMAIN backup_made' -> Backup!Contents]
             /\ backup_disk'[id] = "none"
        /\ \A i \in DOMAIN backup_made : backup_disk'[i] = backup_disk[i]
    <3>1. backup_disk \in Seq(Backup!Contents) /\ Len(backup_disk) = Len(backup_made)
            /\ "none" \in Backup!Contents
      <4>1. Len(backup_made) \in Nat /\ backup_disk \in [1..Len(backup_made) -> Backup!Contents]
        BY <1>1, <1>2, LenProperties
      <4>2. backup_disk \in Seq(Backup!Contents)
        BY <4>1, SeqDef
      <4> QED
        BY <4>1, <4>2, LenProperties DEF Backup!Contents
    <3>2. backup_disk' \in Seq(Backup!Contents) /\ Len(backup_disk') = id
            /\ backup_disk'[id] = "none"
          /\ \A i \in 1..Len(backup_disk) : backup_disk'[i] = backup_disk[i]
      BY <1>5, <3>1, AppendProperties
    <3>3. backup_disk' \in [1..id -> Backup!Contents]
      BY <3>2, LenProperties, ElementOfSeq
    <3> QED
      BY <1>2, <2>4, <3>1, <3>2, <3>3
  <2>6. /\ backup_row' \in Backup!Row /\ backup_row'.attempt.id = id
             /\ backup_row'.attempt.status = "running"
        /\ backup_row'.success = backup_row.success
             /\ backup_row'.verified = backup_row.verified
             /\ backup_row'.check = backup_row.check
    BY <1>1, <1>2, <1>5, <2>4 DEF Backup!Row, Backup!Attempt, Backup!Outcomes
  <2> HIDE DEF id
  <2>7. Backup!TypeOK'
    BY <1>1, <2>3, <2>4, <2>5, <2>6 DEF BackupIInv, Backup!TypeOK, Backup!drilling
  <2>8. ASSUME NEW e \in backup_Destinations PROVE BackupJobIs(e)' /\ BackupSpares(e)'
    <3>1. CASE e = d
      <4>1. BackupJobIs(d)'
        <5>1. CASE j.at = "idle" /\ j.id = Backup!NoId
          BY <2>3, <5>1 DEF BackupJobIs, BackupAttempting
        <5>2. CASE j.at = "started" /\ j.id = id
          <6>1. backup_now <= backup_made'[id].at + backup_Timeout /\ backup_made'[id].by = d
                  /\ id \in DOMAIN backup_made'
            BY <1>1, <2>4, BackupAssumption
          <6>2. UNCHANGED backup_now
            BY <1>1
          <6> QED
            BY <2>3, <2>5, <2>6, <5>2, <6>1, <6>2 DEF BackupJobIs
        <5> QED
          BY <2>2, <5>1, <5>2
      <4>2. backup_job'[d].at # "retaining"
        BY <2>2, <2>3
      <4> QED
        BY <3>1, <4>1, <4>2 DEF BackupSpares
    <3>2. CASE e # d
      <4>1. BackupJobIs(e) /\ BackupSpares(e) /\ backup_job'[e] = backup_job[e]
        BY <2>3, <3>2 DEF BackupIInv
      <4>2. backup_job[e].at \notin BackupAttempting
        <5> SUFFICES ASSUME backup_job[e].at \in BackupAttempting PROVE FALSE
          OBVIOUS
        <5>1. /\ backup_job[e].id \in DOMAIN backup_made
                   /\ backup_row.attempt.id = backup_job[e].id
              /\ backup_row.attempt.status = "running"
                   /\ backup_now <= backup_made[backup_job[e].id].at + backup_Timeout
          BY <4>1 DEF BackupJobIs, BackupAttempting
        <5>2. backup_made[backup_job[e].id].at \in Nat
                /\ backup_made[backup_job[e].id].at + backup_Timeout < backup_now
          BY <1>2, <1>5, <5>1 DEF Backup!Due
        <5> HIDE DEF BackupAttempting
        <5> QED
          BY <1>1, <5>1, <5>2, BackupAssumption
      <4>3. BackupJobIs(e)'
        BY <1>1, <2>4, <2>5, <4>1, <4>2 DEF BackupJobIs, BackupAttempting
      <4>4. ASSUME backup_job[e].at = "retaining",
                   NEW i \in {backup_row.success, backup_row.verified},
                   i \in DOMAIN backup_made',
                   backup_made'[i].by = e
            PROVE  i \in {backup_job[e].seen.success, backup_job[e].seen.verified}
        <5>1. i \in DOMAIN backup_made
          <6>1. i # Backup!NoId
            BY <2>4, <4>4, <1>2 DEF Backup!NoId
          <6> QED
            BY <6>1, <4>4, <1>2 DEF BackupIInv, BackupRowIsTrue, Backup!Whole
        <5> QED
          BY <4>1, <4>4, <5>1, <2>4 DEF BackupSpares
      <4>5. BackupSpares(e)'
        BY <2>6, <4>1, <4>4 DEF BackupSpares
      <4> QED
        BY <4>3, <4>5
    <3> QED
      BY <3>1, <3>2
  <2>9. \A i : Backup!Whole(i) => /\ i \in DOMAIN backup_made /\ i \in DOMAIN backup_made' /\ backup_disk'[i] = "whole"
                                  /\ i \in DOMAIN backup_disk'
                                       /\ backup_made'[i].by = backup_made[i].by
                                  /\ backup_made[i].by \in backup_Destinations
    BY <1>2, <2>4, <2>5 DEF Backup!Whole
  <2>10. BackupRowIsTrue'
    BY <1>1, <2>6, <2>9 DEF BackupIInv, BackupRowIsTrue, Backup!Whole, Backup!drilling
  <2>11. BackupOneServed'
    BY <1>1, <1>5 DEF BackupOneServed
  <2>12. ASSUME NEW c \in backup_Drills PROVE BackupDrillIs(c)'
    <3>1. BackupDrillIs(c) /\ backup_drill' = backup_drill /\ backup_drills' = backup_drills
            /\ backup_restored' = backup_restored
      BY <1>1 DEF BackupIInv, Backup!drilling
    <3>2. ASSUME backup_drill[c].at \in {"staged", "restored"},
                 backup_row.check.id = backup_drill[c].id
          PROVE  /\ backup_drill[c].archive \in DOMAIN backup_disk'
                      /\ backup_disk'[backup_drill[c].archive] = "whole"
                 /\ backup_job'[backup_made'[backup_drill[c].archive].by].at # "retaining"
      <4>1. Backup!Whole(backup_drill[c].archive)
              /\ backup_job[backup_made[backup_drill[c].archive].by].at # "retaining"
        BY <3>1, <3>2 DEF BackupDrillIs
      <4>2. backup_job'[backup_made[backup_drill[c].archive].by].at # "retaining"
        BY <2>2, <2>3, <2>9, <4>1
      <4> QED
        BY <2>9, <4>1, <4>2
    <3> QED
      BY <2>6, <3>1, <3>2 DEF BackupDrillIs, Backup!Whole
  <2>13. BackupDrillsDiffer'
    BY <1>1 DEF BackupIInv, BackupDrillsDiffer, Backup!drilling
  <2> QED
    BY <2>7, <2>8, <2>10, <2>11, <2>12, <2>13 DEF BackupIInv
<1> QED
  BY <1>4, <1>5 DEF Backup!Start

\* The server ends a dump whose client is gone; time passes.
LEMMA BackupSurroundingsMove ==
  ASSUME BackupIInv, Backup!Tick \/ \E id \in backup_sessions : Backup!SessionEnds(id)
  PROVE  BackupIInv'
<1>1. /\ UNCHANGED <<backup_row, backup_made, backup_disk, backup_job, Backup!drilling>>
           /\ backup_sessions' \subseteq backup_sessions /\ Backup!TypeOK
      /\ backup_now' \in Nat
  BY DEF BackupIInv, Backup!TypeOK, Backup!Tick, Backup!SessionEnds, Backup!files
<1>2. Backup!TypeOK'
  BY <1>1 DEF BackupIInv, Backup!TypeOK, Backup!drilling
<1>3. ASSUME NEW d \in backup_Destinations PROVE BackupJobIs(d)' /\ BackupSpares(d)'
  <2>1. BackupJobIs(d) /\ BackupSpares(d)
    BY DEF BackupIInv
  <2>2. backup_job[d].at \in BackupAttempting
          => backup_now' <= backup_made[backup_job[d].id].at + backup_Timeout
    <3> SUFFICES ASSUME backup_job[d].at \in BackupAttempting
                 PROVE  backup_now' <= backup_made[backup_job[d].id].at + backup_Timeout
      OBVIOUS
    <3>1. /\ backup_job[d].id \in DOMAIN backup_made
               /\ backup_now <= backup_made[backup_job[d].id].at + backup_Timeout
      BY <2>1 DEF BackupJobIs, BackupAttempting
    <3>2. backup_made[backup_job[d].id].at \in Nat /\ backup_job[d].id # Backup!NoId
            /\ backup_now \in Nat
      BY <1>1, <3>1, BackupMadeIs DEF Backup!TypeOK
    <3>3. Backup!Tick => backup_now < backup_made[backup_job[d].id].at + backup_Timeout
            /\ backup_now' = backup_now + 1
      BY <3>2 DEF Backup!Tick
    <3>4. ~Backup!Tick => backup_now' = backup_now
      BY DEF Backup!SessionEnds
    <3> QED
      BY <3>1, <3>2, <3>3, <3>4, BackupAssumption
  <2>3. BackupJobIs(d)'
    BY <1>1, <2>1, <2>2 DEF BackupJobIs
  <2>4. BackupSpares(d)'
    BY <1>1, <2>1 DEF BackupSpares
  <2> QED
    BY <2>3, <2>4
<1>4. BackupRowIsTrue' /\ BackupOneServed'
  BY <1>1 DEF BackupIInv, BackupRowIsTrue, BackupOneServed, Backup!Whole, Backup!drilling
<1>5. ASSUME NEW c \in backup_Drills PROVE BackupDrillIs(c)'
  BY <1>1 DEF BackupIInv, BackupDrillIs, Backup!Whole, Backup!drilling
<1>6. BackupDrillsDiffer'
  BY <1>1 DEF BackupIInv, BackupDrillsDiffer, Backup!drilling
<1> QED
  BY <1>2, <1>3, <1>4, <1>5, <1>6 DEF BackupIInv

\* Retention is proven from the row, or blocked.
LEMMA BackupRetentionIsProven ==
  ASSUME BackupIInv, NEW d \in backup_Destinations, Backup!Prove(d)
  PROVE  BackupIInv'
<1>1. /\ backup_job \in [backup_Destinations -> Backup!Job] /\ backup_row \in Backup!Row
           /\ backup_disk \in [DOMAIN backup_made -> Backup!Contents]
      /\ backup_job[d].at = "told"
           /\ UNCHANGED <<backup_now, backup_made, backup_disk, backup_sessions,
                          Backup!drilling>>
      /\ BackupJobIs(d) /\ backup_sessions \subseteq {backup_row.attempt.id}
  BY DEF BackupIInv, Backup!TypeOK, Backup!Prove, BackupOneServed
<1>2. CASE Backup!Proven(d) /\ backup_job' =
             [backup_job EXCEPT ![d].at = "retaining", ![d].seen = backup_row]
               /\ UNCHANGED backup_row
  <2>1. /\ backup_job' \in [backup_Destinations -> Backup!Job]
             /\ backup_job'[d].at = "retaining" /\ backup_job'[d].id = backup_job[d].id
        /\ backup_job'[d].seen = backup_row
        /\ \A e \in backup_Destinations : e # d => backup_job'[e] = backup_job[e]
    <3> DEFINE j == [backup_job[d] EXCEPT !.at = "retaining", !.seen = backup_row]
    <3>1. backup_job' = [backup_job EXCEPT ![d] = j]
      BY <1>1, <1>2 DEF Backup!Job
    <3>2. j \in Backup!Job /\ j.at = "retaining" /\ j.id = backup_job[d].id
            /\ j.seen = backup_row
      BY <1>1 DEF Backup!Job
    <3> HIDE DEF j
    <3> QED
      BY <1>1, <3>1, <3>2
  <2>2. Backup!TypeOK'
    BY <1>1, <1>2, <2>1 DEF BackupIInv, Backup!TypeOK, Backup!drilling
  <2>3. ASSUME NEW e \in backup_Destinations PROVE BackupJobIs(e)' /\ BackupSpares(e)'
    <3>1. BackupJobIs(e)'
      BY <1>1, <1>2, <2>1 DEF BackupIInv, BackupJobIs, BackupAttempting
    <3>2. BackupSpares(e)'
      BY <1>1, <1>2, <2>1 DEF BackupIInv, BackupSpares
    <3> QED
      BY <3>1, <3>2
  <2>4. BackupRowIsTrue' /\ BackupOneServed'
    BY <1>1, <1>2 DEF BackupIInv, BackupRowIsTrue, BackupOneServed, Backup!Whole,
       Backup!drilling
  <2>5. backup_row.check.status = "succeeded"
    BY <1>2 DEF Backup!Proven
  <2>6. ASSUME NEW c \in backup_Drills PROVE BackupDrillIs(c)'
    <3>1. BackupDrillIs(c) /\ backup_drill' = backup_drill /\ backup_drills' = backup_drills
            /\ backup_restored' = backup_restored
      BY <1>1 DEF BackupIInv, Backup!drilling
    <3>2. backup_drill[c].at \in {"staged", "restored"}
            => backup_row.check.id # backup_drill[c].id
      BY <2>5, <3>1 DEF BackupDrillIs
    <3> QED
      BY <1>1, <1>2, <3>1, <3>2 DEF BackupDrillIs
  <2>7. BackupDrillsDiffer'
    BY <1>1 DEF BackupIInv, BackupDrillsDiffer, Backup!drilling
  <2> QED
    BY <2>2, <2>3, <2>4, <2>6, <2>7 DEF BackupIInv
<1>3. CASE Backup!Rests(d) /\ backup_row' \in {backup_row,
                                               [backup_row EXCEPT !.attempt.blocked = TRUE]}
  <2>1. Backup!Idle \in Backup!Job /\ Backup!Idle.at = "idle" /\ Backup!Idle.id = Backup!NoId
    BY DEF Backup!Idle, Backup!Job, Backup!NoRow, Backup!Row, Backup!NoAttempt,
       Backup!NoCheck, Backup!Attempt, Backup!Check, Backup!Outcomes, Backup!NoId
  <2>2. /\ backup_row' \in Backup!Row /\ backup_row'.check = backup_row.check
             /\ backup_row'.verified = backup_row.verified
        /\ backup_row'.attempt.id = backup_row.attempt.id
             /\ backup_row'.success = backup_row.success
        /\ backup_row'.attempt.status = backup_row.attempt.status
    <3>1. CASE backup_row' = backup_row
      BY <1>1, <3>1
    <3>2. CASE backup_row' = [backup_row EXCEPT !.attempt.blocked = TRUE]
      BY <1>1, <3>2 DEF Backup!Row, Backup!Attempt
    <3> QED
      BY <1>3, <3>1, <3>2
  <2>3. backup_job' = [backup_job EXCEPT ![d] = Backup!Idle]
    BY <1>3 DEF Backup!Rests
  <2>4. Backup!TypeOK'
    BY <1>1, <2>1, <2>2, <2>3 DEF BackupIInv, Backup!TypeOK, Backup!drilling
  <2>5. BackupJobIs(d)' /\ backup_job'[d].at # "retaining"
    BY <1>1, <2>1, <2>3 DEF BackupJobIs, BackupAttempting
  <2> QED
    BY <1>1, <2>1, <2>2, <2>3, <2>4, <2>5, BackupWorkerKeeps
<1> QED
  BY <1>2, <1>3 DEF Backup!Prove

\* Retention spares what the row names, whatever the row was when it began.
LEMMA BackupRetentionSpares ==
  ASSUME BackupIInv, NEW d \in backup_Destinations, Backup!Remove(d)
  PROVE  BackupIInv'
<1>1. /\ backup_job \in [backup_Destinations -> Backup!Job] /\ backup_row \in Backup!Row
           /\ backup_disk \in [DOMAIN backup_made -> Backup!Contents]
      /\ backup_job[d].at = "retaining"
           /\ UNCHANGED <<backup_now, backup_row, backup_made, backup_sessions,
                          Backup!drilling>>
      /\ BackupJobIs(d) /\ BackupSpares(d) /\ backup_sessions \subseteq {backup_row.attempt.id}
      /\ backup_job' = [backup_job EXCEPT ![d] = Backup!Idle]
  BY DEF BackupIInv, Backup!TypeOK, Backup!Remove, Backup!RemoveAll, BackupOneServed,
     Backup!Rests
<1>2. Backup!Idle \in Backup!Job /\ Backup!Idle.at = "idle" /\ Backup!Idle.id = Backup!NoId
  BY DEF Backup!Idle, Backup!Job, Backup!NoRow, Backup!Row, Backup!NoAttempt,
     Backup!NoCheck, Backup!Attempt, Backup!Check, Backup!Outcomes, Backup!NoId
<1>3. PICK gone \in SUBSET (Backup!Expired(d) \ {backup_job[d].seen.success,
                                                 backup_job[d].seen.verified,
                                                 Backup!Newest(d)}),
           torn \in BOOLEAN :
        backup_disk' = [id \in DOMAIN backup_disk |->
                          IF id \notin gone THEN backup_disk[id]
                          ELSE IF torn /\ \A other \in gone : other <= id THEN "torn"
                            ELSE "none"]
  BY DEF Backup!Remove, Backup!RemoveAll
<1>4. /\ backup_disk' \in [DOMAIN backup_made -> Backup!Contents]
      /\ \A id \in DOMAIN backup_made : id \notin gone => backup_disk'[id] = backup_disk[id]
  BY <1>1, <1>3 DEF Backup!Contents
<1>5. \A id \in gone : /\ id \in DOMAIN backup_made /\ backup_made[id].by = d
                       /\ id \notin {backup_job[d].seen.success, backup_job[d].seen.verified}
  BY <1>3 DEF Backup!Expired, Backup!At
<1>6. Backup!TypeOK'
  BY <1>1, <1>2, <1>4 DEF BackupIInv, Backup!TypeOK, Backup!drilling
<1>7. ASSUME NEW e \in backup_Destinations PROVE BackupJobIs(e)' /\ BackupSpares(e)'
  <2>1. CASE e = d
    BY <1>1, <1>2, <2>1 DEF BackupJobIs, BackupSpares, BackupAttempting
  <2>2. CASE e # d
    <3>1. BackupJobIs(e) /\ BackupSpares(e) /\ backup_job'[e] = backup_job[e]
      BY <1>1, <2>2 DEF BackupIInv
    <3>2. backup_job[e].at \notin {"idle", "ready"}
            => backup_disk'[backup_job[e].id] = backup_disk[backup_job[e].id]
      BY <1>4, <1>5, <2>2, <3>1 DEF BackupJobIs
    <3> QED
      BY <1>1, <3>1, <3>2 DEF BackupJobIs, BackupSpares, BackupAttempting
  <2> QED
    BY <2>1, <2>2
<1>8. \A id \in {backup_row.success, backup_row.verified} : id # Backup!NoId
        => id \notin gone /\ id \in DOMAIN backup_made
  BY <1>1, <1>5 DEF BackupSpares, BackupIInv, BackupRowIsTrue, Backup!Whole
<1>9. BackupRowIsTrue'
  BY <1>1, <1>4, <1>8 DEF BackupIInv, BackupRowIsTrue, Backup!Whole, Backup!drilling
<1>10. BackupOneServed'
  BY <1>1 DEF BackupOneServed
<1>11. ASSUME NEW c \in backup_Drills PROVE BackupDrillIs(c)'
  <2>1. BackupDrillIs(c) /\ backup_drill' = backup_drill /\ backup_drills' = backup_drills
          /\ backup_restored' = backup_restored
    BY <1>1 DEF BackupIInv, Backup!drilling
  <2>2. ASSUME backup_drill[c].at \in {"staged", "restored"},
               backup_row.check.id = backup_drill[c].id
        PROVE  /\ backup_drill[c].archive \in DOMAIN backup_disk'
                    /\ backup_disk'[backup_drill[c].archive] = "whole"
               /\ backup_job'[backup_made[backup_drill[c].archive].by].at # "retaining"
    <3>1. Backup!Whole(backup_drill[c].archive)
            /\ backup_job[backup_made[backup_drill[c].archive].by].at # "retaining"
      BY <2>1, <2>2 DEF BackupDrillIs
    <3>2. backup_drill[c].archive \in DOMAIN backup_made
            /\ backup_disk[backup_drill[c].archive] = "whole"
          /\ backup_made[backup_drill[c].archive].by \in backup_Destinations
      BY <3>1, BackupMadeIs DEF Backup!Whole, BackupIInv
    <3>3. backup_made[backup_drill[c].archive].by # d
      BY <1>1, <3>1
    <3>4. backup_drill[c].archive \notin gone
      BY <1>5, <3>3
    <3> QED
      BY <1>1, <1>4, <3>1, <3>2, <3>3, <3>4
  <2> QED
    BY <1>1, <2>1, <2>2 DEF BackupDrillIs, Backup!Whole
<1>12. BackupDrillsDiffer'
  BY <1>1 DEF BackupIInv, BackupDrillsDiffer, Backup!drilling
<1> QED
  BY <1>6, <1>7, <1>9, <1>10, <1>11, <1>12 DEF BackupIInv

\* A step of one drill that leaves the archives alone.
LEMMA BackupDrillKeeps ==
  ASSUME BackupIInv, Backup!TypeOK', UNCHANGED <<backup_now, Backup!files>>,
         backup_row'.attempt = backup_row.attempt, backup_row'.success = backup_row.success,
         NEW c \in backup_Drills, BackupDrillIs(c)',
         \A b \in backup_Drills : b # c => backup_drill'[b] = backup_drill[b],
         backup_drills' >= backup_drills, backup_restored \subseteq backup_restored',
         backup_row'.check.id \in 0..backup_drills',
         \/ backup_row'.check = backup_row.check
         \/ backup_row'.check.id = backup_drill[c].id /\ backup_drill[c].at # "idle",
         \/ backup_row'.verified = backup_row.verified
         \/ /\ Backup!Whole(backup_row'.verified) /\ backup_row'.verified \in backup_restored'
            /\ backup_job[backup_made[backup_row'.verified].by].at # "retaining",
         backup_drill'[c].at # "idle" =>
            \/ backup_drill'[c].id = backup_drill[c].id /\ backup_drill[c].at # "idle"
            \/ backup_drill'[c].id = backup_drills + 1
  PROVE  BackupIInv'
<1>1. UNCHANGED <<backup_made, backup_disk, backup_job, backup_sessions>>
  BY DEF Backup!files
<1>2. ASSUME NEW d \in backup_Destinations PROVE BackupJobIs(d)' /\ BackupSpares(d)'
  <2>1. BackupJobIs(d)'
    BY <1>1 DEF BackupIInv, BackupJobIs
  <2>2. BackupSpares(d)'
    BY <1>1 DEF BackupIInv, BackupSpares
  <2> QED
    BY <2>1, <2>2
<1>3. BackupRowIsTrue'
  BY <1>1 DEF BackupIInv, BackupRowIsTrue, Backup!Whole
<1>4. BackupOneServed'
  BY <1>1 DEF BackupIInv, BackupOneServed
<1>5. ASSUME NEW b \in backup_Drills, b # c PROVE BackupDrillIs(b)'
  <2>1. BackupDrillIs(b) /\ backup_drill'[b] = backup_drill[b] /\ backup_drills \in Nat
          /\ backup_drills' \in Nat
    BY <1>5 DEF BackupIInv, Backup!TypeOK
  <2>2. backup_drill[b].at # "idle"
          => backup_drill[b].id \in 1..backup_drills' /\ backup_drill[b].archive # Backup!NoId
    BY <2>1 DEF BackupDrillIs
  <2>3. backup_drill[b].at # "idle" /\ backup_row'.check.id = backup_drill[b].id
          => backup_row'.check = backup_row.check
    BY <1>5, <2>1 DEF BackupIInv, BackupDrillsDiffer
  <2>4. backup_drill[b].at = "restored" => backup_drill[b].archive \in backup_restored'
    BY <2>1 DEF BackupDrillIs
  <2>5. backup_drill[b].at = "selected" => backup_row'.check.id # backup_drill[b].id
    BY <2>1, <2>3 DEF BackupDrillIs
  <2> QED
    BY <1>1, <2>1, <2>2, <2>3, <2>4, <2>5 DEF BackupDrillIs, Backup!Whole
<1>6. BackupDrillsDiffer'
  <2>1. \A b \in backup_Drills : backup_drill[b].at # "idle"
          => backup_drill[b].id \in 1..backup_drills
    BY DEF BackupIInv, BackupDrillIs
  <2>2. backup_drills \in Nat
    BY DEF BackupIInv, Backup!TypeOK
  <2>3. ASSUME NEW b \in backup_Drills, b # c, backup_drill'[b].at # "idle",
               backup_drill'[c].at # "idle"
        PROVE  backup_drill'[b].id # backup_drill'[c].id
    BY <2>1, <2>2, <2>3 DEF BackupIInv, BackupDrillsDiffer
  <2> QED
    BY <2>3 DEF BackupIInv, BackupDrillsDiffer
<1> QED
  BY <1>2, <1>3, <1>4, <1>5, <1>6 DEF BackupIInv

\* The steps of a drill.
LEMMA BackupDrillSelects ==
  ASSUME BackupIInv, NEW c \in backup_Drills, Backup!Select(c)
  PROVE  BackupIInv'
<1> DEFINE k == [at |-> "selected", id |-> backup_drills + 1, archive |-> backup_row.success]
<1>1. /\ backup_drill \in [backup_Drills -> Backup!Drill] /\ backup_drills \in Nat
           /\ backup_row \in Backup!Row /\ backup_row.check.id \in 0..backup_drills
      /\ backup_drills' = backup_drills + 1 /\ backup_drill' = [backup_drill EXCEPT ![c] = k]
           /\ backup_row.success # Backup!NoId
      /\ UNCHANGED <<backup_now, backup_row, Backup!files, backup_restored>>
  BY DEF BackupIInv, Backup!TypeOK, Backup!Select, BackupRowIsTrue
<1>2. k \in Backup!Drill
  BY <1>1 DEF Backup!Drill, Backup!Row
<1>3. Backup!TypeOK'
  BY <1>1, <1>2 DEF BackupIInv, Backup!TypeOK, Backup!files
<1>4. BackupDrillIs(c)'
  BY <1>1 DEF BackupDrillIs
<1>5. backup_drill'[c] = k /\ \A b \in backup_Drills : b # c
        => backup_drill'[b] = backup_drill[b]
  BY <1>1
<1> QED
  BY <1>1, <1>3, <1>4, <1>5, BackupDrillKeeps

\* A drill is recorded as running, if its archive is still there.
LEMMA BackupDrillStarts ==
  ASSUME BackupIInv, NEW c \in backup_Drills, Backup!ReportStart(c)
  PROVE  BackupIInv'
<1> DEFINE check == [id |-> backup_drill[c].id, archive |-> backup_drill[c].archive,
                     status |-> "running"]
<1>1. /\ backup_drill \in [backup_Drills -> Backup!Drill] /\ backup_drills \in Nat
           /\ backup_row \in Backup!Row
      /\ backup_row' = [backup_row EXCEPT !.check = check] /\ backup_drill[c].at = "selected"
           /\ BackupDrillIs(c)
      /\ UNCHANGED <<backup_now, Backup!files, backup_drills, backup_restored>>
  BY DEF BackupIInv, Backup!TypeOK, Backup!ReportStart
<1>2. /\ backup_row' \in Backup!Row /\ backup_row'.attempt = backup_row.attempt
           /\ backup_row'.success = backup_row.success
      /\ backup_row'.verified = backup_row.verified /\ backup_row'.check = check
  BY <1>1 DEF Backup!Row, Backup!Check, Backup!Drill, Backup!Outcomes
<1>3. \/ backup_drill' = [backup_drill EXCEPT ![c].at = "started"]
      \/ backup_drill' = [backup_drill EXCEPT ![c] = Backup!NoDrill]
  BY DEF Backup!ReportStart
<1>4. Backup!NoDrill \in Backup!Drill /\ Backup!NoDrill.at = "idle"
  BY DEF Backup!NoDrill, Backup!Drill, Backup!NoId
<1>5. /\ backup_drill' \in [backup_Drills -> Backup!Drill] /\ \A b \in backup_Drills : b # c
           => backup_drill'[b] = backup_drill[b]
      /\ backup_drill'[c].at \in {"idle", "started"}
      /\ backup_drill'[c].at = "started" => backup_drill'[c].id = backup_drill[c].id
                                            /\ backup_drill'[c].archive =
                                                 backup_drill[c].archive
  BY <1>1, <1>3, <1>4 DEF Backup!Drill
<1>6. Backup!TypeOK'
  BY <1>1, <1>2, <1>5 DEF BackupIInv, Backup!TypeOK, Backup!files
<1>7. backup_drill[c].id \in 1..backup_drills /\ backup_drill[c].archive # Backup!NoId
  BY <1>1 DEF BackupDrillIs
<1>8. BackupDrillIs(c)'
  BY <1>1, <1>2, <1>5, <1>7 DEF BackupDrillIs
<1>9. backup_row'.check.id = backup_drill[c].id /\ backup_row'.check.id \in 0..backup_drills'
  BY <1>1, <1>2, <1>7
<1> QED
  BY <1>1, <1>2, <1>5, <1>6, <1>8, <1>9, BackupDrillKeeps

\* A drill stages its archive and restores it.
LEMMA BackupDrillStages ==
  ASSUME BackupIInv, NEW c \in backup_Drills, Backup!Restore(c)
           \/ \E d \in backup_Destinations : Backup!Stage(c, d)
  PROVE  BackupIInv'
<1>1. /\ backup_drill \in [backup_Drills -> Backup!Drill] /\ backup_drills \in Nat
           /\ backup_row \in Backup!Row /\ backup_row.check.id \in 0..backup_drills
      /\ UNCHANGED <<backup_now, backup_row, Backup!files, backup_drills>> /\ BackupDrillIs(c)
           /\ backup_drill[c].at \in {"started", "staged"}
  BY DEF BackupIInv, Backup!TypeOK, Backup!Restore, Backup!Stage, BackupRowIsTrue
<1>2. \E to \in {"staged", "restored", "failed"} :
        /\ backup_drill' = [backup_drill EXCEPT ![c].at = to]
        /\ backup_restored' = backup_restored
             \/ backup_restored' = backup_restored \cup {backup_drill[c].archive}
        /\ to = "staged" => /\ Backup!Whole(backup_drill[c].archive)
                            /\ backup_job[backup_made[backup_drill[c].archive].by].at = "idle"
        /\ to = "restored" => backup_drill[c].at = "staged"
             /\ backup_drill[c].archive \in backup_restored'
  <2>1. CASE Backup!Restore(c)
    BY <2>1 DEF Backup!Restore
  <2>2. CASE \E d \in backup_Destinations : Backup!Stage(c, d)
    BY <2>2 DEF Backup!Stage, Backup!At
  <2> QED
    BY <2>1, <2>2
<1>3. PICK to \in {"staged", "restored", "failed"} :
        /\ backup_drill' = [backup_drill EXCEPT ![c].at = to]
        /\ backup_restored' = backup_restored
             \/ backup_restored' = backup_restored \cup {backup_drill[c].archive}
        /\ to = "staged" => /\ Backup!Whole(backup_drill[c].archive)
                            /\ backup_job[backup_made[backup_drill[c].archive].by].at = "idle"
        /\ to = "restored" => backup_drill[c].at = "staged"
             /\ backup_drill[c].archive \in backup_restored'
  BY <1>2
<1>4. /\ backup_drill' \in [backup_Drills -> Backup!Drill] /\ \A b \in backup_Drills : b # c
           => backup_drill'[b] = backup_drill[b]
      /\ backup_drill'[c].at = to /\ backup_drill'[c].id = backup_drill[c].id
           /\ backup_drill'[c].archive = backup_drill[c].archive
  BY <1>1, <1>3 DEF Backup!Drill
<1>5. Backup!TypeOK'
  BY <1>1, <1>4 DEF BackupIInv, Backup!TypeOK, Backup!files
<1>6. BackupDrillIs(c)'
  <2>1. backup_drill[c].id \in 1..backup_drills /\ backup_drill[c].archive # Backup!NoId
    BY <1>1 DEF BackupDrillIs
  <2>2. backup_row.check.id = backup_drill[c].id => backup_row.check.status = "running"
    BY <1>1 DEF BackupDrillIs
  <2>3. /\ to \in {"staged", "restored"} /\ backup_row.check.id = backup_drill[c].id
        => Backup!Whole(backup_drill[c].archive)
          /\ backup_job[backup_made[backup_drill[c].archive].by].at # "retaining"
    BY <1>1, <1>3 DEF BackupDrillIs
  <2> QED
    BY <1>1, <1>3, <1>4, <2>1, <2>2, <2>3 DEF BackupDrillIs, Backup!Whole, Backup!files
<1> QED
  BY <1>1, <1>3, <1>4, <1>5, <1>6, BackupDrillKeeps

\* A drill records what it found.
LEMMA BackupDrillReports ==
  ASSUME BackupIInv, NEW c \in backup_Drills, Backup!Report(c)
  PROVE  BackupIInv'
<1>1. /\ backup_drill \in [backup_Drills -> Backup!Drill] /\ backup_drills \in Nat
           /\ backup_row \in Backup!Row /\ backup_row.check.id \in 0..backup_drills
      /\ UNCHANGED <<backup_now, Backup!files, backup_drills, backup_restored>>
           /\ BackupDrillIs(c)
      /\ backup_drill[c].at \in {"restored", "failed"}
      /\ backup_drill' = [backup_drill EXCEPT ![c] = Backup!NoDrill]
  BY DEF BackupIInv, Backup!TypeOK, Backup!Report, BackupRowIsTrue
<1>2. Backup!NoDrill \in Backup!Drill /\ Backup!NoDrill.at = "idle"
  BY DEF Backup!NoDrill, Backup!Drill, Backup!NoId
<1>3. backup_drill[c].archive \in Nat
  BY <1>1 DEF Backup!Drill
<1>4. \/ backup_row' = backup_row
      \/ /\ backup_row.check.id = backup_drill[c].id /\ backup_drill[c].at = "restored"
         /\ backup_row' = [backup_row EXCEPT !.check.status = "succeeded",
                                             !.verified = backup_drill[c].archive]
      \/ /\ backup_row.check.id = backup_drill[c].id
         /\ backup_row' = [backup_row EXCEPT !.check.status = "failed"]
  BY DEF Backup!Report
<1>5. /\ backup_row' \in Backup!Row /\ backup_row'.attempt = backup_row.attempt
           /\ backup_row'.success = backup_row.success
      /\ backup_row'.check.id = backup_row.check.id
      /\ backup_row'.check = backup_row.check \/ backup_row.check.id = backup_drill[c].id
      /\ \/ backup_row'.verified = backup_row.verified
         \/ /\ backup_row'.verified = backup_drill[c].archive
            /\ backup_row.check.id = backup_drill[c].id /\ backup_drill[c].at = "restored"
  <2>1. CASE backup_row' = backup_row
    BY <1>1, <2>1
  <2>2. CASE /\ backup_row.check.id = backup_drill[c].id /\ backup_drill[c].at = "restored"
             /\ backup_row' = [backup_row EXCEPT !.check.status = "succeeded",
                                                 !.verified = backup_drill[c].archive]
    BY <1>1, <1>3, <2>2 DEF Backup!Row, Backup!Check, Backup!Outcomes
  <2>3. CASE /\ backup_row.check.id = backup_drill[c].id
             /\ backup_row' = [backup_row EXCEPT !.check.status = "failed"]
    BY <1>1, <2>3 DEF Backup!Row, Backup!Check, Backup!Outcomes
  <2> QED
    BY <1>4, <2>1, <2>2, <2>3
<1>6. /\ backup_drill' \in [backup_Drills -> Backup!Drill] /\ backup_drill'[c].at = "idle"
      /\ \A b \in backup_Drills : b # c => backup_drill'[b] = backup_drill[b]
  BY <1>1, <1>2
<1>7. Backup!TypeOK'
  BY <1>1, <1>5, <1>6 DEF BackupIInv, Backup!TypeOK, Backup!files
<1>8. BackupDrillIs(c)'
  BY <1>6 DEF BackupDrillIs
<1>9. \/ backup_row'.verified = backup_row.verified
      \/ /\ Backup!Whole(backup_row'.verified) /\ backup_row'.verified \in backup_restored'
         /\ backup_job[backup_made[backup_row'.verified].by].at # "retaining"
  BY <1>1, <1>5 DEF BackupDrillIs
<1> QED
  BY <1>1, <1>5, <1>6, <1>7, <1>8, <1>9, BackupDrillKeeps

\* Every step keeps the invariant.
LEMMA BackupInvariantKept == BackupIInv /\ [Backup!Next]_backupVars => BackupIInv'
<1>1. ASSUME BackupIInv, NEW d \in backup_Destinations,
             \/ Backup!Prepare(d) \/ Backup!Start(d) \/ Backup!DumpBegins(d)
                  \/ Backup!Publish(d) \/ Backup!PublishManifest(d)
             \/ Backup!Finish(d) \/ Backup!Fail(d) \/ Backup!Settle(d) \/ Backup!Crash(d)
                  \/ Backup!Prove(d) \/ Backup!Remove(d)
      PROVE  BackupIInv'
  BY <1>1, BackupWorkerRests, BackupWorkerDumps, BackupWorkerEnds, BackupAttemptStarts,
     BackupRetentionIsProven, BackupRetentionSpares
<1>2. ASSUME BackupIInv, NEW c \in backup_Drills,
             \/ Backup!Select(c) \/ Backup!ReportStart(c) \/ Backup!Restore(c)
                  \/ Backup!Report(c)
             \/ \E d \in backup_Destinations : Backup!Stage(c, d)
      PROVE  BackupIInv'
  BY <1>2, BackupDrillSelects, BackupDrillStarts, BackupDrillStages, BackupDrillReports
<1>3. ASSUME BackupIInv, UNCHANGED backupVars PROVE BackupIInv'
  BY <1>3 DEF backupVars, BackupIInv, Backup!TypeOK, BackupJobIs, BackupSpares,
     BackupRowIsTrue, BackupOneServed, BackupDrillIs, BackupDrillsDiffer,
     Backup!Whole
<1> QED
  BY <1>1, <1>2, <1>3, BackupSurroundingsMove DEF Backup!Next


\* The invariant of this service, whenever it is the one that acts.
LEMMA BackupInvariant == CustodySpec => [](custody = "backup" => BackupIInv)
<1>1. CustodyInit => (custody = "backup" => BackupIInv)
  BY BackupInvariantInitially DEF CustodyInit
<1>2. (custody = "backup" => BackupIInv) /\ [CustodyNext]_custodyVars
        => (custody = "backup" => BackupIInv)'
  BY BackupInvariantKept DEF CustodyNext, custodyVars
<1> QED
  BY <1>1, <1>2, PTL DEF CustodySpec

-----------------------------------------------------------------------------
(***************************************************************************)
(* The cutover of a restored database (DatabaseCutover).                   *)
(***************************************************************************)

\* A run that has begun and has not ended.
CutoverWorking(r) == cutover_step[r] \notin {"idle", "done", "killed"}

\* Only the run that holds the lock is at work.
CutoverOneWorks ==
  /\ \A r \in cutover_Runs : CutoverWorking(r) => cutover_restoring = r

\* The candidate of a run, where its steps need it: restored, it is whole.
CutoverCandidateIs(r) ==
  /\ cutover_step[r] \in {"created", "restored", "migrated", "suspended"}
       => Cutover!Exists(Cutover!New(r))
  /\ cutover_step[r] \in {"restored", "migrated", "suspended", "vacant"}
       /\ Cutover!Exists(Cutover!New(r))
       => cutover_databases[Cutover!New(r)].whole

\* The live database while a run replaces it.
CutoverLiveIs(r) ==
  /\ cutover_step[r] = "suspended"
       => Cutover!Exists(Cutover!Live) /\ ~cutover_databases[Cutover!Live].active
  /\ cutover_step[r] = "swapped" => Cutover!Exists(Cutover!Live)

\* What has been kept was whole, and is suspended.
CutoverKeptIs(r) == Cutover!Exists(Cutover!Old(r))
  => cutover_databases[Cutover!Old(r)].whole /\ ~cutover_databases[Cutover!Old(r)].active

\* The original, what has the live name, and when nothing has.
CutoverOriginal == \E n \in Cutover!Names : (\A q \in cutover_Runs : n # Cutover!New(q))
  /\ Cutover!Exists(n) /\ cutover_databases[n].of = 0
CutoverLiveIsWhole == Cutover!Exists(Cutover!Live) => cutover_databases[Cutover!Live].whole
CutoverVacantIsKnown == Cutover!Exists(Cutover!Live) \/ cutover_told
  \/ \E r \in cutover_Runs : cutover_step[r] \in {"vacant", "swapfailing"}

CutoverIInv == /\ Cutover!TypeOK
               /\ CutoverOneWorks
               /\ \A r \in cutover_Runs : CutoverCandidateIs(r) /\ CutoverLiveIs(r)
                    /\ CutoverKeptIs(r)
               /\ CutoverOriginal
               /\ CutoverLiveIsWhole
               /\ CutoverVacantIsKnown

\* The invariant says that the original is kept.
LEMMA CutoverKeptOriginals == CutoverIInv => Cutover!OriginalIsKept
  BY DEF CutoverIInv, CutoverOriginal, CutoverLiveIsWhole, CutoverVacantIsKnown,
     CutoverKeptIs, Cutover!OriginalIsKept

\* The names of databases are different from one another.
LEMMA CutoverNamesDiffer ==
  ASSUME NEW r \in cutover_Runs, NEW q \in cutover_Runs
  PROVE  /\ Cutover!Live # Cutover!New(r) /\ Cutover!Live # Cutover!Old(r)
              /\ Cutover!New(r) # Cutover!Old(q)
         /\ r # q => Cutover!New(r) # Cutover!New(q) /\ Cutover!Old(r) # Cutover!Old(q)
         /\ Cutover!Live \in Cutover!Names /\ Cutover!New(r) \in Cutover!Names
              /\ Cutover!Old(r) \in Cutover!Names
  BY DEF Cutover!Live, Cutover!New, Cutover!Old, Cutover!Names

\* A name is the live one, or one of a run's.
LEMMA CutoverNameIs ==
  ASSUME NEW n \in Cutover!Names
  PROVE  n = Cutover!Live \/ \E r \in cutover_Runs : n = Cutover!New(r) \/ n = Cutover!Old(r)
  BY DEF Cutover!Names

\* At first there is the live database, whole, and no run.
LEMMA CutoverInvariantInitially == ASSUME Cutover!Init PROVE CutoverIInv
<1>1. Cutover!Holding(0, TRUE, TRUE) \in Cutover!Database
  BY DEF Cutover!Holding, Cutover!Database
<1>2. Cutover!TypeOK
  BY <1>1 DEF Cutover!Init, Cutover!TypeOK, Cutover!Steps
<1>3. Cutover!Exists(Cutover!Live) /\ cutover_databases[Cutover!Live].of = 0
        /\ cutover_databases[Cutover!Live].whole
  BY CutoverAssumption, <1>1 DEF Cutover!Init, Cutover!Exists, Cutover!Names,
     Cutover!Holding
<1>4. \A r \in cutover_Runs : ~Cutover!Exists(Cutover!Old(r))
  BY CutoverNamesDiffer DEF Cutover!Init, Cutover!Exists
<1>5. Cutover!Live \in Cutover!Names /\ \A r \in cutover_Runs : Cutover!Live # Cutover!New(r)
  BY CutoverNamesDiffer DEF Cutover!Names
<1>6. CutoverOriginal /\ CutoverLiveIsWhole /\ CutoverVacantIsKnown
  BY <1>3, <1>5 DEF CutoverOriginal, CutoverLiveIsWhole, CutoverVacantIsKnown
<1> QED
  BY <1>2, <1>3, <1>4, <1>6 DEF CutoverIInv, Cutover!Init, CutoverOneWorks,
     CutoverWorking, CutoverCandidateIs, CutoverLiveIs, CutoverKeptIs

\* What a name holds.
LEMMA CutoverDatabaseIs ==
  ASSUME Cutover!TypeOK, NEW n \in Cutover!Names
  PROVE  /\ Cutover!Exists(n) <=> cutover_databases[n] \in Cutover!Database
         /\ Cutover!Exists(n) => /\ cutover_databases[n].of \in cutover_Runs \cup {0}
                                      /\ cutover_databases[n].whole \in BOOLEAN
                                 /\ cutover_databases[n].active \in BOOLEAN
  BY CutoverAssumption DEF Cutover!TypeOK, Cutover!Exists, Cutover!Database

\* Steps that leave every database as it is.
CutoverLeaves(r, to) ==
  /\ UNCHANGED cutover_databases
  /\ Cutover!Goes(r, to)
  /\ cutover_restoring' \in {cutover_restoring, r}
  /\ cutover_restoring # r
       => cutover_restoring = 0 /\ cutover_restoring' = r /\ cutover_step[r] = "idle"
  /\ UNCHANGED cutover_known /\ cutover_writers' \in BOOLEAN
  /\ cutover_told' \in BOOLEAN /\ (cutover_told => cutover_told')

\* They keep the invariant, if the step of the run that is reached may follow.
LEMMA CutoverLeavesKeeps ==
  ASSUME CutoverIInv, NEW r \in cutover_Runs, NEW to \in Cutover!Steps, CutoverLeaves(r, to),
         \/ to \in {"failing", "locked", "done", "killed"}
         \/ cutover_step[r] = "restored" /\ to = "migrated",
         cutover_step[r] \in {"vacant", "swapfailing"} => cutover_told'
  PROVE  CutoverIInv'
<1>1. Cutover!TypeOK'
  BY DEF CutoverIInv, Cutover!TypeOK, CutoverLeaves, Cutover!Goes
<1>2. cutover_step' = [cutover_step EXCEPT ![r] = to]
        /\ cutover_step \in [cutover_Runs -> Cutover!Steps]
  BY DEF CutoverLeaves, Cutover!Goes, CutoverIInv, Cutover!TypeOK
<1>3. CutoverOneWorks'
  BY <1>2, CutoverAssumption DEF CutoverIInv, CutoverOneWorks, CutoverWorking, CutoverLeaves
<1>4. \A n : Cutover!Exists(n)' <=> Cutover!Exists(n)
  BY DEF Cutover!Exists, CutoverLeaves
<1>5. ASSUME NEW q \in cutover_Runs
      PROVE  (CutoverCandidateIs(q) /\ CutoverLiveIs(q) /\ CutoverKeptIs(q))'
  BY <1>2, <1>4 DEF CutoverIInv, CutoverCandidateIs, CutoverLiveIs, CutoverKeptIs,
     CutoverLeaves, Cutover!New, Cutover!Old, Cutover!Live, Cutover!Exists
<1>6. CutoverOriginal'
  BY DEF CutoverIInv, CutoverOriginal, Cutover!Exists, CutoverLeaves, Cutover!New,
     Cutover!Names
<1>7. CutoverVacantIsKnown' /\ CutoverLiveIsWhole'
  BY <1>2 DEF CutoverIInv, CutoverVacantIsKnown, CutoverLiveIsWhole, CutoverLeaves,
     Cutover!Exists, Cutover!Live
<1> QED
  BY <1>1, <1>3, <1>5, <1>6, <1>7 DEF CutoverIInv

\* Steps that change what is kept under one name.
CutoverChanges(r, n, what) == cutover_databases' = [cutover_databases EXCEPT ![n] = what]

\* The candidate is created, restored, given up or dropped: no other name
\* changes.
LEMMA CutoverCandidateChanges ==
  ASSUME CutoverIInv, NEW r \in cutover_Runs, CutoverWorking(r), NEW to \in Cutover!Steps,
         NEW what \in Cutover!Database \cup {cutover_Absent},
         CutoverChanges(r, Cutover!New(r), what), Cutover!Goes(r, to),
         cutover_restoring' \in {cutover_restoring, 0}, cutover_restoring' = 0 => to = "done",
         UNCHANGED <<cutover_known, cutover_told>>, cutover_writers' \in BOOLEAN,
         cutover_step[r] \notin {"vacant", "swapfailing"},
         \/ to = "created" /\ what # cutover_Absent
         \/ to = "restored" /\ what # cutover_Absent /\ what.whole
         \/ to \in {"failing", "done"}
  PROVE  CutoverIInv'
<1>1. cutover_databases' = [cutover_databases EXCEPT ![Cutover!New(r)] = what]
        /\ cutover_step' = [cutover_step EXCEPT ![r] = to]
      /\ cutover_databases \in [Cutover!Names -> Cutover!Database \cup {cutover_Absent}]
           /\ cutover_step \in [cutover_Runs -> Cutover!Steps]
  BY DEF CutoverChanges, Cutover!Goes, CutoverIInv, Cutover!TypeOK
<1>2. Cutover!TypeOK'
  BY <1>1 DEF CutoverIInv, Cutover!TypeOK
<1>3. CutoverOneWorks'
  BY <1>1, CutoverAssumption DEF CutoverIInv, CutoverOneWorks, CutoverWorking
<1>4. /\ cutover_databases'[Cutover!New(r)] = what
      /\ \A n \in Cutover!Names : n # Cutover!New(r)
           => cutover_databases'[n] = cutover_databases[n]
  BY <1>1, CutoverNamesDiffer
<1>5. ASSUME NEW q \in cutover_Runs
      PROVE  (CutoverCandidateIs(q) /\ CutoverLiveIs(q) /\ CutoverKeptIs(q))'
  <2>1. /\ cutover_databases'[Cutover!Live] = cutover_databases[Cutover!Live]
             /\ cutover_databases'[Cutover!Old(q)] = cutover_databases[Cutover!Old(q)]
        /\ q # r => cutover_databases'[Cutover!New(q)] = cutover_databases[Cutover!New(q)]
             /\ cutover_step'[q] = cutover_step[q]
        /\ q = r => cutover_databases'[Cutover!New(q)] = what /\ cutover_step'[q] = to
    BY <1>1, <1>4, CutoverNamesDiffer
  <2>2. Cutover!Live' = Cutover!Live /\ Cutover!New(q)' = Cutover!New(q)
          /\ Cutover!Old(q)' = Cutover!Old(q)
    BY DEF Cutover!Live, Cutover!New, Cutover!Old
  <2> QED
    BY <2>1, <2>2 DEF CutoverIInv, CutoverCandidateIs, CutoverLiveIs, CutoverKeptIs,
       Cutover!Exists
<1>6. CutoverOriginal'
  <2>1. PICK n \in Cutover!Names : (\A q \in cutover_Runs : n # Cutover!New(q))
          /\ Cutover!Exists(n) /\ cutover_databases[n].of = 0
    BY DEF CutoverIInv, CutoverOriginal
  <2>2. cutover_databases'[n] = cutover_databases[n]
          /\ \A q \in cutover_Runs : n # Cutover!New(q)'
    BY <2>1, <1>4 DEF Cutover!New
  <2>3. n \in Cutover!Names'
    BY DEF Cutover!Names, Cutover!New, Cutover!Live, Cutover!Old
  <2> QED
    BY <2>1, <2>2, <2>3 DEF CutoverOriginal, Cutover!Exists
<1>7. CutoverVacantIsKnown' /\ CutoverLiveIsWhole'
  <2>1. cutover_databases'[Cutover!Live] = cutover_databases[Cutover!Live]
          /\ Cutover!Live' = Cutover!Live
    BY <1>4, CutoverNamesDiffer DEF Cutover!Live
  <2> QED
    BY <2>1, <1>1 DEF CutoverIInv, CutoverVacantIsKnown, CutoverLiveIsWhole, Cutover!Exists
<1> QED
  BY <1>2, <1>3, <1>5, <1>6, <1>7 DEF CutoverIInv

\* A rename moves what the name held.
LEMMA CutoverRenameMoves ==
  ASSUME Cutover!TypeOK, NEW from \in Cutover!Names, NEW to \in Cutover!Names, from # to,
         Cutover!Renamed(from, to)
  PROVE  /\ cutover_databases' \in [Cutover!Names -> Cutover!Database \cup {cutover_Absent}]
         /\ cutover_databases'[to] = cutover_databases[from]
              /\ cutover_databases'[from] = cutover_Absent
         /\ cutover_databases[from] \in Cutover!Database
              /\ cutover_databases[to] = cutover_Absent
         /\ \A n \in Cutover!Names : n # from /\ n # to
              => cutover_databases'[n] = cutover_databases[n]
BY DEF Cutover!TypeOK, Cutover!Renamed, Cutover!Exists

\* The live database takes the name under which it is kept.
LEMMA CutoverLiveIsKept ==
  ASSUME CutoverIInv, NEW r \in cutover_Runs, cutover_step[r] = "suspended",
         Cutover!Renamed(Cutover!Live, Cutover!Old(r)),
         NEW to \in {"vacant", "swapfailing"}, Cutover!Goes(r, to),
         cutover_known' \in [cutover_Runs -> SUBSET {"live", "replacement"}],
         UNCHANGED <<cutover_restoring, cutover_writers, cutover_told>>
  PROVE  CutoverIInv'
<1>1. /\ cutover_step' = [cutover_step EXCEPT ![r] = to]
           /\ cutover_step \in [cutover_Runs -> Cutover!Steps] /\ Cutover!TypeOK
           /\ to \in Cutover!Steps
  BY DEF Cutover!Goes, CutoverIInv, Cutover!TypeOK, Cutover!Steps
<1>2. /\ cutover_databases' \in [Cutover!Names -> Cutover!Database \cup {cutover_Absent}]
      /\ cutover_databases'[Cutover!Old(r)] = cutover_databases[Cutover!Live]
           /\ cutover_databases'[Cutover!Live] = cutover_Absent
      /\ cutover_databases[Cutover!Live] \in Cutover!Database
           /\ cutover_databases[Cutover!Old(r)] = cutover_Absent
      /\ \A n \in Cutover!Names : n # Cutover!Live /\ n # Cutover!Old(r)
           => cutover_databases'[n] = cutover_databases[n]
  BY <1>1, CutoverNamesDiffer, CutoverRenameMoves
<1>3. Cutover!TypeOK'
  BY <1>1, <1>2 DEF Cutover!TypeOK, Cutover!Names, Cutover!New, Cutover!Old,
     Cutover!Live, Cutover!Database, Cutover!Steps
<1>4. CutoverOneWorks'
  BY <1>1 DEF CutoverIInv, CutoverOneWorks, CutoverWorking
<1>5. Cutover!Live' = Cutover!Live /\ Cutover!Names' = Cutover!Names
        /\ \A q \in cutover_Runs : Cutover!New(q)' = Cutover!New(q)
        /\ Cutover!Old(q)' = Cutover!Old(q)
  BY DEF Cutover!Live, Cutover!New, Cutover!Old, Cutover!Names
<1>6. cutover_databases[Cutover!Live].whole /\ ~cutover_databases[Cutover!Live].active
  BY <1>2, CutoverAssumption DEF CutoverIInv, CutoverLiveIsWhole, CutoverLiveIs,
     Cutover!Exists
<1>7. ASSUME NEW q \in cutover_Runs
      PROVE  (CutoverCandidateIs(q) /\ CutoverLiveIs(q) /\ CutoverKeptIs(q))'
  <2>1. /\ cutover_databases'[Cutover!New(q)] = cutover_databases[Cutover!New(q)]
             /\ cutover_databases'[Cutover!Live] = cutover_Absent
        /\ q # r => cutover_databases'[Cutover!Old(q)] = cutover_databases[Cutover!Old(q)]
             /\ cutover_step'[q] = cutover_step[q]
        /\ q = r => cutover_databases'[Cutover!Old(q)] = cutover_databases[Cutover!Live]
             /\ cutover_step'[q] = to
    BY <1>1, <1>2, CutoverNamesDiffer
  <2>2. cutover_step[q] # "swapped" /\ (q # r => cutover_step[q] # "suspended")
    BY <1>1, CutoverAssumption DEF CutoverIInv, CutoverOneWorks, CutoverWorking
  <2> QED
    BY <1>5, <1>6, <2>1, <2>2 DEF CutoverIInv, CutoverCandidateIs, CutoverLiveIs,
       CutoverKeptIs, Cutover!Exists
<1>8. CutoverOriginal'
  <2>1. PICK n \in Cutover!Names : (\A q \in cutover_Runs : n # Cutover!New(q))
          /\ Cutover!Exists(n) /\ cutover_databases[n].of = 0
    BY DEF CutoverIInv, CutoverOriginal
  <2>2. CASE n = Cutover!Live
    BY <2>1, <2>2, <1>2, <1>5, CutoverNamesDiffer DEF CutoverOriginal, Cutover!Exists
  <2>3. CASE n # Cutover!Live
    <3>1. n # Cutover!Old(r)
      BY <2>1, <1>2 DEF Cutover!Exists
    <3> QED
      BY <2>1, <2>3, <3>1, <1>2, <1>5 DEF CutoverOriginal, Cutover!Exists
  <2> QED
    BY <2>2, <2>3
<1>9. CutoverVacantIsKnown' /\ CutoverLiveIsWhole'
  BY <1>1, <1>2, <1>5 DEF CutoverVacantIsKnown, CutoverLiveIsWhole, Cutover!Exists
<1> QED
  BY <1>3, <1>4, <1>7, <1>8, <1>9 DEF CutoverIInv

\* Something that is whole takes the live name, which is vacant: the candidate,
\* or what a run has kept.
LEMMA CutoverLiveIsTaken ==
  ASSUME CutoverIInv, NEW r \in cutover_Runs, NEW from \in {Cutover!New(r), Cutover!Old(r)},
         Cutover!Renamed(from, Cutover!Live),
         from = Cutover!New(r) => cutover_step[r] = "vacant",
         cutover_step' \in [cutover_Runs -> Cutover!Steps], \A q \in cutover_Runs : q # r
           => cutover_step'[q] = cutover_step[q],
         \/ cutover_step'[r] = cutover_step[r]
         \/ (cutover_step'[r] \in {"swapped", "swapfailing", "failing"} /\ CutoverWorking(r)),
         cutover_step'[r] = "swapfailing" => from = Cutover!New(r),
         cutover_known' \in [cutover_Runs -> SUBSET {"live", "replacement"}],
         UNCHANGED <<cutover_restoring, cutover_writers, cutover_told>>
  PROVE  CutoverIInv'
<1>1. Cutover!TypeOK
  BY DEF CutoverIInv
<1>2. /\ cutover_databases' \in [Cutover!Names -> Cutover!Database \cup {cutover_Absent}]
      /\ cutover_databases'[Cutover!Live] = cutover_databases[from]
           /\ cutover_databases'[from] = cutover_Absent
      /\ cutover_databases[from] \in Cutover!Database
           /\ cutover_databases[Cutover!Live] = cutover_Absent
      /\ \A n \in Cutover!Names : n # from /\ n # Cutover!Live
           => cutover_databases'[n] = cutover_databases[n]
  BY <1>1, CutoverNamesDiffer, CutoverRenameMoves
<1>3. Cutover!TypeOK'
  BY <1>1, <1>2 DEF Cutover!TypeOK, Cutover!Names, Cutover!New, Cutover!Old,
     Cutover!Live, Cutover!Database, Cutover!Steps
<1>4. CutoverOneWorks'
  BY DEF CutoverIInv, CutoverOneWorks, CutoverWorking
<1>5. Cutover!Live' = Cutover!Live /\ Cutover!Names' = Cutover!Names
        /\ \A q \in cutover_Runs : Cutover!New(q)' = Cutover!New(q)
        /\ Cutover!Old(q)' = Cutover!Old(q)
  BY DEF Cutover!Live, Cutover!New, Cutover!Old, Cutover!Names
<1>6. cutover_databases[from].whole
        /\ (from = Cutover!Old(r) => ~cutover_databases[from].active)
  BY <1>2, CutoverAssumption DEF CutoverIInv, CutoverCandidateIs, CutoverKeptIs,
     Cutover!Exists
<1>7. ASSUME NEW q \in cutover_Runs
      PROVE  (CutoverCandidateIs(q) /\ CutoverLiveIs(q) /\ CutoverKeptIs(q))'
  <2>1. /\ cutover_databases'[Cutover!New(q)] \in {cutover_databases[Cutover!New(q)],
                                                   cutover_Absent}
        /\ q # r => cutover_databases'[Cutover!New(q)] = cutover_databases[Cutover!New(q)]
        /\ cutover_databases'[Cutover!Old(q)] \in {cutover_databases[Cutover!Old(q)],
                                                   cutover_Absent}
        /\ from = Cutover!Old(r)
             => cutover_databases'[Cutover!New(q)] = cutover_databases[Cutover!New(q)]
    BY <1>2, CutoverNamesDiffer
  <2>2. cutover_step'[q] = cutover_step[q]
          \/ (q = r /\ cutover_step'[q] \in {"swapped", "swapfailing", "failing"})
    OBVIOUS
  <2>3. cutover_step[q] # "suspended"
    BY <1>2 DEF CutoverIInv, CutoverLiveIs, Cutover!Exists
  <2>4. CutoverCandidateIs(q)'
    BY <1>5, <2>1, <2>2 DEF CutoverIInv, CutoverCandidateIs, Cutover!Exists
  <2>5. CutoverKeptIs(q)'
    BY <1>5, <2>1 DEF CutoverIInv, CutoverKeptIs, Cutover!Exists
  <2>6. CutoverLiveIs(q)'
    BY <1>2, <1>5, <1>6, <2>2, <2>3, CutoverAssumption DEF CutoverLiveIs, Cutover!Exists
  <2> QED
    BY <2>4, <2>5, <2>6
<1>8. CutoverOriginal'
  <2>1. PICK n \in Cutover!Names : (\A q \in cutover_Runs : n # Cutover!New(q))
          /\ Cutover!Exists(n) /\ cutover_databases[n].of = 0
    BY DEF CutoverIInv, CutoverOriginal
  <2>2. n # Cutover!Live
    BY <2>1, <1>2 DEF Cutover!Exists
  <2>3. CASE n = from
    BY <2>1, <2>3, <1>2, <1>5, CutoverNamesDiffer DEF CutoverOriginal, Cutover!Exists
  <2>4. CASE n # from
    BY <2>1, <2>2, <2>4, <1>2, <1>5 DEF CutoverOriginal, Cutover!Exists
  <2> QED
    BY <2>3, <2>4
<1>9. CutoverVacantIsKnown' /\ CutoverLiveIsWhole'
  BY <1>2, <1>5, <1>6, CutoverAssumption DEF CutoverVacantIsKnown, CutoverLiveIsWhole,
     Cutover!Exists
<1> QED
  BY <1>3, <1>4, <1>7, <1>8, <1>9 DEF CutoverIInv

\* The workers of databases are suspended, or those of the live one resumed.
CutoverSame(d, e) == (d = cutover_Absent <=> e = cutover_Absent) /\ d.of = e.of
  /\ d.whole = e.whole

\* They keep the invariant, if the run needs no other activity where it is.
LEMMA CutoverOnlyActivityChanges ==
  ASSUME CutoverIInv, NEW r \in cutover_Runs, CutoverWorking(r),
         cutover_step[r] \notin {"vacant", "swapfailing"},
         cutover_databases' \in [Cutover!Names -> Cutover!Database \cup {cutover_Absent}],
         \A n \in Cutover!Names : CutoverSame(cutover_databases'[n], cutover_databases[n]),
         \A q \in cutover_Runs :
           cutover_databases'[Cutover!Old(q)] = cutover_databases[Cutover!Old(q)],
         NEW to \in Cutover!Steps, Cutover!Goes(r, to),
         to \in {"suspended", "ended", "failing"},
         to = "suspended" => cutover_step[r] = "migrated" /\ Cutover!Exists(Cutover!Live)
           /\ ~cutover_databases'[Cutover!Live].active,
         UNCHANGED <<cutover_restoring, cutover_known, cutover_writers, cutover_told>>
  PROVE  CutoverIInv'
<1>1. cutover_step' = [cutover_step EXCEPT ![r] = to]
        /\ cutover_step \in [cutover_Runs -> Cutover!Steps]
  BY DEF Cutover!Goes, CutoverIInv, Cutover!TypeOK
<1>2. Cutover!TypeOK'
  BY <1>1 DEF CutoverIInv, Cutover!TypeOK, Cutover!Names, Cutover!New, Cutover!Old,
     Cutover!Live, Cutover!Database, Cutover!Steps
<1>3. CutoverOneWorks'
  BY <1>1 DEF CutoverIInv, CutoverOneWorks, CutoverWorking
<1>4. Cutover!Live' = Cutover!Live /\ Cutover!Names' = Cutover!Names
        /\ \A q \in cutover_Runs : Cutover!New(q)' = Cutover!New(q)
        /\ Cutover!Old(q)' = Cutover!Old(q)
  BY DEF Cutover!Live, Cutover!New, Cutover!Old, Cutover!Names
<1>5. \A n \in Cutover!Names : /\ Cutover!Exists(n)' <=> Cutover!Exists(n)
                               /\ cutover_databases'[n].of = cutover_databases[n].of
                               /\ cutover_databases'[n].whole = cutover_databases[n].whole
  BY <1>4 DEF CutoverSame, Cutover!Exists
<1>6. ASSUME NEW q \in cutover_Runs
      PROVE  (CutoverCandidateIs(q) /\ CutoverLiveIs(q) /\ CutoverKeptIs(q))'
  <2>1. /\ Cutover!Exists(Cutover!New(q))' <=> Cutover!Exists(Cutover!New(q))
        /\ cutover_databases'[Cutover!New(q)].whole = cutover_databases[Cutover!New(q)].whole
        /\ Cutover!Exists(Cutover!Old(q))' <=> Cutover!Exists(Cutover!Old(q))
        /\ cutover_databases'[Cutover!Old(q)] = cutover_databases[Cutover!Old(q)]
        /\ Cutover!Exists(Cutover!Live)' <=> Cutover!Exists(Cutover!Live)
    BY <1>5, CutoverNamesDiffer
  <2>2. cutover_step'[q] = IF q = r THEN to ELSE cutover_step[q]
    BY <1>1
  <2>3. CutoverCandidateIs(q)'
    BY <1>4, <2>1, <2>2 DEF CutoverIInv, CutoverCandidateIs
  <2>4. CutoverKeptIs(q)'
    BY <1>4, <2>1 DEF CutoverIInv, CutoverKeptIs
  <2>5. q # r => cutover_step[q] # "suspended"
    BY CutoverAssumption DEF CutoverIInv, CutoverOneWorks, CutoverWorking
  <2>6. CutoverLiveIs(q)'
    BY <1>4, <2>1, <2>2, <2>5 DEF CutoverIInv, CutoverLiveIs
  <2> QED
    BY <2>3, <2>4, <2>6
<1>7. CutoverOriginal'
  <2>1. PICK n \in Cutover!Names : (\A q \in cutover_Runs : n # Cutover!New(q))
          /\ Cutover!Exists(n) /\ cutover_databases[n].of = 0
    BY DEF CutoverIInv, CutoverOriginal
  <2>2. Cutover!Exists(n)' /\ cutover_databases'[n].of = 0
          /\ \A q \in cutover_Runs : n # Cutover!New(q)'
    BY <2>1, <1>4, <1>5
  <2> QED
    BY <2>2, <1>4 DEF CutoverOriginal
<1>8. CutoverVacantIsKnown' /\ CutoverLiveIsWhole'
  <2>1. Cutover!Live \in Cutover!Names
    BY DEF Cutover!Names
  <2> QED
    BY <1>1, <1>4, <1>5, <2>1 DEF CutoverIInv, CutoverVacantIsKnown, CutoverLiveIsWhole
<1> QED
  BY <1>2, <1>3, <1>6, <1>7, <1>8 DEF CutoverIInv

\* The steps of a run.
LEMMA CutoverQuietMoves ==
  ASSUME CutoverIInv, NEW r \in cutover_Runs, Cutover!Begin(r) \/ Cutover!Migrate(r)
           \/ Cutover!Fail(r) \/ Cutover!Kill(r)
  PROVE  CutoverIInv'
<1>1. CASE Cutover!Begin(r)
  <2>1. CutoverLeaves(r, IF cutover_writers THEN "failing" ELSE "locked")
    BY <1>1 DEF Cutover!Begin, CutoverLeaves, CutoverIInv, Cutover!TypeOK
  <2> QED
    BY <1>1, <2>1, CutoverLeavesKeeps DEF Cutover!Begin, Cutover!Steps
<1>2. CASE Cutover!Migrate(r)
  <2>1. /\ CutoverLeaves(r, IF cutover_writers THEN "failing" ELSE "migrated")
             /\ cutover_step[r] = "restored"
    BY <1>2, CutoverAssumption DEF Cutover!Migrate, CutoverLeaves, CutoverIInv,
       Cutover!TypeOK, CutoverOneWorks, CutoverWorking
  <2> QED
    BY <2>1, CutoverLeavesKeeps DEF Cutover!Steps
<1>3. CASE Cutover!Fail(r)
  <2>1. CutoverLeaves(r, "failing")
          /\ cutover_step[r] \in {"locked", "restored", "migrated", "suspended"}
    BY <1>3, CutoverAssumption DEF Cutover!Fail, CutoverLeaves, CutoverIInv,
       Cutover!TypeOK, CutoverOneWorks, CutoverWorking
  <2> QED
    BY <2>1, CutoverLeavesKeeps DEF Cutover!Steps
<1>4. CASE Cutover!Kill(r)
  <2>1. CutoverLeaves(r, "killed") /\ cutover_told'
    BY <1>4, CutoverAssumption DEF Cutover!Kill, CutoverLeaves, CutoverIInv,
       Cutover!TypeOK, CutoverOneWorks, CutoverWorking
  <2> QED
    BY <2>1, CutoverLeavesKeeps DEF Cutover!Steps
<1> QED
  BY <1>1, <1>2, <1>3, <1>4

\* A run makes its candidate, restores it, or drops it.
LEMMA CutoverCandidateMoves ==
  ASSUME CutoverIInv, NEW r \in cutover_Runs, Cutover!Create(r) \/ Cutover!Restore(r)
           \/ Cutover!Finish(r)
  PROVE  CutoverIInv'
<1>1. CASE Cutover!Create(r)
  <2>1. Cutover!Holding(r, FALSE, TRUE) \in Cutover!Database
    BY DEF Cutover!Holding, Cutover!Database
  <2>2. /\ CutoverChanges(r, Cutover!New(r), Cutover!Holding(r, FALSE, TRUE))
             /\ Cutover!Goes(r, "created") /\ CutoverWorking(r)
        /\ cutover_step[r] \notin {"vacant", "swapfailing"}
        /\ UNCHANGED <<cutover_known, cutover_told>> /\ cutover_restoring' = cutover_restoring
             /\ cutover_writers' \in BOOLEAN
    BY <1>1 DEF Cutover!Create, CutoverChanges, CutoverWorking, CutoverIInv, Cutover!TypeOK
  <2>3. cutover_restoring # 0 /\ Cutover!Holding(r, FALSE, TRUE) # cutover_Absent
    BY <2>1, <2>2, CutoverAssumption DEF CutoverIInv, CutoverOneWorks
  <2> HIDE DEF CutoverIInv
  <2>4. "created" \in Cutover!Steps
          /\ Cutover!Holding(r, FALSE, TRUE) \in Cutover!Database \cup {cutover_Absent}
    BY <2>1 DEF Cutover!Steps
  <2> QED
    BY <2>2, <2>3, <2>4, CutoverCandidateChanges
<1>2. CASE Cutover!Restore(r)
  <2> DEFINE whole == [cutover_databases[Cutover!New(r)] EXCEPT !.whole = TRUE]
  <2>1. cutover_databases[Cutover!New(r)] \in Cutover!Database
    BY <1>2, CutoverNamesDiffer, CutoverDatabaseIs DEF Cutover!Restore,
       Cutover!RestoreAll, CutoverIInv, CutoverCandidateIs
  <2>2. whole \in Cutover!Database /\ whole.whole /\ whole # cutover_Absent
    BY <2>1, CutoverAssumption DEF Cutover!Database
  <2>3. /\ \/ CutoverChanges(r, Cutover!New(r), whole) /\ Cutover!Goes(r, "restored")
           \/ CutoverChanges(r, Cutover!New(r), cutover_Absent) /\ Cutover!Goes(r, "failing")
        /\ CutoverWorking(r) /\ cutover_step[r] \notin {"vacant", "swapfailing"}
        /\ UNCHANGED <<cutover_known, cutover_told>> /\ cutover_restoring' = cutover_restoring
             /\ cutover_writers' \in BOOLEAN
    BY <1>2 DEF Cutover!Restore, Cutover!RestoreAll, CutoverChanges, CutoverWorking,
       CutoverIInv, Cutover!TypeOK
  <2>4. cutover_restoring # 0
    BY <2>3, CutoverAssumption DEF CutoverIInv, CutoverOneWorks
  <2> HIDE DEF whole
  <2>5. CASE CutoverChanges(r, Cutover!New(r), whole) /\ Cutover!Goes(r, "restored")
    BY <2>2, <2>3, <2>4, <2>5, CutoverCandidateChanges DEF Cutover!Steps
  <2>6. CASE CutoverChanges(r, Cutover!New(r), cutover_Absent) /\ Cutover!Goes(r, "failing")
    BY <2>3, <2>4, <2>6, CutoverCandidateChanges DEF Cutover!Steps
  <2> QED
    BY <2>3, <2>5, <2>6
<1>3. CASE Cutover!Finish(r)
  <2>1. /\ Cutover!Goes(r, "done") /\ CutoverWorking(r)
             /\ cutover_step[r] \notin {"vacant", "swapfailing"}
        /\ UNCHANGED <<cutover_known, cutover_told>> /\ cutover_restoring' = 0
             /\ cutover_writers' \in BOOLEAN
    BY <1>3 DEF Cutover!Finish, CutoverWorking
  <2>2. CASE cutover_step[r] = "failing"
    <3>1. CutoverChanges(r, Cutover!New(r), cutover_Absent)
      BY <1>3, <2>2 DEF Cutover!Finish, CutoverChanges
    <3> QED
      BY <2>1, <3>1, CutoverCandidateChanges DEF Cutover!Steps
  <2>3. CASE cutover_step[r] # "failing"
    <3>1. cutover_databases \in [Cutover!Names -> Cutover!Database \cup {cutover_Absent}]
            /\ cutover_databases' = cutover_databases
      BY <1>3, <2>3 DEF Cutover!Finish, CutoverIInv, Cutover!TypeOK
    <3>2. CutoverChanges(r, Cutover!New(r), cutover_databases[Cutover!New(r)])
            /\ cutover_databases[Cutover!New(r)] \in Cutover!Database \cup {cutover_Absent}
      BY <3>1, CutoverNamesDiffer DEF CutoverChanges
    <3> QED
      BY <2>1, <3>2, CutoverCandidateChanges DEF Cutover!Steps
  <2> QED
    BY <2>2, <2>3
<1> QED
  BY <1>1, <1>2, <1>3

\* A run keeps the live database, gives its name to the candidate, or puts it back.
LEMMA CutoverRenameMovesOn ==
  ASSUME CutoverIInv, NEW r \in cutover_Runs, Cutover!RenameLive(r)
           \/ Cutover!RenameCandidate(r) \/ Cutover!FinishSwap(r)
  PROVE  CutoverIInv'
<1>0. /\ cutover_step \in [cutover_Runs -> Cutover!Steps]
           /\ cutover_known \in [cutover_Runs -> SUBSET {"live", "replacement"}]
      /\ cutover_told \in BOOLEAN /\ cutover_writers \in BOOLEAN
  BY DEF CutoverIInv, Cutover!TypeOK
<1>1. CASE Cutover!RenameLive(r)
  <2>1. cutover_step[r] = "suspended"
          /\ UNCHANGED <<cutover_restoring, cutover_writers, cutover_told>>
        /\ cutover_known' \in [cutover_Runs -> SUBSET {"live", "replacement"}]
    BY <1>0, <1>1 DEF Cutover!RenameLive, Cutover!RenameStep
  <2>2. CASE /\ Cutover!Renamed(Cutover!Live, Cutover!Old(r)) /\ Cutover!Goes(r, "vacant")
    BY <2>1, <2>2, CutoverLiveIsKept
  <2>3. CASE /\ Cutover!Renamed(Cutover!Live, Cutover!Old(r)) /\ Cutover!Goes(r, "swapfailing")
    BY <2>1, <2>3, CutoverLiveIsKept
  <2>4. CASE UNCHANGED <<cutover_databases, cutover_known>> /\ Cutover!Goes(r, "swapfailing")
    <3>1. cutover_step' = [cutover_step EXCEPT ![r] = "swapfailing"]
      BY <2>4 DEF Cutover!Goes
    <3>2. Cutover!TypeOK'
      BY <2>1, <2>4, <3>1 DEF CutoverIInv, Cutover!TypeOK, Cutover!Steps, Cutover!Names,
         Cutover!New, Cutover!Old, Cutover!Live, Cutover!Database
    <3>3. CutoverOneWorks'
      BY <1>0, <2>1, <3>1 DEF CutoverIInv, CutoverOneWorks, CutoverWorking
    <3>4. \A q \in cutover_Runs :
            (CutoverCandidateIs(q) /\ CutoverLiveIs(q) /\ CutoverKeptIs(q))'
      BY <1>0, <2>4, <3>1 DEF CutoverIInv, CutoverCandidateIs, CutoverLiveIs,
         CutoverKeptIs, Cutover!New, Cutover!Old, Cutover!Live, Cutover!Exists
    <3>5. CutoverOriginal' /\ CutoverLiveIsWhole' /\ CutoverVacantIsKnown'
      BY <1>0, <2>1, <2>4, <3>1
         DEF CutoverIInv, CutoverOriginal, CutoverLiveIsWhole, CutoverVacantIsKnown,
             Cutover!New, Cutover!Old, Cutover!Live, Cutover!Exists, Cutover!Names
    <3> QED
      BY <3>2, <3>3, <3>4, <3>5 DEF CutoverIInv
  <2> QED
    BY <1>1, <2>2, <2>3, <2>4 DEF Cutover!RenameLive, Cutover!RenameStep
<1>2. CASE Cutover!RenameCandidate(r)
  <2>1. cutover_step[r] = "vacant"
          /\ UNCHANGED <<cutover_restoring, cutover_writers, cutover_told>> /\ CutoverWorking(r)
        /\ cutover_known' \in [cutover_Runs -> SUBSET {"live", "replacement"}]
    BY <1>0, <1>2 DEF Cutover!RenameCandidate, Cutover!RenameStep, CutoverWorking
  <2>2. ASSUME NEW to \in {"swapped", "swapfailing"}, Cutover!Goes(r, to)
        PROVE  /\ cutover_step' \in [cutover_Runs -> Cutover!Steps]
                    /\ \A q \in cutover_Runs : q # r => cutover_step'[q] = cutover_step[q]
               /\ cutover_step'[r] = to
    BY <1>0, <2>2 DEF Cutover!Goes, Cutover!Steps
  <2>3. CASE Cutover!Renamed(Cutover!New(r), Cutover!Live) /\ Cutover!Goes(r, "swapped")
    BY <2>1, <2>2, <2>3, CutoverNamesDiffer, CutoverLiveIsTaken
  <2>4. CASE Cutover!Renamed(Cutover!New(r), Cutover!Live) /\ Cutover!Goes(r, "swapfailing")
    BY <2>1, <2>2, <2>4, CutoverNamesDiffer, CutoverLiveIsTaken
  <2>5. CASE UNCHANGED <<cutover_databases, cutover_known>> /\ Cutover!Goes(r, "swapfailing")
    <3>1. cutover_step' = [cutover_step EXCEPT ![r] = "swapfailing"]
      BY <2>5 DEF Cutover!Goes
    <3>2. Cutover!TypeOK'
      BY <2>1, <2>5, <3>1 DEF CutoverIInv, Cutover!TypeOK, Cutover!Steps, Cutover!Names,
         Cutover!New, Cutover!Old, Cutover!Live, Cutover!Database
    <3>3. CutoverOneWorks'
      BY <1>0, <2>1, <3>1 DEF CutoverIInv, CutoverOneWorks, CutoverWorking
    <3>4. \A q \in cutover_Runs :
            (CutoverCandidateIs(q) /\ CutoverLiveIs(q) /\ CutoverKeptIs(q))'
      BY <1>0, <2>5, <3>1 DEF CutoverIInv, CutoverCandidateIs, CutoverLiveIs,
         CutoverKeptIs, Cutover!New, Cutover!Old, Cutover!Live, Cutover!Exists
    <3>5. CutoverOriginal' /\ CutoverLiveIsWhole' /\ CutoverVacantIsKnown'
      BY <1>0, <2>1, <2>5, <3>1
         DEF CutoverIInv, CutoverOriginal, CutoverLiveIsWhole, CutoverVacantIsKnown,
             Cutover!New, Cutover!Old, Cutover!Live, Cutover!Exists, Cutover!Names
    <3> QED
      BY <3>2, <3>3, <3>4, <3>5 DEF CutoverIInv
  <2> QED
    BY <1>2, <2>3, <2>4, <2>5 DEF Cutover!RenameCandidate, Cutover!RenameStep
<1>3. CASE Cutover!FinishSwap(r)
  <2>1. cutover_step[r] = "swapfailing"
          /\ UNCHANGED <<cutover_restoring, cutover_writers, cutover_known>>
          /\ CutoverWorking(r)
        /\ Cutover!Goes(r, "failing") /\ cutover_restoring = r
    BY <1>3 DEF Cutover!FinishSwap, CutoverWorking, CutoverIInv, CutoverOneWorks
  <2>2. /\ cutover_step' \in [cutover_Runs -> Cutover!Steps] /\ \A q \in cutover_Runs : q # r
             => cutover_step'[q] = cutover_step[q]
        /\ cutover_step'[r] = "failing"
    BY <1>0, <2>1 DEF Cutover!Goes, Cutover!Steps
  <2>3. CASE Cutover!Renamed(Cutover!Old(r), Cutover!Live) /\ UNCHANGED cutover_told
    BY <1>0, <2>1, <2>2, <2>3, CutoverNamesDiffer, CutoverLiveIsTaken
  <2>4. CASE UNCHANGED cutover_databases /\ cutover_told' = TRUE
    <3>1. CutoverLeaves(r, "failing")
      BY <1>0, <2>1, <2>4 DEF CutoverLeaves
    <3> QED
      BY <2>4, <3>1, CutoverLeavesKeeps DEF Cutover!Steps
  <2> QED
    BY <1>3, <2>3, <2>4 DEF Cutover!FinishSwap
<1> QED
  BY <1>1, <1>2, <1>3

\* A run suspends what uses the live database, or resumes it.
LEMMA CutoverWorkersMove ==
  ASSUME CutoverIInv, NEW r \in cutover_Runs, Cutover!Suspend(r) \/ Cutover!Resume(r)
  PROVE  CutoverIInv'
<1>0. cutover_databases \in [Cutover!Names -> Cutover!Database \cup {cutover_Absent}]
  BY DEF CutoverIInv, Cutover!TypeOK
<1>1. CASE Cutover!Suspend(r)
  <2> DEFINE live == [cutover_databases[Cutover!Live] EXCEPT !.active = FALSE]
             new == [cutover_databases[Cutover!New(r)] EXCEPT !.active = FALSE]
  <2>1. cutover_databases[Cutover!Live] \in Cutover!Database
          /\ cutover_databases[Cutover!New(r)] \in Cutover!Database
    BY <1>1, CutoverNamesDiffer, CutoverDatabaseIs DEF Cutover!Suspend, CutoverIInv,
       CutoverCandidateIs
  <2>2. /\ live \in Cutover!Database /\ live.of = cutover_databases[Cutover!Live].of
             /\ live.whole = cutover_databases[Cutover!Live].whole
        /\ live.active = FALSE
        /\ new \in Cutover!Database /\ new.of = cutover_databases[Cutover!New(r)].of
             /\ new.whole = cutover_databases[Cutover!New(r)].whole
    BY <2>1 DEF Cutover!Database
  <2>3. cutover_databases' =
          [[cutover_databases EXCEPT ![Cutover!Live] = live] EXCEPT ![Cutover!New(r)] = new]
    BY <1>1, <1>0, CutoverNamesDiffer DEF Cutover!Suspend
  <2> HIDE DEF live, new
  <2>4. /\ cutover_databases' \in [Cutover!Names -> Cutover!Database \cup {cutover_Absent}]
        /\ cutover_databases'[Cutover!Live] = live /\ cutover_databases'[Cutover!New(r)] = new
        /\ \A n \in Cutover!Names : n # Cutover!Live /\ n # Cutover!New(r)
             => cutover_databases'[n] = cutover_databases[n]
    BY <1>0, <2>2, <2>3, CutoverNamesDiffer
  <2>5. \A n \in Cutover!Names : CutoverSame(cutover_databases'[n], cutover_databases[n])
    BY <2>1, <2>2, <2>4, CutoverAssumption DEF CutoverSame
  <2>6. \A q \in cutover_Runs :
          cutover_databases'[Cutover!Old(q)] = cutover_databases[Cutover!Old(q)]
    BY <2>4, CutoverNamesDiffer
  <2> QED
    BY <1>1, <2>2, <2>4, <2>5, <2>6, CutoverOnlyActivityChanges DEF Cutover!Suspend,
       CutoverWorking, Cutover!Steps
<1>2. CASE Cutover!Resume(r)
  <2>1. /\ cutover_step[r] = "swapped" /\ CutoverWorking(r)
             /\ UNCHANGED <<cutover_restoring, cutover_known, cutover_writers, cutover_told>>
        /\ cutover_databases[Cutover!Live] \in Cutover!Database
    BY <1>2, CutoverNamesDiffer, CutoverDatabaseIs DEF Cutover!Resume, CutoverWorking,
       CutoverIInv, CutoverLiveIs
  <2>2. CASE cutover_databases' = [cutover_databases EXCEPT ![Cutover!Live].active = TRUE]
               /\ Cutover!Goes(r, "ended")
    <3> DEFINE live == [cutover_databases[Cutover!Live] EXCEPT !.active = TRUE]
    <3>1. live \in Cutover!Database /\ live.of = cutover_databases[Cutover!Live].of
            /\ live.whole = cutover_databases[Cutover!Live].whole
      BY <2>1 DEF Cutover!Database
    <3>2. cutover_databases' = [cutover_databases EXCEPT ![Cutover!Live] = live]
      BY <2>2
    <3> HIDE DEF live
    <3>3. /\ cutover_databases' \in [Cutover!Names -> Cutover!Database \cup {cutover_Absent}]
          /\ cutover_databases'[Cutover!Live] = live
          /\ \A n \in Cutover!Names : n # Cutover!Live
               => cutover_databases'[n] = cutover_databases[n]
      BY <1>0, <3>1, <3>2, CutoverNamesDiffer
    <3>4. \A n \in Cutover!Names : CutoverSame(cutover_databases'[n], cutover_databases[n])
      BY <2>1, <3>1, <3>3, CutoverAssumption DEF CutoverSame
    <3>5. \A q \in cutover_Runs :
            cutover_databases'[Cutover!Old(q)] = cutover_databases[Cutover!Old(q)]
      BY <3>3, CutoverNamesDiffer
    <3> QED
      BY <2>1, <2>2, <3>3, <3>4, <3>5, CutoverOnlyActivityChanges DEF Cutover!Steps
  <2>3. CASE UNCHANGED cutover_databases /\ Cutover!Goes(r, "failing")
    BY <1>0, <2>1, <2>3, CutoverOnlyActivityChanges DEF CutoverSame, Cutover!Steps
  <2> QED
    BY <1>2, <2>2, <2>3 DEF Cutover!Resume
<1> QED
  BY <1>1, <1>2

\* The steps of the operator.
LEMMA CutoverOperatorMoves ==
  ASSUME CutoverIInv, Cutover!RemoveLock \/ Cutover!Writers
  PROVE  CutoverIInv'
<1>1. /\ UNCHANGED <<cutover_databases, cutover_step, cutover_known, cutover_told>>
           /\ cutover_writers' \in BOOLEAN
      /\ cutover_restoring' = cutover_restoring
           \/ (cutover_restoring' = 0 /\ cutover_step[cutover_restoring] = "killed")
  BY DEF Cutover!RemoveLock, Cutover!Writers, CutoverIInv, Cutover!TypeOK
<1>2. Cutover!TypeOK'
  BY <1>1 DEF CutoverIInv, Cutover!TypeOK, Cutover!Steps, Cutover!Names, Cutover!New,
     Cutover!Old, Cutover!Live, Cutover!Database
<1>3. CutoverOneWorks'
  BY <1>1 DEF CutoverIInv, CutoverOneWorks, CutoverWorking
<1>4. \A q \in cutover_Runs : (CutoverCandidateIs(q) /\ CutoverLiveIs(q) /\ CutoverKeptIs(q))'
  BY <1>1 DEF CutoverIInv, CutoverCandidateIs, CutoverLiveIs, CutoverKeptIs, Cutover!New,
     Cutover!Old, Cutover!Live, Cutover!Exists
<1>5. CutoverOriginal' /\ CutoverLiveIsWhole' /\ CutoverVacantIsKnown'
  BY <1>1 DEF CutoverIInv, CutoverOriginal, CutoverLiveIsWhole, CutoverVacantIsKnown,
     Cutover!New, Cutover!Old, Cutover!Live, Cutover!Exists, Cutover!Names
<1> QED
  BY <1>2, <1>3, <1>4, <1>5 DEF CutoverIInv

\* The operator puts back by hand what a run kept.
LEMMA CutoverHandMoves ==
  ASSUME CutoverIInv, NEW r \in cutover_Runs, Cutover!RenameByHand(r)
  PROVE  CutoverIInv'
<1>1. /\ Cutover!Renamed(Cutover!Old(r), Cutover!Live)
           /\ UNCHANGED <<cutover_restoring, cutover_step, cutover_known, cutover_writers,
                          cutover_told>>
      /\ cutover_step \in [cutover_Runs -> Cutover!Steps]
           /\ cutover_known \in [cutover_Runs -> SUBSET {"live", "replacement"}]
  BY DEF Cutover!RenameByHand, CutoverIInv, Cutover!TypeOK
<1>2. /\ Cutover!Old(r) # Cutover!New(r) /\ Cutover!Old(r) \in {Cutover!New(r), Cutover!Old(r)}
           /\ cutover_step' \in [cutover_Runs -> Cutover!Steps]
      /\ cutover_known' \in [cutover_Runs -> SUBSET {"live", "replacement"}]
      /\ cutover_step'[r] = cutover_step[r]
           /\ \A q \in cutover_Runs : cutover_step'[q] = cutover_step[q]
  BY <1>1, CutoverNamesDiffer
<1>3. cutover_step'[r] # "swapfailing"
  BY <1>2 DEF Cutover!RenameByHand
<1> QED
  BY <1>1, <1>2, <1>3, CutoverLiveIsTaken

\* Every step keeps the invariant.
LEMMA CutoverInvariantKept == CutoverIInv /\ [Cutover!Next]_cutoverVars => CutoverIInv'
<1>1. ASSUME CutoverIInv, NEW r \in cutover_Runs,
             \/ Cutover!Begin(r) \/ Cutover!Create(r) \/ Cutover!Restore(r)
                  \/ Cutover!Migrate(r) \/ Cutover!Suspend(r)
             \/ Cutover!RenameLive(r) \/ Cutover!RenameCandidate(r) \/ Cutover!Resume(r)
                  \/ Cutover!FinishSwap(r)
             \/ Cutover!Finish(r) \/ Cutover!Fail(r) \/ Cutover!Kill(r)
                  \/ Cutover!RenameByHand(r)
      PROVE  CutoverIInv'
  BY <1>1, CutoverQuietMoves, CutoverCandidateMoves, CutoverRenameMovesOn,
     CutoverWorkersMove, CutoverHandMoves
<1>2. ASSUME CutoverIInv, UNCHANGED cutoverVars PROVE CutoverIInv'
  BY <1>2 DEF cutoverVars, CutoverIInv, Cutover!TypeOK, CutoverOneWorks, CutoverWorking,
     CutoverCandidateIs, CutoverLiveIs, CutoverKeptIs, CutoverOriginal,
     CutoverLiveIsWhole, CutoverVacantIsKnown, Cutover!New, Cutover!Old, Cutover!Live,
     Cutover!Exists, Cutover!Names, Cutover!Steps, Cutover!Database
<1> QED
  BY <1>1, <1>2, CutoverOperatorMoves DEF Cutover!Next


\* The invariant of this service, whenever it is the one that acts.
LEMMA CutoverInvariant == CustodySpec => [](custody = "cutover" => CutoverIInv)
<1>1. CustodyInit => (custody = "cutover" => CutoverIInv)
  BY CutoverInvariantInitially DEF CustodyInit
<1>2. (custody = "cutover" => CutoverIInv) /\ [CustodyNext]_custodyVars
        => (custody = "cutover" => CutoverIInv)'
  BY CutoverInvariantKept DEF CustodyNext, custodyVars
<1> QED
  BY <1>1, <1>2, PTL DEF CustodySpec

-----------------------------------------------------------------------------
(***************************************************************************)
(* The files of fitted models and their references (ArtifactStore).        *)
(***************************************************************************)

\* A worker that has something to do does it with a file.
ArtifactsTasksHaveFiles == \A w \in files_Workers : files_worker[w].at # "idle"
  => files_worker[w].file \in files_Files

\* What a committed row or evidence refers to.
ArtifactsReferenced(f) == files_rows[f].role \in Artifacts!Protected
  \/ files_issues[f] # Artifacts!Never

ArtifactsIInv == /\ Artifacts!TypeOK
                 /\ ArtifactsTasksHaveFiles
                 /\ Artifacts!ReferencedFilesStay
                 /\ Artifacts!OnlyDamageRetires
                 /\ DOMAIN files_checks = files_Files

\* At first there is no file and no row.
LEMMA ArtifactsInvariantInitially == ASSUME Artifacts!Init PROVE ArtifactsIInv
<1>1. Artifacts!NoRow \in Artifacts!Record /\ Artifacts!Idle \in Artifacts!Task
  BY DEF Artifacts!NoRow, Artifacts!Record, Artifacts!Idle, Artifacts!Task,
     Artifacts!Contents
<1>2. Artifacts!TypeOK
  BY <1>1, ArtifactsAssumption DEF Artifacts!Init, Artifacts!TypeOK, Artifacts!Contents,
     Artifacts!Sound
<1> QED
  BY <1>2 DEF Artifacts!Init, ArtifactsIInv, ArtifactsTasksHaveFiles,
     Artifacts!ReferencedFilesStay, Artifacts!OnlyDamageRetires, Artifacts!Idle,
     Artifacts!NoRow, Artifacts!Protected

\* The task of a worker.
LEMMA ArtifactsTaskIs ==
  ASSUME ArtifactsIInv, NEW w \in files_Workers
  PROVE  /\ files_worker[w] \in Artifacts!Task
         /\ files_worker[w].at # "idle" => files_worker[w].file \in files_Files
         /\ Artifacts!Idle \in Artifacts!Task /\ Artifacts!Idle.at = "idle"
BY DEF ArtifactsIInv, Artifacts!TypeOK, ArtifactsTasksHaveFiles, Artifacts!Idle,
   Artifacts!Task, Artifacts!Contents

\* A task that goes on, or ends, is still one with a file.
LEMMA ArtifactsTaskMoves ==
  ASSUME ArtifactsIInv, NEW w \in files_Workers, NEW at,
         Artifacts!Rests(w) \/ (/\ Artifacts!Goes(w, at) /\ files_worker[w].at # "idle"
                                /\ at \in {"written", "renamed", "signed", "unavailable",
                                           "missing", "damaged"})
  PROVE  files_worker' \in [files_Workers -> Artifacts!Task] /\ ArtifactsTasksHaveFiles'
<1>1. files_worker \in [files_Workers -> Artifacts!Task]
  BY DEF ArtifactsIInv, Artifacts!TypeOK
<1>2. CASE Artifacts!Rests(w)
  BY <1>1, <1>2, ArtifactsTaskIs DEF Artifacts!Rests, ArtifactsIInv, ArtifactsTasksHaveFiles
<1>3. CASE /\ Artifacts!Goes(w, at) /\ files_worker[w].at # "idle"
           /\ at \in {"written", "renamed", "signed", "unavailable", "missing", "damaged"}
  <2> DEFINE x == [files_worker[w] EXCEPT !.at = at]
  <2>1. x \in Artifacts!Task /\ x.file \in files_Files
    BY <1>1, <1>3, ArtifactsTaskIs DEF Artifacts!Task
  <2>2. files_worker' = [files_worker EXCEPT ![w] = x]
    BY <1>3 DEF Artifacts!Goes
  <2> HIDE DEF x
  <2> QED
    BY <1>1, <2>1, <2>2 DEF ArtifactsIInv, ArtifactsTasksHaveFiles
<1> QED
  BY <1>2, <1>3

\* A file becomes durable.
LEMMA ArtifactsFileMoves ==
  ASSUME ArtifactsIInv, NEW w \in files_Workers, Artifacts!Rename(w)
           \/ Artifacts!SyncDirectory(w)
  PROVE  ArtifactsIInv'
<1> DEFINE f == files_worker[w].file
<1>1. files_worker[w].at \in {"written", "renamed"} /\ f \in files_Files
  BY ArtifactsTaskIs DEF Artifacts!Rename, Artifacts!SyncDirectory
<1>2. files_worker' \in [files_Workers -> Artifacts!Task] /\ ArtifactsTasksHaveFiles'
  BY <1>1, ArtifactsTaskMoves DEF Artifacts!Rename, Artifacts!SyncDirectory
<1>3. /\ \/ files_disk' = files_disk \/ files_disk' = [files_disk EXCEPT ![f] = "whole"]
      /\ \/ files_durable' = files_durable
              \/ files_durable' = [files_durable EXCEPT ![f] = files_disk[f]]
      /\ \/ files_disk' = files_disk \/ files_durable' = files_durable
      /\ UNCHANGED <<files_now, files_mounted, files_written, Artifacts!records, files_lease,
                     Artifacts!history>>
  BY DEF Artifacts!Rename, Artifacts!SyncDirectory, Artifacts!Flushed
<1>4. /\ files_disk \in [files_Files -> Artifacts!Contents]
           /\ files_durable \in [files_Files -> Artifacts!Contents]
  BY DEF ArtifactsIInv, Artifacts!TypeOK
<1>5. files_disk' \in [files_Files -> Artifacts!Contents]
        /\ files_durable' \in [files_Files -> Artifacts!Contents]
  BY <1>1, <1>3, <1>4 DEF Artifacts!Contents
<1>6. Artifacts!TypeOK'
  BY <1>2, <1>3, <1>5 DEF ArtifactsIInv, Artifacts!TypeOK, Artifacts!records,
     Artifacts!history
<1>7. \A g \in files_Files : files_disk[g] = "whole" /\ files_durable[g] = "whole"
                               => files_disk'[g] = "whole" /\ files_durable'[g] = "whole"
  BY <1>1, <1>3, <1>4
<1>8. Artifacts!ReferencedFilesStay'
  BY <1>3, <1>7 DEF ArtifactsIInv, Artifacts!ReferencedFilesStay, Artifacts!records,
     Artifacts!history
<1> QED
  BY <1>2, <1>3, <1>6, <1>8 DEF ArtifactsIInv, Artifacts!OnlyDamageRetires,
     Artifacts!history, Artifacts!records

\* A fit is written under another name first; the storage comes and goes,
\* and so do workers and time.
LEMMA ArtifactsNothingMoves ==
  ASSUME ArtifactsIInv,
         \/ \E w \in files_Workers, f \in files_Files : Artifacts!Write(w, f)
         \/ \E w \in files_Workers : Artifacts!Acquire(w) \/ Artifacts!Kill(w)
              \/ Artifacts!LookBefore(w)
         \/ Artifacts!Unmount \/ Artifacts!Mount \/ Artifacts!Tick
  PROVE  ArtifactsIInv'
<1>1. UNCHANGED <<files_disk, files_durable, files_rows, files_issues, files_checks,
                  files_hurt, files_retired>>
  BY DEF Artifacts!Write, Artifacts!Acquire, Artifacts!Kill, Artifacts!LookBefore,
     Artifacts!Unmount, Artifacts!Mount, Artifacts!Tick, Artifacts!storage,
     Artifacts!records, Artifacts!history
<1>2. /\ files_now' \in Nat /\ files_mounted' \in BOOLEAN
           /\ files_written' \in [files_Files -> Nat] /\ files_faults' \in Nat
      /\ files_lease' \in files_Workers \cup {files_None}
  <2>1. /\ files_now \in Nat /\ files_mounted \in BOOLEAN
             /\ files_written \in [files_Files -> Nat] /\ files_faults \in Nat
        /\ files_lease \in files_Workers \cup {files_None}
    BY DEF ArtifactsIInv, Artifacts!TypeOK
  <2>2. CASE \E w \in files_Workers, f \in files_Files : Artifacts!Write(w, f)
    <3>1. PICK w \in files_Workers, f \in files_Files : Artifacts!Write(w, f)
      BY <2>2
    <3>2. /\ files_written' = [files_written EXCEPT ![f] = files_now + 1]
          /\ UNCHANGED <<files_now, files_mounted, files_lease, files_faults>>
      BY <3>1 DEF Artifacts!Write, Artifacts!history
    <3>3. files_now + 1 \in Nat
      BY <2>1
    <3> QED
      BY <2>1, <3>2, <3>3
  <2>3. CASE \E w \in files_Workers : Artifacts!Acquire(w) \/ Artifacts!Kill(w)
               \/ Artifacts!LookBefore(w)
    BY <2>1, <2>3 DEF Artifacts!Acquire, Artifacts!Kill, Artifacts!LookBefore,
       Artifacts!storage, Artifacts!history
  <2>4. CASE Artifacts!Unmount \/ Artifacts!Mount \/ Artifacts!Tick
    <3>1. CASE Artifacts!Unmount
      <4>1. files_faults' \in Nat /\ UNCHANGED <<files_now, files_written, files_lease>>
        BY <2>1, <3>1 DEF Artifacts!Unmount, Artifacts!Fault
      <4>2. files_mounted' \in BOOLEAN
        BY <3>1, Zenon DEF Artifacts!Unmount
      <4> QED
        BY <2>1, <4>1, <4>2
    <3>2. CASE Artifacts!Mount
      <4>1. UNCHANGED <<files_now, files_written, files_lease, files_faults>>
        BY <3>2 DEF Artifacts!Mount, Artifacts!history
      <4>2. files_mounted' \in BOOLEAN
        BY <3>2, Zenon DEF Artifacts!Mount
      <4> QED
        BY <2>1, <4>1, <4>2
    <3>3. CASE Artifacts!Tick
      BY <2>1, <3>3 DEF Artifacts!Tick, Artifacts!storage, Artifacts!history
    <3> QED
      BY <2>4, <3>1, <3>2, <3>3
  <2> QED
    BY <2>2, <2>3, <2>4
<1>3. files_worker' \in [files_Workers -> Artifacts!Task] /\ ArtifactsTasksHaveFiles'
  <2>1. files_worker \in [files_Workers -> Artifacts!Task] /\ ArtifactsTasksHaveFiles
    BY DEF ArtifactsIInv, Artifacts!TypeOK
  <2>2. CASE \E w \in files_Workers, f \in files_Files : Artifacts!Write(w, f)
    <3>1. PICK w \in files_Workers, f \in files_Files :
               files_worker' = [files_worker EXCEPT ![w] =
                                  [Artifacts!Idle EXCEPT !.at = "written", !.file = f]]
      BY <2>2 DEF Artifacts!Write
    <3>2. [Artifacts!Idle EXCEPT !.at = "written", !.file = f] \in Artifacts!Task
          /\ [Artifacts!Idle EXCEPT !.at = "written", !.file = f].file = f
      BY DEF Artifacts!Idle, Artifacts!Task, Artifacts!Contents
    <3> QED
      BY <2>1, <3>1, <3>2 DEF ArtifactsTasksHaveFiles
  <2>3. CASE \E w \in files_Workers : Artifacts!Kill(w)
    BY <2>3, ArtifactsTaskMoves DEF Artifacts!Kill
  <2>4. CASE \E w \in files_Workers : Artifacts!LookBefore(w)
    <3>1. PICK w \in files_Workers : Artifacts!LookBefore(w)
      BY <2>4
    <3> DEFINE x == [files_worker[w] EXCEPT !.at = IF files_worker[w].at = "missing"
                       THEN "retire missing"
                                                   ELSE "retire damaged",
                                            !.entry = Artifacts!Entry(files_worker[w].file)]
    <3>2. files_worker[w] \in Artifacts!Task /\ files_worker[w].file \in files_Files
            /\ Artifacts!Entry(files_worker[w].file) \in Artifacts!Contents \cup {"unknown"}
      BY <3>1, ArtifactsTaskIs DEF Artifacts!LookBefore, Artifacts!Entry, ArtifactsIInv,
         Artifacts!TypeOK
    <3>3. x \in Artifacts!Task /\ x.file \in files_Files
      BY <3>2 DEF Artifacts!Task
    <3>4. files_worker' = [files_worker EXCEPT ![w] = x]
      BY <3>1, <3>2, <2>1 DEF Artifacts!LookBefore, Artifacts!Task
    <3> HIDE DEF x
    <3> QED
      BY <2>1, <3>3, <3>4 DEF ArtifactsTasksHaveFiles
  <2>5. CASE UNCHANGED files_worker
    BY <2>1, <2>5 DEF ArtifactsTasksHaveFiles
  <2> QED
    BY <2>2, <2>3, <2>4, <2>5 DEF Artifacts!Acquire, Artifacts!Unmount, Artifacts!Mount,
       Artifacts!Tick
<1>4. Artifacts!TypeOK'
  BY <1>1, <1>2, <1>3 DEF ArtifactsIInv, Artifacts!TypeOK
<1>5. Artifacts!ReferencedFilesStay' /\ Artifacts!OnlyDamageRetires'
  BY <1>1 DEF ArtifactsIInv, Artifacts!ReferencedFilesStay, Artifacts!OnlyDamageRetires
<1> QED
  BY <1>1, <1>3, <1>4, <1>5 DEF ArtifactsIInv

\* Rows, forecasts and what is known of a file, where the files stay.
LEMMA ArtifactsRecordsMove ==
  ASSUME ArtifactsIInv, UNCHANGED <<files_disk, files_hurt>>,
         files_lease' \in files_Workers \cup {files_None},
         files_durable' = files_durable
           \/ \E f \in files_Files :
                files_durable' = [files_durable EXCEPT ![f] = files_disk[f]],
         UNCHANGED <<files_now, files_mounted, files_written, files_faults>>,
         files_worker' \in [files_Workers -> Artifacts!Task], ArtifactsTasksHaveFiles',
         files_rows' \in [files_Files -> Artifacts!Record],
         files_issues' \in [files_Files -> Nat \cup {Artifacts!Never}],
         DOMAIN files_checks' = files_Files,
         \A f \in files_Files : /\ files_checks'[f].status \in {"available", "unavailable", "missing"}
                                /\ files_checks'[f].attempts \in 0..files_Attempts,
         files_retired' = files_retired
           \/ \E f \in files_Files,
              what \in {"none", "torn"} : files_retired' = [files_retired EXCEPT ![f] = what],
         \A f \in files_Files : f \notin files_hurt /\ ArtifactsReferenced(f)'
                                  => ArtifactsReferenced(f)
                                    \/ (files_disk[f] = "whole" /\ files_durable'[f] = "whole")
  PROVE  ArtifactsIInv'
<1>1. /\ files_disk \in [files_Files -> Artifacts!Contents]
           /\ files_durable \in [files_Files -> Artifacts!Contents]
      /\ files_retired \in [files_Files -> Artifacts!Contents \cup {"no", "unknown"}]
  BY DEF ArtifactsIInv, Artifacts!TypeOK
<1>2. /\ files_durable' \in [files_Files -> Artifacts!Contents]
      /\ \A f \in files_Files : files_disk[f] = "whole" /\ files_durable[f] = "whole"
           => files_durable'[f] = "whole"
  BY <1>1
<1>3. /\ files_retired' \in [files_Files -> Artifacts!Contents \cup {"no", "unknown"}]
      /\ \A f \in files_Files : files_retired'[f] \in {files_retired[f], "none", "torn"}
  BY <1>1 DEF Artifacts!Contents
<1>4. Artifacts!TypeOK'
  BY <1>1, <1>2, <1>3 DEF ArtifactsIInv, Artifacts!TypeOK
<1>5. Artifacts!ReferencedFilesStay'
  BY <1>2 DEF ArtifactsIInv, Artifacts!ReferencedFilesStay, ArtifactsReferenced
<1>6. Artifacts!OnlyDamageRetires'
  BY <1>3 DEF ArtifactsIInv, Artifacts!OnlyDamageRetires
<1> QED
  BY <1>4, <1>5, <1>6 DEF ArtifactsIInv

\* The records, for a step that leaves them alone.
LEMMA ArtifactsRecordsAre ==
  ASSUME ArtifactsIInv
  PROVE  /\ files_rows \in [files_Files -> Artifacts!Record]
              /\ files_issues \in [files_Files -> Nat \cup {Artifacts!Never}]
         /\ files_worker \in [files_Workers -> Artifacts!Task] /\ ArtifactsTasksHaveFiles
              /\ files_lease \in files_Workers \cup {files_None}
         /\ DOMAIN files_checks = files_Files /\ files_now \in Nat
         /\ \A f \in files_Files : /\ files_checks[f].status \in {"available", "unavailable", "missing"}
                                   /\ files_checks[f].attempts \in 0..files_Attempts
         /\ Artifacts!NoRow \in Artifacts!Record
BY DEF ArtifactsIInv, Artifacts!TypeOK, Artifacts!NoRow, Artifacts!Record

\* A row names a file that is durable and has been read in the transaction.
LEMMA ArtifactsPublishes ==
  ASSUME ArtifactsIInv, NEW w \in files_Workers, Artifacts!Publish(w)
  PROVE  ArtifactsIInv'
<1> DEFINE f == files_worker[w].file
<1>1. files_worker[w].at = "signed" /\ f \in files_Files /\ Artifacts!Rests(w)
      /\ UNCHANGED <<files_now, files_mounted, files_disk, files_written, files_issues,
                     files_checks, files_lease, Artifacts!history>>
  BY ArtifactsTaskIs DEF Artifacts!Publish
<1>2. files_worker' \in [files_Workers -> Artifacts!Task] /\ ArtifactsTasksHaveFiles'
  BY <1>1, ArtifactsTaskMoves
<1>3. [role |-> "candidate", created |-> files_now] \in Artifacts!Record
  BY ArtifactsRecordsAre DEF Artifacts!Record, Artifacts!Protected
<1>4. CASE UNCHANGED <<files_durable, files_rows>>
  BY <1>1, <1>2, <1>4, ArtifactsRecordsAre, ArtifactsRecordsMove DEF ArtifactsReferenced,
     Artifacts!history
<1>5. CASE /\ Artifacts!Certified(f)
           /\ files_rows' = [files_rows EXCEPT ![f] =
                               [role |-> "candidate", created |-> files_now]]
  <2>1. files_durable' = [files_durable EXCEPT ![f] = files_disk[f]] /\ files_disk[f] = "whole"
    BY <1>5 DEF Artifacts!Certified, Artifacts!Flushed, Artifacts!Verified
  <2>2. files_rows' \in [files_Files -> Artifacts!Record] /\ \A g \in files_Files : g # f
          => files_rows'[g] = files_rows[g]
    BY <1>1, <1>3, <1>5, ArtifactsRecordsAre
  <2>3. files_durable'[f] = "whole"
    BY <1>1, <2>1 DEF ArtifactsIInv, Artifacts!TypeOK
  <2> HIDE DEF f
  <2> QED
    BY <1>1, <1>2, <2>1, <2>2, <2>3, ArtifactsRecordsAre, ArtifactsRecordsMove DEF
       ArtifactsReferenced, Artifacts!history
<1> QED
  BY <1>4, <1>5 DEF Artifacts!Publish

\* A candidate is promoted; a forecast is issued under a file that was read.
LEMMA ArtifactsModelsMove ==
  ASSUME ArtifactsIInv, NEW w \in files_Workers, NEW f \in files_Files, Artifacts!Promote(w, f)
           \/ Artifacts!Issue(w, f)
  PROVE  ArtifactsIInv'
<1>1. CASE Artifacts!Promote(w, f)
  <2>1. /\ files_durable' = [files_durable EXCEPT ![f] = files_disk[f]]
        /\ files_rows[f].role = "candidate"
        /\ UNCHANGED <<files_now, files_mounted, files_disk, files_written, files_issues,
                       files_checks, files_lease, files_worker, Artifacts!history>>
    BY <1>1 DEF Artifacts!Promote, Artifacts!Certified, Artifacts!Flushed, Artifacts!Holding
  <2>2. ASSUME NEW g \in files_Files
        PROVE  /\ files_rows'[g] \in Artifacts!Record
               /\ files_rows'[g].role \in Artifacts!Protected
                    => files_rows[g].role \in Artifacts!Protected
    <3>1. files_rows[g] \in Artifacts!Record
      BY ArtifactsRecordsAre
    <3>2. \/ files_rows'[g] = [files_rows[g] EXCEPT !.role = "incumbent"]
               /\ files_rows[g].role = "candidate"
          \/ files_rows'[g] = [files_rows[g] EXCEPT !.role = "rollback"]
               /\ files_rows[g].role = "incumbent"
          \/ files_rows'[g] = files_rows[g]
      BY <1>1, <2>1 DEF Artifacts!Promote
    <3> QED
      BY <3>1, <3>2 DEF Artifacts!Record, Artifacts!Protected
  <2>3. files_rows' \in [files_Files -> Artifacts!Record]
    <3>1. DOMAIN files_rows' = files_Files
            /\ files_rows' = [g \in files_Files |-> files_rows'[g]]
      BY <1>1 DEF Artifacts!Promote
    <3> QED
      BY <2>2, <3>1
  <2>4. ArtifactsTasksHaveFiles'
    BY <2>1, ArtifactsRecordsAre DEF ArtifactsTasksHaveFiles
  <2> QED
    BY <2>1, <2>2, <2>3, <2>4, ArtifactsRecordsAre, ArtifactsRecordsMove DEF
       ArtifactsReferenced, Artifacts!history
<1>2. CASE Artifacts!Issue(w, f)
  <2>1. /\ files_issues' = [files_issues EXCEPT ![f] = files_now]
             /\ files_rows[f].role \in Artifacts!Protected
        /\ UNCHANGED <<files_now, files_disk, files_durable, files_mounted, files_written,
                       files_rows, files_checks, files_lease, files_worker, Artifacts!history>>
    BY <1>2 DEF Artifacts!Issue, Artifacts!storage, Artifacts!Protected
  <2>2. files_issues' \in [files_Files -> Nat \cup {Artifacts!Never}]
          /\ \A g \in files_Files : g # f => files_issues'[g] = files_issues[g]
    BY <2>1, ArtifactsRecordsAre
  <2>3. ArtifactsTasksHaveFiles'
    BY <2>1, ArtifactsRecordsAre DEF ArtifactsTasksHaveFiles
  <2> QED
    BY <2>1, <2>2, <2>3, ArtifactsRecordsAre, ArtifactsRecordsMove DEF
       ArtifactsReferenced, Artifacts!history
<1> QED
  BY <1>1, <1>2

\* Evidence or rows are given up, and refer to fewer files.
LEMMA ArtifactsEvidenceGoes ==
  ASSUME ArtifactsIInv, (\E w \in files_Workers : Artifacts!PruneEvidence(w)) \/ Artifacts!Reset
  PROVE  ArtifactsIInv'
<1>1. /\ UNCHANGED <<files_now, files_disk, files_durable, files_mounted, files_written,
                     files_worker, Artifacts!history>>
      /\ files_lease' \in files_Workers \cup {files_None}
  BY ArtifactsRecordsAre DEF Artifacts!PruneEvidence, Artifacts!Reset, Artifacts!storage
<1>2. ArtifactsTasksHaveFiles' /\ files_worker' \in [files_Workers -> Artifacts!Task]
  BY <1>1, ArtifactsRecordsAre DEF ArtifactsTasksHaveFiles
<1>3. CASE \E w \in files_Workers : Artifacts!PruneEvidence(w)
  <2>1. PICK gone \in SUBSET files_Files :
             files_issues' = [f \in files_Files |-> IF f \in gone THEN Artifacts!Never
                                ELSE files_issues[f]]
    BY <1>3 DEF Artifacts!PruneEvidence
  <2>2. UNCHANGED <<files_rows, files_checks>>
    BY <1>3 DEF Artifacts!PruneEvidence
  <2>3. files_issues' \in [files_Files -> Nat \cup {Artifacts!Never}]
        /\ \A f \in files_Files : files_issues'[f] # Artifacts!Never
             => files_issues[f] # Artifacts!Never
    BY <2>1, ArtifactsRecordsAre
  <2> QED
    BY <1>1, <1>2, <2>2, <2>3, ArtifactsRecordsAre, ArtifactsRecordsMove DEF
       ArtifactsReferenced, Artifacts!history, Artifacts!Never
<1>4. CASE Artifacts!Reset
  <2>1. /\ files_rows' = [f \in files_Files |-> IF files_rows[f] = Artifacts!NoRow
                            THEN Artifacts!NoRow
                                                ELSE [files_rows[f] EXCEPT !.role =
                                                        "unreferenced"]]
        /\ files_checks' = [f \in files_Files |-> Artifacts!Sound]
             /\ files_issues' = files_issues
    BY <1>4 DEF Artifacts!Reset
  <2>2. ASSUME NEW f \in files_Files
        PROVE  files_rows'[f] \in Artifacts!Record /\ files_rows'[f].role \notin Artifacts!Protected
    BY <2>1, ArtifactsRecordsAre DEF Artifacts!Record, Artifacts!Protected, Artifacts!NoRow
  <2>3. files_rows' \in [files_Files -> Artifacts!Record]
    BY <2>1, <2>2
  <2>4. /\ DOMAIN files_checks' = files_Files
        /\ \A f \in files_Files : /\ files_checks'[f].status \in {"available", "unavailable", "missing"}
                                  /\ files_checks'[f].attempts \in 0..files_Attempts
    BY <2>1, ArtifactsAssumption DEF Artifacts!Sound
  <2> QED
    BY <1>1, <1>2, <2>1, <2>2, <2>3, <2>4, ArtifactsRecordsAre, ArtifactsRecordsMove DEF
       ArtifactsReferenced, Artifacts!history, Artifacts!Never
<1> QED
  BY <1>3, <1>4

\* Nothing refers to a file that is pruned.
LEMMA ArtifactsFileIsPruned ==
  ASSUME ArtifactsIInv, NEW w \in files_Workers, NEW f \in files_Files,
         Artifacts!PruneFile(w, f)
  PROVE  ArtifactsIInv'
<1>1. /\ files_disk' = [files_disk EXCEPT ![f] = "none"]
           /\ files_durable' = [files_durable EXCEPT ![f] = "none"]
      /\ files_rows' = [files_rows EXCEPT ![f] = Artifacts!NoRow] \/ files_rows' = files_rows
      /\ files_lease' \in {files_lease, files_None}
      /\ UNCHANGED <<files_now, files_mounted, files_written, files_issues, files_checks,
                     files_worker, Artifacts!history>>
  BY DEF Artifacts!PruneFile
<1>2. files_rows[f].role \notin Artifacts!Protected /\ files_issues[f] = Artifacts!Never
  BY DEF Artifacts!PruneFile, Artifacts!Spared
<1>3. files_disk' \in [files_Files -> Artifacts!Contents]
        /\ files_durable' \in [files_Files -> Artifacts!Contents]
  BY <1>1 DEF ArtifactsIInv, Artifacts!TypeOK, Artifacts!Contents
<1>4. files_rows' \in [files_Files -> Artifacts!Record]
        /\ files_rows'[f].role \notin Artifacts!Protected
      /\ \A g \in files_Files : g # f => files_rows'[g] = files_rows[g]
  BY <1>1, <1>2, ArtifactsRecordsAre DEF Artifacts!NoRow, Artifacts!Protected
<1>5. ArtifactsTasksHaveFiles' /\ files_lease' \in files_Workers \cup {files_None}
  BY <1>1, ArtifactsRecordsAre DEF ArtifactsTasksHaveFiles
<1>6. Artifacts!TypeOK'
  BY <1>1, <1>3, <1>4, <1>5 DEF ArtifactsIInv, Artifacts!TypeOK, Artifacts!history
<1>7. Artifacts!ReferencedFilesStay'
  <2> SUFFICES ASSUME NEW g \in files_Files,
                      (files_rows[g].role \in Artifacts!Protected
                       \/ files_issues[g] # Artifacts!Never)',
                      g \notin files_hurt
               PROVE  files_disk'[g] = "whole" /\ files_durable'[g] = "whole"
    BY <1>1 DEF Artifacts!ReferencedFilesStay, Artifacts!history
  <2>1. g # f
    BY <1>1, <1>2, <1>4
  <2>2. files_disk[g] = "whole" /\ files_durable[g] = "whole"
    BY <2>1, <1>1, <1>4 DEF ArtifactsIInv, Artifacts!ReferencedFilesStay
  <2> QED
    BY <2>1, <2>2, <1>1 DEF ArtifactsIInv, Artifacts!TypeOK
<1> QED
  BY <1>1, <1>5, <1>6, <1>7 DEF ArtifactsIInv, Artifacts!OnlyDamageRetires,
     Artifacts!history

\* A file that cannot be read.
LEMMA ArtifactsReviewMoves ==
  ASSUME ArtifactsIInv, NEW w \in files_Workers, NEW f \in files_Files, Artifacts!Review(w, f)
  PROVE  ArtifactsIInv'
<1>1. UNCHANGED <<files_now, files_mounted, files_disk, files_durable, files_written,
                  files_rows, files_issues, files_lease, files_faults, files_hurt,
                  files_retired>>
  BY DEF Artifacts!Review, Artifacts!storage, Artifacts!history
<1>2. files_checks' = files_checks
        \/ files_checks' = [files_checks EXCEPT ![f] = Artifacts!Sound]
  BY DEF Artifacts!Review
<1>3. /\ DOMAIN files_checks' = files_Files
      /\ \A g \in files_Files : /\ files_checks'[g].status \in {"available", "unavailable", "missing"}
                                /\ files_checks'[g].attempts \in 0..files_Attempts
  BY <1>2, ArtifactsRecordsAre, ArtifactsAssumption DEF Artifacts!Sound
<1>4. files_worker' \in [files_Workers -> Artifacts!Task] /\ ArtifactsTasksHaveFiles'
  <2>1. CASE files_worker' = files_worker
    BY <2>1, ArtifactsRecordsAre DEF ArtifactsTasksHaveFiles
  <2>2. CASE \E missing \in BOOLEAN :
                files_worker' = [files_worker EXCEPT ![w] =
                                   [Artifacts!Idle EXCEPT !.at = "unavailable",
                                                                                   !.file = f, !.missing = missing]]
    <3>1. PICK missing \in BOOLEAN :
                files_worker' = [files_worker EXCEPT ![w] =
                                   [Artifacts!Idle EXCEPT !.at = "unavailable",
                                                                                   !.file = f, !.missing = missing]]
      BY <2>2
    <3> DEFINE x == [Artifacts!Idle EXCEPT !.at = "unavailable", !.file = f,
                                           !.missing = missing]
    <3>2. x \in Artifacts!Task /\ x.file = f
      BY DEF Artifacts!Idle, Artifacts!Task, Artifacts!Contents
    <3>3. files_worker' = [files_worker EXCEPT ![w] = x]
      BY <3>1
    <3> HIDE DEF x
    <3> QED
      BY <3>2, <3>3, ArtifactsRecordsAre DEF ArtifactsTasksHaveFiles
  <2>3. CASE files_worker' = [files_worker EXCEPT ![w] =
                                [Artifacts!Idle EXCEPT !.at = "damaged", !.file = f]]
    <3> DEFINE x == [Artifacts!Idle EXCEPT !.at = "damaged", !.file = f]
    <3>1. x \in Artifacts!Task /\ x.file = f
      BY DEF Artifacts!Idle, Artifacts!Task, Artifacts!Contents
    <3>2. files_worker' = [files_worker EXCEPT ![w] = x]
      BY <2>3
    <3> HIDE DEF x
    <3> QED
      BY <3>1, <3>2, ArtifactsRecordsAre DEF ArtifactsTasksHaveFiles
  <2> QED
    BY <2>1, <2>2, <2>3 DEF Artifacts!Review
<1> QED
  BY <1>1, <1>3, <1>4, ArtifactsRecordsAre, ArtifactsRecordsMove DEF ArtifactsReferenced

\* An attempt is counted, or the file is taken for missing.
LEMMA ArtifactsUnavailableMoves ==
  ASSUME ArtifactsIInv, NEW w \in files_Workers, Artifacts!RecordUnavailable(w)
  PROVE  ArtifactsIInv'
<1> DEFINE f == files_worker[w].file
           tried == Artifacts!Least(files_checks[f].attempts + 1, files_Attempts)
<1>1. UNCHANGED <<files_now, files_mounted, files_disk, files_durable, files_written,
                  files_rows, files_issues, files_lease, files_faults, files_hurt,
                  files_retired>>
      /\ files_worker[w].at # "idle" /\ f \in files_Files
  BY ArtifactsTaskIs DEF Artifacts!RecordUnavailable, Artifacts!storage, Artifacts!history
<1>2. files_worker' \in [files_Workers -> Artifacts!Task] /\ ArtifactsTasksHaveFiles'
  <2>1. Artifacts!Goes(w, "missing") \/ Artifacts!Rests(w)
    BY DEF Artifacts!RecordUnavailable
  <2> QED
    BY <1>1, <2>1, ArtifactsTaskMoves
<1>3. /\ DOMAIN files_checks' = files_Files
      /\ \A g \in files_Files : /\ files_checks'[g].status \in {"available", "unavailable", "missing"}
                                /\ files_checks'[g].attempts \in 0..files_Attempts
  <2>1. CASE files_checks' = files_checks
    BY <2>1, ArtifactsRecordsAre
  <2>2. CASE files_checks' # files_checks
    <3> DEFINE status == IF files_worker[w].missing /\ tried = files_Attempts
          /\ Artifacts!ConfirmedMissing(f)
                         THEN "missing" ELSE "unavailable"
               retry == files_now + Artifacts!Least(2 ^ (tried - 1), files_Longest)
    <3>1. files_checks' = [files_checks EXCEPT ![f] = [status |-> status, attempts |-> tried,
                                                       retry |-> retry]]
      BY <2>2 DEF Artifacts!RecordUnavailable
    <3>2. tried \in 0..files_Attempts
      BY <1>1, ArtifactsRecordsAre, ArtifactsAssumption DEF Artifacts!Least
    <3>3. status \in {"missing", "unavailable"}
      OBVIOUS
    <3> HIDE DEF f, tried, status, retry
    <3> QED
      BY <3>1, <3>2, <3>3, ArtifactsRecordsAre
  <2> QED
    BY <2>1, <2>2
<1> QED
  BY <1>1, <1>2, <1>3, ArtifactsRecordsAre, ArtifactsRecordsMove DEF ArtifactsReferenced

\* What is retired was looked at in the transaction, and is not whole.
LEMMA ArtifactsModelsAreRetired ==
  ASSUME ArtifactsIInv, NEW w \in files_Workers, Artifacts!Retire(w)
  PROVE  ArtifactsIInv'
<1> DEFINE f == files_worker[w].file
<1>1. /\ UNCHANGED <<files_now, files_mounted, files_disk, files_durable, files_written,
                     files_issues, files_checks, files_faults, files_hurt>>
      /\ Artifacts!Rests(w) /\ f \in files_Files
           /\ files_lease' \in files_Workers \cup {files_None}
  BY ArtifactsTaskIs, ArtifactsRecordsAre DEF Artifacts!Retire, Artifacts!storage
<1>2. files_worker' \in [files_Workers -> Artifacts!Task] /\ ArtifactsTasksHaveFiles'
  BY <1>1, ArtifactsTaskMoves
<1>3. CASE UNCHANGED <<files_rows, files_retired>>
  BY <1>1, <1>2, <1>3, ArtifactsRecordsAre, ArtifactsRecordsMove DEF ArtifactsReferenced
<1>4. CASE /\ Artifacts!Confirmed(w)
           /\ files_rows' = [g \in files_Files |-> IF files_rows[g].role = "candidate"
                                                   THEN [files_rows[g] EXCEPT !.role =
                                                           "retained"] ELSE files_rows[g]]
           /\ files_retired' = [files_retired EXCEPT ![f] = Artifacts!Entry(f)]
  <2>1. Artifacts!Entry(f) \in {"none", "torn"}
    BY <1>4 DEF Artifacts!Confirmed, Artifacts!ConfirmedMissing, Artifacts!Entry
  <2>2. ASSUME NEW g \in files_Files
        PROVE  /\ files_rows'[g] \in Artifacts!Record
               /\ files_rows'[g].role \in Artifacts!Protected
                    => files_rows[g].role \in Artifacts!Protected
    <3>1. files_rows[g] \in Artifacts!Record
      BY ArtifactsRecordsAre
    <3>2. \/ files_rows'[g] = [files_rows[g] EXCEPT !.role = "retained"]
               /\ files_rows[g].role = "candidate"
          \/ files_rows'[g] = files_rows[g]
      BY <1>4
    <3> QED
      BY <3>1, <3>2 DEF Artifacts!Record, Artifacts!Protected
  <2>3. files_rows' \in [files_Files -> Artifacts!Record]
    BY <1>4, <2>2
  <2> HIDE DEF f
  <2> QED
    BY <1>1, <1>2, <1>4, <2>1, <2>2, <2>3, ArtifactsRecordsAre, ArtifactsRecordsMove DEF
       ArtifactsReferenced
<1> QED
  BY <1>3, <1>4 DEF Artifacts!Retire

\* What happens to the storage.
LEMMA ArtifactsStorageIsHurt ==
  ASSUME ArtifactsIInv, Artifacts!PowerLoss \/ \E f \in files_Files : Artifacts!Damage(f)
           \/ Artifacts!Restore(f)
  PROVE  ArtifactsIInv'
<1>1. /\ files_disk \in [files_Files -> Artifacts!Contents]
           /\ files_durable \in [files_Files -> Artifacts!Contents]
      /\ files_faults \in Nat /\ files_hurt \subseteq files_Files /\ Artifacts!OnlyDamageRetires
      /\ UNCHANGED <<files_now, files_mounted, files_written, files_rows, files_issues,
                     files_checks, files_retired>>
  BY DEF ArtifactsIInv, Artifacts!TypeOK, Artifacts!PowerLoss, Artifacts!Damage,
     Artifacts!Restore, Artifacts!records, Artifacts!history
<1>2. CASE Artifacts!PowerLoss
  <2>1. PICK after \in [files_Files -> Artifacts!Contents] : /\ \A f \in files_Files : after[f] \in {files_disk[f], files_durable[f]}
                                                             /\ files_disk' = after /\ files_durable' = after
    BY <1>2 DEF Artifacts!PowerLoss, Artifacts!Contents
  <2>2. /\ files_worker' = [w \in files_Workers |-> Artifacts!Idle]
             /\ files_lease' = files_None /\ files_hurt' = files_hurt
        /\ files_faults' = files_faults + 1
    BY <1>2 DEF Artifacts!PowerLoss, Artifacts!Fault
  <2>3. Artifacts!Idle \in Artifacts!Task /\ Artifacts!Idle.at = "idle"
    BY DEF Artifacts!Idle, Artifacts!Task, Artifacts!Contents
  <2>4. files_worker' \in [files_Workers -> Artifacts!Task] /\ ArtifactsTasksHaveFiles'
    BY <2>2, <2>3 DEF ArtifactsTasksHaveFiles
  <2>5. Artifacts!TypeOK'
    BY <1>1, <2>1, <2>2, <2>4 DEF ArtifactsIInv, Artifacts!TypeOK
  <2>6. Artifacts!ReferencedFilesStay'
    BY <1>1, <2>1, <2>2 DEF ArtifactsIInv, Artifacts!ReferencedFilesStay
  <2> QED
    BY <1>1, <2>4, <2>5, <2>6 DEF ArtifactsIInv, Artifacts!OnlyDamageRetires
<1>3. CASE \E f \in files_Files : Artifacts!Damage(f) \/ Artifacts!Restore(f)
  <2>1. PICK f \in files_Files : Artifacts!Damage(f) \/ Artifacts!Restore(f)
    BY <1>3
  <2>2. /\ UNCHANGED <<files_worker, files_lease>> /\ files_faults' \in Nat
    BY <1>1, <2>1 DEF Artifacts!Damage, Artifacts!Restore, Artifacts!Fault
  <2>3. ArtifactsTasksHaveFiles'
    BY <2>2, ArtifactsRecordsAre DEF ArtifactsTasksHaveFiles
  <2>4. PICK left \in Artifacts!Contents :
             /\ files_disk' = [files_disk EXCEPT ![f] = left]
                  /\ files_durable' = [files_durable EXCEPT ![f] = left]
             /\ \/ left = "whole" /\ files_hurt' = files_hurt \ {f}
                \/ files_hurt' = files_hurt \cup {f}
    BY <2>1 DEF Artifacts!Damage, Artifacts!Restore, Artifacts!Contents
  <2>5. /\ files_disk' \in [files_Files -> Artifacts!Contents]
             /\ files_durable' \in [files_Files -> Artifacts!Contents]
             /\ files_hurt' \subseteq files_Files
        /\ \A g \in files_Files : g # f => /\ files_disk'[g] = files_disk[g] /\ files_durable'[g] = files_durable[g]
                                           /\ g \in files_hurt' <=> g \in files_hurt
        /\ f \notin files_hurt' => files_disk'[f] = "whole" /\ files_durable'[f] = "whole"
    BY <1>1, <2>4
  <2>6. Artifacts!TypeOK'
    BY <1>1, <2>2, <2>5 DEF ArtifactsIInv, Artifacts!TypeOK
  <2>7. Artifacts!ReferencedFilesStay'
    BY <1>1, <2>5 DEF ArtifactsIInv, Artifacts!ReferencedFilesStay
  <2> QED
    BY <1>1, <2>3, <2>6, <2>7 DEF ArtifactsIInv, Artifacts!OnlyDamageRetires
<1> QED
  BY <1>2, <1>3

\* Every step keeps the invariant.
LEMMA ArtifactsInvariantKept == ArtifactsIInv /\ [Artifacts!Next]_filesVars => ArtifactsIInv'
<1> SUFFICES ASSUME ArtifactsIInv, [Artifacts!Next]_filesVars PROVE ArtifactsIInv'
  OBVIOUS
<1>1. CASE UNCHANGED filesVars
  BY <1>1 DEF ArtifactsIInv, Artifacts!TypeOK, ArtifactsTasksHaveFiles,
     Artifacts!ReferencedFilesStay, Artifacts!OnlyDamageRetires, filesVars,
              Artifacts!storage, Artifacts!records, Artifacts!history
<1>2. CASE \E w \in files_Workers, f \in files_Files : Artifacts!Write(w, f)
  BY <1>2, ArtifactsNothingMoves
<1>3. CASE \E w \in files_Workers : Artifacts!Acquire(w) \/ Artifacts!Kill(w)
             \/ Artifacts!LookBefore(w)
  BY <1>3, ArtifactsNothingMoves
<1>4. CASE Artifacts!Unmount \/ Artifacts!Mount \/ Artifacts!Tick
  BY <1>4, ArtifactsNothingMoves
<1>5. CASE \E w \in files_Workers : Artifacts!Rename(w) \/ Artifacts!SyncDirectory(w)
             \/ Artifacts!Publish(w)
  BY <1>5, ArtifactsFileMoves, ArtifactsPublishes
<1>6. CASE \E w \in files_Workers : Artifacts!RecordUnavailable(w) \/ Artifacts!Retire(w)
  BY <1>6, ArtifactsUnavailableMoves, ArtifactsModelsAreRetired
<1>7. CASE (\E w \in files_Workers : Artifacts!PruneEvidence(w)) \/ Artifacts!Reset
  BY <1>7, ArtifactsEvidenceGoes
<1>8. CASE \E w \in files_Workers, f \in files_Files : Artifacts!Promote(w, f)
             \/ Artifacts!Issue(w, f)
  BY <1>8, ArtifactsModelsMove
<1>9. CASE \E w \in files_Workers, f \in files_Files : Artifacts!PruneFile(w, f)
             \/ Artifacts!Review(w, f)
  BY <1>9, ArtifactsFileIsPruned, ArtifactsReviewMoves
<1>10. CASE Artifacts!PowerLoss \/ \E f \in files_Files : Artifacts!Damage(f)
              \/ Artifacts!Restore(f)
  BY <1>10, ArtifactsStorageIsHurt
<1> QED
  BY <1>1, <1>2, <1>3, <1>4, <1>5, <1>6, <1>7, <1>8, <1>9, <1>10 DEF Artifacts!Next


\* The invariant of this service, whenever it is the one that acts.
LEMMA ArtifactsInvariant == CustodySpec => [](custody = "files" => ArtifactsIInv)
<1>1. CustodyInit => (custody = "files" => ArtifactsIInv)
  BY ArtifactsInvariantInitially DEF CustodyInit
<1>2. (custody = "files" => ArtifactsIInv) /\ [CustodyNext]_custodyVars
        => (custody = "files" => ArtifactsIInv)'
  BY ArtifactsInvariantKept DEF CustodyNext, custodyVars
<1> QED
  BY <1>1, <1>2, PTL DEF CustodySpec

-----------------------------------------------------------------------------
(***************************************************************************)
(* What every set of numbers and every sequence has.                       *)
(***************************************************************************)

\* Induction up to a bound, over a set of numbers.
LEMMA UpTo ==
  ASSUME NEW N \in Nat, NEW X, 0 \in X, \A n \in 0..(N - 1) : n \in X => n + 1 \in X
  PROVE  0..N \subseteq X
<1> DEFINE bad == {n \in Nat : n \in 0..N /\ n \notin X}
<1>1. SUFFICES ASSUME bad # {} PROVE FALSE
  OBVIOUS
<1>2. PICK x \in bad : \A y \in bad : ~(<<y, x>> \in OpToRel(<, Nat))
  <2>1. bad \in SUBSET Nat
    OBVIOUS
  <2>2. IsWellFoundedOn(OpToRel(<, Nat), Nat)
    BY NatLessThanWellFounded
  <2> HIDE DEF bad
  <2> QED
    BY <1>1, <2>1, <2>2, WFMin
<1>3. \A y \in bad : ~(y < x)
  BY <1>2 DEF OpToRel
<1>4. x # 0 /\ x - 1 \in 0..(N - 1) /\ x - 1 \in Nat
  OBVIOUS
<1>5. x - 1 \in X
  BY <1>3, <1>4
<1>6. (x - 1) + 1 = x
  BY <1>4
<1> QED
  BY <1>4, <1>5, <1>6

\* A step on data can be repeated.
LEMMA Repeated ==
  ASSUME NEW S, NEW z \in S, NEW N \in Nat, NEW step \in [1..N -> [S -> S]]
  PROVE  \E g \in [0..N -> S] : g[0] = z /\ \A n \in 1..N : g[n] = step[n][g[n - 1]]
<1> DEFINE Good(k, g) == /\ g \in [0..k -> S] /\ g[0] = z
                         /\ \A n \in 1..k : g[n] = step[n][g[n - 1]]
           X == {k \in 0..N : \E g \in [0..k -> S] : Good(k, g)}
<1>1. 0 \in X
  <2> DEFINE g == [i \in 0..0 |-> z]
  <2>1. g \in [0..0 -> S] /\ g[0] = z /\ \A n \in 1..0 : g[n] = step[n][g[n - 1]]
    OBVIOUS
  <2> HIDE DEF g
  <2>2. \E h \in [0..0 -> S] : Good(0, h)
    BY <2>1
  <2> QED
    BY <2>2
<1>2. ASSUME NEW k \in 0..(N - 1), k \in X
      PROVE  k + 1 \in X
  <2>1. PICK g \in [0..k -> S] : Good(k, g)
    BY <1>2
  <2>2. g[k] \in S /\ k + 1 \in 1..N /\ k + 1 \in 0..N
    OBVIOUS
  <2>3. PICK v \in S : v = step[k + 1][g[k]]
    <3>1. step[k + 1] \in [S -> S]
      BY <2>2
    <3> QED
      BY <2>2, <3>1
  <2> DEFINE h == [i \in 0..(k + 1) |-> IF i = k + 1 THEN v ELSE g[i]]
  <2>4. h \in [0..(k + 1) -> S]
    OBVIOUS
  <2>5. h[0] = z
    BY <2>1
  <2>6. ASSUME NEW n \in 1..(k + 1)
        PROVE  h[n] = step[n][h[n - 1]]
    <3>1. CASE n = k + 1
      <4>1. h[n] = v /\ h[n - 1] = g[k]
        BY <3>1
      <4> HIDE DEF h
      <4> QED
        BY <2>3, <3>1, <4>1
    <3>2. CASE n # k + 1
      <4>1. n \in 1..k /\ n \in 0..k /\ n - 1 \in 0..k /\ n - 1 # k + 1
        BY <3>2
      <4>2. h[n] = g[n] /\ h[n - 1] = g[n - 1]
        BY <4>1, <3>2
      <4>3. g[n] = step[n][g[n - 1]]
        BY <2>1, <4>1
      <4> HIDE DEF h
      <4> QED
        BY <4>2, <4>3
    <3> QED
      BY <3>1, <3>2
  <2> HIDE DEF h
  <2>7. Good(k + 1, h)
    BY <2>4, <2>5, <2>6
  <2> QED
    BY <2>2, <2>4, <2>7
<1>3. 0..N \subseteq X
  <2> HIDE DEF X
  <2> QED
    BY <1>1, <1>2, UpTo
<1>4. N \in X
  <2> HIDE DEF X
  <2>1. N \in 0..N
    OBVIOUS
  <2> QED
    BY <1>3, <2>1
<1>5. \E g \in [0..N -> S] : Good(N, g)
  BY <1>4
<1> QED
  BY <1>5

\* The least of some numbers.
LEMMA LeastOf ==
  ASSUME NEW S \in SUBSET Nat, S # {}
  PROVE  \E x \in S : \A y \in S : x <= y
<1>1. PICK x \in S : \A y \in S : ~(<<y, x>> \in OpToRel(<, Nat))
  <2>1. IsWellFoundedOn(OpToRel(<, Nat), Nat)
    BY NatLessThanWellFounded
  <2> QED
    BY <2>1, WFMin
<1>2. \A y \in S : x <= y
  <2>1. \A y \in S : ~(y < x) /\ y \in Nat /\ x \in Nat
    BY <1>1 DEF OpToRel
  <2> QED
    BY <2>1
<1> QED
  BY <1>2

\* A sequence with another behind it ranges over both.
LEMMA RangesJoin ==
  ASSUME NEW S, NEW s \in Seq(S), NEW t \in Seq(S)
  PROVE  s \o t \in Seq(S) /\ Len(s \o t) = Len(s) + Len(t)
           /\ Range(s \o t) = Range(s) \cup Range(t)
<1>1. s \o t \in Seq(S) /\ Len(s \o t) = Len(s) + Len(t) /\ Len(s) \in Nat /\ Len(t) \in Nat
  OBVIOUS
<1>2. \A i \in 1..(Len(s) + Len(t)) : (s \o t)[i] = IF i <= Len(s) THEN s[i] ELSE t[i - Len(s)]
  OBVIOUS
<1>3. ASSUME NEW i \in 1..(Len(s) + Len(t))
      PROVE  (s \o t)[i] \in Range(s) \cup Range(t)
  <2>1. CASE i <= Len(s)
    BY <1>1, <1>2, <2>1 DEF Range
  <2>2. CASE ~(i <= Len(s))
    <3>1. i - Len(s) \in 1..Len(t)
      BY <1>1, <2>2
    <3> QED
      BY <1>1, <1>2, <2>2, <3>1 DEF Range
  <2> QED
    BY <2>1, <2>2
<1>4. ASSUME NEW i \in 1..Len(s)
      PROVE  s[i] \in Range(s \o t)
  <2>1. i \in 1..(Len(s) + Len(t)) /\ i <= Len(s)
    BY <1>1
  <2> QED
    BY <1>1, <1>2, <2>1 DEF Range
<1>5. ASSUME NEW i \in 1..Len(t)
      PROVE  t[i] \in Range(s \o t)
  <2>1. i + Len(s) \in 1..(Len(s) + Len(t)) /\ ~(i + Len(s) <= Len(s))
          /\ (i + Len(s)) - Len(s) = i
    BY <1>1
  <2>2. (s \o t)[i + Len(s)] = t[i]
    BY <1>2, <2>1
  <2> QED
    BY <1>1, <2>1, <2>2 DEF Range
<1>6. Range(s \o t) \subseteq Range(s) \cup Range(t)
  BY <1>1, <1>3 DEF Range
<1>7. Range(s) \subseteq Range(s \o t) /\ Range(t) \subseteq Range(s \o t)
  <2>1. ASSUME NEW x \in Range(s) PROVE x \in Range(s \o t)
    <3>1. PICK i \in 1..Len(s) : x = s[i]
      BY DEF Range
    <3> QED
      BY <1>4, <3>1
  <2>2. ASSUME NEW x \in Range(t) PROVE x \in Range(s \o t)
    <3>1. PICK i \in 1..Len(t) : x = t[i]
      BY DEF Range
    <3> QED
      BY <1>5, <3>1
  <2> QED
    BY <2>1, <2>2
<1> QED
  BY <1>1, <1>6, <1>7


-----------------------------------------------------------------------------
(***************************************************************************)
(* The hot-water plan and the replay of its commands (TankPlan).           *)
(***************************************************************************)

\* The module's cardinality is the one of finite sets.
LEMMA TankCardinalityIs == \A S : Tank!Cardinality(S) = Cardinality(S)
  BY DEF Tank!Cardinality, Cardinality

\* The smaller of two numbers.
LEMMA TankMinIs ==
  ASSUME NEW a \in Int, NEW b \in Int
  PROVE  Tank!Min({a, b}) = IF a <= b THEN a ELSE b
<1>1. PICK x \in {a, b} : x = Tank!Min({a, b}) /\ \A y \in {a, b} : x <= y
  <2>1. \E x \in {a, b} : \A y \in {a, b} : x <= y
    OBVIOUS
  <2> QED
    BY <2>1 DEF Tank!Min
<1> QED
  BY <1>1

\* The larger of two numbers.
LEMMA TankMaxIs ==
  ASSUME NEW a \in Int, NEW b \in Int
  PROVE  Tank!Max({a, b}) = IF a >= b THEN a ELSE b
<1>1. PICK x \in {a, b} : x = Tank!Max({a, b}) /\ \A y \in {a, b} : x >= y
  <2>1. \E x \in {a, b} : \A y \in {a, b} : x >= y
    OBVIOUS
  <2> QED
    BY <2>1 DEF Tank!Max
<1> QED
  BY <1>1

\* The least of some numbers.
LEMMA TankLeastIs ==
  ASSUME NEW S \in SUBSET Nat, S # {}
  PROVE  Tank!Min(S) \in S /\ \A y \in S : Tank!Min(S) <= y
<1>1. \E x \in S : \A y \in S : x <= y
  BY LeastOf
<1> QED
  BY <1>1 DEF Tank!Min

\* A sequence with another behind it ranges over both.
LEMMA TankRangesAre ==
  ASSUME NEW S, NEW s \in Seq(S), NEW t \in Seq(S)
  PROVE  s \o t \in Seq(S) /\ Len(s \o t) = Len(s) + Len(t)
           /\ Tank!Range(s \o t) = Tank!Range(s) \cup Tank!Range(t)
<1>1. \A f : Tank!Range(f) = Range(f)
  BY DEF Tank!Range, Range
<1> QED
  BY <1>1, RangesJoin

TankCommand == [on : BOOLEAN, time : Int, key : Int]
TankRoom == [tank : Int, room : Int, ok : BOOLEAN]
TankPart == [on : BOOLEAN, tank : Int, room : Int, ok : BOOLEAN]

\* What an hour of the replay asks for.
TankHourHolds(s, h, n, peak, tank, dip, room) ==
  /\ s.ok
  /\ n > 0 => Tank!BelowTarget(s.tank) /\ Tank!BelowTarget(peak) /\ Tank!Within(peak, dip, h)
  /\ Tank!Within(tank, room, h)
  /\ h + 1 \in Tank!Deadlines => tank >= Tank!DeadlineFloor

\* What a part of an hour asks for.
TankPartHolds(s, k, heats, tank, room) ==
  /\ s.ok
  /\ heats => tank <= Tank!Ceiling
  /\ (k + 1) % Tank!Per = 0 => Tank!Within(tank, room, k \div Tank!Per)
  /\ (k + 1) % Tank!Per = 0 /\ (k \div Tank!Per) + 1 \in Tank!Deadlines
       => tank >= Tank!DeadlineFloor

\* An hour of the replay leads from a house to a house.
LEMMA TankHourIs ==
  ASSUME NEW s \in TankRoom, NEW h \in Int, NEW n \in Int
  PROVE  Tank!ReplayHour(s, h, n) \in TankRoom
<1> DEFINE peak == s.tank + n * Tank!Heat
           tank == peak - (Tank!Per - n) * Tank!Loss
           dip == Tank!Diverted(s.room, h, n)
           room == Tank!Heated(dip, h, Tank!Per - n)
<1>1. tank \in Int /\ room \in Int
  BY DEF Tank!Heat, Tank!Loss, Tank!Per, Tank!Diverted, Tank!Heated, TankRoom
<1>2. Tank!ReplayHour(s, h, n)
        = [tank |-> tank, room |-> room, ok |-> TankHourHolds(s, h, n, peak, tank, dip, room)]
  BY Zenon DEF Tank!ReplayHour, TankHourHolds
<1>3. TankHourHolds(s, h, n, peak, tank, dip, room) \in BOOLEAN
  BY Zenon DEF TankHourHolds
<1> HIDE DEF peak, tank, dip, room
<1> QED
  BY <1>1, <1>2, <1>3 DEF TankRoom

\* The replay is the one that its hours describe.
LEMMA TankReplayedIs ==
  ASSUME NEW cs, tank_trace.tank \in Int, tank_trace.room \in Int,
         \A h \in Tank!Slots : Tank!PulseIn(h, cs) \in Int
  PROVE  /\ Tank!Replayed(cs) \in [0..tank_Hours -> TankRoom]
         /\ Tank!Replayed(cs)[0] =
              [tank |-> tank_trace.tank, room |-> tank_trace.room, ok |-> TRUE]
         /\ \A n \in 1..tank_Hours : Tank!Replayed(cs)[n]
              = Tank!ReplayHour(Tank!Replayed(cs)[n - 1], n - 1, Tank!PulseIn(n - 1, cs))
<1> DEFINE z == [tank |-> tank_trace.tank, room |-> tank_trace.room, ok |-> TRUE]
           Then(s, n) == Tank!ReplayHour(s, n - 1, Tank!PulseIn(n - 1, cs))
           step == [n \in 1..tank_Hours |-> [s \in TankRoom |-> Then(s, n)]]
           All(g) == g = [n \in 0..tank_Hours |-> IF n = 0 THEN z ELSE Then(g[n - 1], n)]
<1>1. z \in TankRoom
  BY DEF TankRoom
<1>2. ASSUME NEW n \in 1..tank_Hours, NEW s \in TankRoom
      PROVE  Then(s, n) \in TankRoom
  <2>1. n - 1 \in Tank!Slots /\ n - 1 \in Int
    BY TankAssumption DEF Tank!Slots
  <2>2. Tank!PulseIn(n - 1, cs) \in Int
    BY <2>1
  <2> QED
    BY <2>1, <2>2, TankHourIs
<1>8. Tank!Replayed(cs) = CHOOSE g : All(g)
  BY DEF Tank!Replayed
<1> HIDE DEF z, Then
<1>3. step \in [1..tank_Hours -> [TankRoom -> TankRoom]]
  BY <1>2
<1>4. tank_Hours \in Nat
  BY TankAssumption
<1>5. PICK g \in [0..tank_Hours -> TankRoom] : g[0] = z
        /\ \A n \in 1..tank_Hours : g[n] = step[n][g[n - 1]]
  <2> HIDE DEF step
  <2>1. SUFFICES ASSUME NEW N \in Nat, N = tank_Hours, NEW T, T = TankRoom
                 PROVE  \E g \in [0..N -> T] : g[0] = z
                          /\ \A n \in 1..N : g[n] = step[n][g[n - 1]]
    BY <1>4
  <2>2. z \in T /\ step \in [1..N -> [T -> T]]
    BY <1>1, <1>3, <2>1
  <2> QED
    BY <2>2, Repeated, SMTT(60)
<1>6. \A n \in 1..tank_Hours : g[n] = Then(g[n - 1], n)
  <2> SUFFICES ASSUME NEW n \in 1..tank_Hours
               PROVE  g[n] = Then(g[n - 1], n)
    OBVIOUS
  <2>1. n - 1 \in 0..tank_Hours
    BY <1>4
  <2>2. g[n - 1] \in TankRoom
    BY <2>1
  <2> QED
    BY <1>5, <2>2
<1>7. All(g)
  <2>1. ASSUME NEW n \in 0..tank_Hours
        PROVE  g[n] = IF n = 0 THEN z ELSE Then(g[n - 1], n)
    BY <1>4, <1>5, <1>6
  <2> QED
    BY <2>1
<1>9. All(Tank!Replayed(cs))
  <2> HIDE DEF All
  <2> QED
    BY <1>7, <1>8
<1> DEFINE r == Tank!Replayed(cs)
<1> HIDE DEF r
<1>10. r = [n \in 0..tank_Hours |-> IF n = 0 THEN z ELSE Then(r[n - 1], n)]
  BY <1>9 DEF r
<1>11. r[0] = z /\ \A n \in 1..tank_Hours : r[n] = Then(r[n - 1], n)
  BY <1>4, <1>10
<1> DEFINE X == {n \in 0..tank_Hours : r[n] \in TankRoom}
<1>12. 0..tank_Hours \subseteq X
  <2>1. 0 \in X
    BY <1>1, <1>4, <1>11
  <2>2. ASSUME NEW n \in 0..(tank_Hours - 1), n \in X PROVE n + 1 \in X
    <3>1. n + 1 \in 1..tank_Hours /\ (n + 1) - 1 = n /\ n + 1 \in 0..tank_Hours
      BY <1>4
    <3>2. r[n + 1] = Then(r[(n + 1) - 1], n + 1)
      BY <1>11, <3>1
    <3>3. r[(n + 1) - 1] \in TankRoom
      BY <2>2, <3>1
    <3> QED
      BY <1>2, <3>1, <3>2, <3>3
  <2> HIDE DEF X
  <2> QED
    BY <1>4, <2>1, <2>2, UpTo
<1>13. r \in [0..tank_Hours -> TankRoom]
  BY <1>10, <1>12
<1>14. \A n \in 1..tank_Hours : r[n] = Tank!ReplayHour(r[n - 1], n - 1, Tank!PulseIn(n - 1, cs))
  BY <1>11 DEF Then
<1>15. r[0] = [tank |-> tank_trace.tank, room |-> tank_trace.room, ok |-> TRUE]
  BY <1>11 DEF z
<1> QED
  BY <1>13, <1>14, <1>15, Zenon DEF r

\* The sums up to each hour.
LEMMA TankSumsAre ==
  ASSUME NEW m \in [Tank!Slots -> Int]
  PROVE  /\ Tank!Sums(m) \in [0..tank_Hours -> Int]
         /\ Tank!Sums(m)[0] = 0
         /\ \A n \in 1..tank_Hours : Tank!Sums(m)[n]
              = Tank!Sums(m)[n - 1] + m[n - 1]
<1> DEFINE z == 0
           Then(s, n) == s + m[n - 1]
           step == [n \in 1..tank_Hours |-> [s \in Int |-> Then(s, n)]]
           All(g) == g = [n \in 0..tank_Hours |-> IF n = 0 THEN z ELSE Then(g[n - 1], n)]
<1>1. z \in Int
  OBVIOUS
<1>2. ASSUME NEW n \in 1..tank_Hours, NEW s \in Int
      PROVE  Then(s, n) \in Int
  <2>1. n - 1 \in Tank!Slots
    BY TankAssumption DEF Tank!Slots
  <2> QED
    BY <2>1
<1>8. Tank!Sums(m) = CHOOSE g : All(g)
  BY DEF Tank!Sums
<1> HIDE DEF z, Then
<1>3. step \in [1..tank_Hours -> [Int -> Int]]
  BY <1>2
<1>4. tank_Hours \in Nat
  BY TankAssumption
<1>5. PICK g \in [0..tank_Hours -> Int] : g[0] = z
        /\ \A n \in 1..tank_Hours : g[n] = step[n][g[n - 1]]
  <2> HIDE DEF step
  <2>1. SUFFICES ASSUME NEW N \in Nat, N = tank_Hours, NEW T, T = Int
                 PROVE  \E g \in [0..N -> T] : g[0] = z
                          /\ \A n \in 1..N : g[n] = step[n][g[n - 1]]
    BY <1>4
  <2>2. z \in T /\ step \in [1..N -> [T -> T]]
    BY <1>1, <1>3, <2>1
  <2> QED
    BY <2>2, Repeated, SMTT(60)
<1>6. \A n \in 1..tank_Hours : g[n] = Then(g[n - 1], n)
  <2> SUFFICES ASSUME NEW n \in 1..tank_Hours
               PROVE  g[n] = Then(g[n - 1], n)
    OBVIOUS
  <2>1. n - 1 \in 0..tank_Hours
    BY <1>4
  <2>2. g[n - 1] \in Int
    BY <2>1
  <2> QED
    BY <1>5, <2>2
<1>7. All(g)
  <2>1. ASSUME NEW n \in 0..tank_Hours
        PROVE  g[n] = IF n = 0 THEN z ELSE Then(g[n - 1], n)
    BY <1>4, <1>5, <1>6
  <2> QED
    BY <2>1
<1>9. All(Tank!Sums(m))
  <2> HIDE DEF All
  <2> QED
    BY <1>7, <1>8
<1> DEFINE r == Tank!Sums(m)
<1> HIDE DEF r
<1>10. r = [n \in 0..tank_Hours |-> IF n = 0 THEN z ELSE Then(r[n - 1], n)]
  BY <1>9 DEF r
<1>11. r[0] = z /\ \A n \in 1..tank_Hours : r[n] = Then(r[n - 1], n)
  BY <1>4, <1>10
<1> DEFINE X == {n \in 0..tank_Hours : r[n] \in Int}
<1>12. 0..tank_Hours \subseteq X
  <2>1. 0 \in X
    BY <1>1, <1>4, <1>11
  <2>2. ASSUME NEW n \in 0..(tank_Hours - 1), n \in X PROVE n + 1 \in X
    <3>1. n + 1 \in 1..tank_Hours /\ (n + 1) - 1 = n /\ n + 1 \in 0..tank_Hours
      BY <1>4
    <3>2. r[n + 1] = Then(r[(n + 1) - 1], n + 1)
      BY <1>11, <3>1
    <3>3. r[(n + 1) - 1] \in Int
      BY <2>2, <3>1
    <3> QED
      BY <1>2, <3>1, <3>2, <3>3
  <2> HIDE DEF X
  <2> QED
    BY <1>4, <2>1, <2>2, UpTo
<1>13. r \in [0..tank_Hours -> Int]
  BY <1>10, <1>12
<1>14. \A n \in 1..tank_Hours : r[n] = r[n - 1] + m[n - 1]
  BY <1>11 DEF Then
<1>15. r[0] = 0
  BY <1>11 DEF z
<1> QED
  BY <1>13, <1>14, <1>15, Zenon DEF r

\* One part of an hour leads from a house to a house.
LEMMA TankPartIs ==
  ASSUME NEW s \in TankPart, NEW k \in Int
  PROVE  Tank!Lived(s, k) \in TankPart
<1> DEFINE h == k \div Tank!Per
           on == IF \E c \in Tank!Range(tank_commands) : Tank!Is(c, TRUE, k) THEN TRUE
                 ELSE IF \E c \in Tank!Range(tank_commands) : Tank!Is(c, FALSE, k) THEN FALSE
                   ELSE s.on
           heats == on /\ Tank!BelowTarget(s.tank)
           warms == ~heats /\ h \in tank_trace.native /\ h \notin tank_trace.blocked
           tank == s.tank + (IF heats THEN Tank!Heat ELSE -Tank!Loss)
           room == s.room + (IF warms THEN 1 ELSE -1)
           ok == TankPartHolds(s, k, heats, tank, room)
<1>1. tank \in Int /\ room \in Int
  <2> HIDE DEF heats, warms
  <2> QED
    BY DEF Tank!Heat, Tank!Loss, Tank!Per, TankPart
<1>2. on \in BOOLEAN
  BY DEF TankPart
<1>3. Tank!Lived(s, k) = [on |-> on, tank |-> tank, room |-> room, ok |-> ok]
  BY Zenon DEF Tank!Lived, TankPartHolds
<1>4. ok \in BOOLEAN
  BY Zenon DEF TankPartHolds
<1> HIDE DEF on, tank, room, ok
<1> QED
  BY <1>1, <1>2, <1>3, <1>4 DEF TankPart

\* The house lives through its parts of an hour.
LEMMA TankHouseIs ==
  ASSUME tank_trace.tank \in Int, tank_trace.room \in Int, tank_trace.forced \in BOOLEAN
  PROVE  /\ Tank!House \in [0..(tank_Hours * Tank!Per) -> TankPart]
         /\ Tank!House[0] = [on |-> tank_trace.forced, tank |-> tank_trace.tank,
                             room |-> tank_trace.room, ok |-> TRUE]
         /\ \A n \in 1..(tank_Hours * Tank!Per) : Tank!House[n]
              = Tank!Lived(Tank!House[n - 1], n - 1)
<1> DEFINE z == [on |-> tank_trace.forced, tank |-> tank_trace.tank, room |-> tank_trace.room,
                 ok |-> TRUE]
           Then(s, n) == Tank!Lived(s, n - 1)
           step == [n \in 1..(tank_Hours * Tank!Per) |-> [s \in TankPart |-> Then(s, n)]]
           All(g) == g = [n \in 0..(tank_Hours * Tank!Per) |-> IF n = 0 THEN z
                            ELSE Then(g[n - 1], n)]
<1>1. z \in TankPart
  BY DEF TankPart
<1>2. ASSUME NEW n \in 1..(tank_Hours * Tank!Per), NEW s \in TankPart
      PROVE  Then(s, n) \in TankPart
  <2>1. n - 1 \in Int
    OBVIOUS
  <2> QED
    BY <2>1, TankPartIs
<1>8. Tank!House = CHOOSE g : All(g)
  BY DEF Tank!House
<1> HIDE DEF z, Then
<1>3. step \in [1..(tank_Hours * Tank!Per) -> [TankPart -> TankPart]]
  BY <1>2
<1>4. (tank_Hours * Tank!Per) \in Nat
  BY TankAssumption DEF Tank!Per
<1>5. PICK g \in [0..(tank_Hours * Tank!Per) -> TankPart] : g[0] = z
        /\ \A n \in 1..(tank_Hours * Tank!Per) : g[n] = step[n][g[n - 1]]
  <2> HIDE DEF step
  <2>1. SUFFICES ASSUME NEW N \in Nat, N = (tank_Hours * Tank!Per), NEW T, T = TankPart
                 PROVE  \E g \in [0..N -> T] : g[0] = z
                          /\ \A n \in 1..N : g[n] = step[n][g[n - 1]]
    BY <1>4
  <2>2. z \in T /\ step \in [1..N -> [T -> T]]
    BY <1>1, <1>3, <2>1
  <2> QED
    BY <2>2, Repeated, SMTT(60)
<1>6. \A n \in 1..(tank_Hours * Tank!Per) : g[n] = Then(g[n - 1], n)
  <2> SUFFICES ASSUME NEW n \in 1..(tank_Hours * Tank!Per)
               PROVE  g[n] = Then(g[n - 1], n)
    OBVIOUS
  <2>1. n - 1 \in 0..(tank_Hours * Tank!Per)
    BY <1>4
  <2>2. g[n - 1] \in TankPart
    BY <2>1
  <2> QED
    BY <1>5, <2>2
<1>7. All(g)
  <2>1. ASSUME NEW n \in 0..(tank_Hours * Tank!Per)
        PROVE  g[n] = IF n = 0 THEN z ELSE Then(g[n - 1], n)
    BY <1>4, <1>5, <1>6
  <2> QED
    BY <2>1
<1>9. All(Tank!House)
  <2> HIDE DEF All
  <2> QED
    BY <1>7, <1>8
<1> DEFINE r == Tank!House
<1> HIDE DEF r
<1>10. r = [n \in 0..(tank_Hours * Tank!Per) |-> IF n = 0 THEN z ELSE Then(r[n - 1], n)]
  BY <1>9 DEF r
<1>11. r[0] = z /\ \A n \in 1..(tank_Hours * Tank!Per) : r[n] = Then(r[n - 1], n)
  BY <1>4, <1>10
<1> DEFINE X == {n \in 0..(tank_Hours * Tank!Per) : r[n] \in TankPart}
<1>12. 0..(tank_Hours * Tank!Per) \subseteq X
  <2>1. 0 \in X
    BY <1>1, <1>4, <1>11
  <2>2. ASSUME NEW n \in 0..((tank_Hours * Tank!Per) - 1), n \in X PROVE n + 1 \in X
    <3>1. n + 1 \in 1..(tank_Hours * Tank!Per) /\ (n + 1) - 1 = n
            /\ n + 1 \in 0..(tank_Hours * Tank!Per)
      BY <1>4
    <3>2. r[n + 1] = Then(r[(n + 1) - 1], n + 1)
      BY <1>11, <3>1
    <3>3. r[(n + 1) - 1] \in TankPart
      BY <2>2, <3>1
    <3> QED
      BY <1>2, <3>1, <3>2, <3>3
  <2> HIDE DEF X
  <2> QED
    BY <1>4, <2>1, <2>2, UpTo
<1>13. r \in [0..(tank_Hours * Tank!Per) -> TankPart]
  BY <1>10, <1>12
<1>14. \A n \in 1..(tank_Hours * Tank!Per) : r[n] = Tank!Lived(r[n - 1], n - 1)
  BY <1>11 DEF Then
<1>15. r[0] = [on |-> tank_trace.forced, tank |-> tank_trace.tank, room |-> tank_trace.room,
               ok |-> TRUE]
  BY <1>11 DEF z
<1> QED
  BY <1>13, <1>14, <1>15, Zenon DEF r

\* An hour's pulse is at most one cycle.
LEMMA TankPulseIs ==
  ASSUME NEW h \in Int, NEW n \in Int
  PROVE  /\ Tank!Pulse(h, n) \in Seq(TankCommand)
         /\ ~(n > 0) => Len(Tank!Pulse(h, n)) = 0 /\ Tank!Range(Tank!Pulse(h, n)) = {}
         /\ n > 0 => Len(Tank!Pulse(h, n)) = 2
              /\ Tank!Range(Tank!Pulse(h, n)) = {Tank!On(h), Tank!Off(h, h * Tank!Per + n)}
<1>1. Tank!On(h) \in TankCommand /\ Tank!Off(h, h * Tank!Per + n) \in TankCommand
  BY DEF Tank!On, Tank!Off, TankCommand, Tank!Per
<1>2. PICK a \in TankCommand, b \in TankCommand : a = Tank!On(h)
        /\ b = Tank!Off(h, h * Tank!Per + n)
  BY <1>1
<1>3. <<a, b>> \in Seq(TankCommand) /\ Len(<<a, b>>) = 2 /\ Tank!Range(<<a, b>>) = {a, b}
  BY DEF Tank!Range
<1>4. <<>> \in Seq(TankCommand) /\ Len(<<>>) = 0 /\ Tank!Range(<<>>) = {}
  BY DEF Tank!Range
<1> QED
  BY <1>2, <1>3, <1>4 DEF Tank!Pulse

\* The cycles of the hours, one after the other.
LEMMA TankPulsesAre ==
  ASSUME NEW m \in [Tank!Slots -> Int]
  PROVE  /\ Tank!Pulses(m) \in [0..tank_Hours -> Seq(TankCommand)]
         /\ Tank!Pulses(m)[0] = <<>>
         /\ \A n \in 1..tank_Hours : Tank!Pulses(m)[n]
              = Tank!Pulses(m)[n - 1] \o Tank!Pulse(n - 1, m[n - 1])
<1> DEFINE z == <<>>
           Then(s, n) == s \o Tank!Pulse(n - 1, m[n - 1])
           step == [n \in 1..tank_Hours |-> [s \in Seq(TankCommand) |-> Then(s, n)]]
           All(g) == g = [n \in 0..tank_Hours |-> IF n = 0 THEN z ELSE Then(g[n - 1], n)]
<1>1. z \in Seq(TankCommand)
  OBVIOUS
<1>2. ASSUME NEW n \in 1..tank_Hours, NEW s \in Seq(TankCommand)
      PROVE  Then(s, n) \in Seq(TankCommand)
  <2>1. n - 1 \in Tank!Slots /\ n - 1 \in Int
    BY TankAssumption DEF Tank!Slots
  <2>2. Tank!Pulse(n - 1, m[n - 1]) \in Seq(TankCommand)
    BY <2>1, TankPulseIs
  <2> QED
    BY <2>2
<1>8. Tank!Pulses(m) = CHOOSE g : All(g)
  BY DEF Tank!Pulses
<1> HIDE DEF z, Then
<1>3. step \in [1..tank_Hours -> [Seq(TankCommand) -> Seq(TankCommand)]]
  BY <1>2
<1>4. tank_Hours \in Nat
  BY TankAssumption
<1>5. PICK g \in [0..tank_Hours -> Seq(TankCommand)] : g[0] = z
        /\ \A n \in 1..tank_Hours : g[n] = step[n][g[n - 1]]
  <2> HIDE DEF step
  <2>1. SUFFICES ASSUME NEW N \in Nat, N = tank_Hours, NEW T, T = Seq(TankCommand)
                 PROVE  \E g \in [0..N -> T] : g[0] = z
                          /\ \A n \in 1..N : g[n] = step[n][g[n - 1]]
    BY <1>4
  <2>2. z \in T /\ step \in [1..N -> [T -> T]]
    BY <1>1, <1>3, <2>1
  <2> QED
    BY <2>2, Repeated, SMTT(60)
<1>6. \A n \in 1..tank_Hours : g[n] = Then(g[n - 1], n)
  <2> SUFFICES ASSUME NEW n \in 1..tank_Hours
               PROVE  g[n] = Then(g[n - 1], n)
    OBVIOUS
  <2>1. n - 1 \in 0..tank_Hours
    BY <1>4
  <2>2. g[n - 1] \in Seq(TankCommand)
    BY <2>1
  <2> QED
    BY <1>5, <2>2
<1>7. All(g)
  <2>1. ASSUME NEW n \in 0..tank_Hours
        PROVE  g[n] = IF n = 0 THEN z ELSE Then(g[n - 1], n)
    BY <1>4, <1>5, <1>6
  <2> QED
    BY <2>1
<1>9. All(Tank!Pulses(m))
  <2> HIDE DEF All
  <2> QED
    BY <1>7, <1>8
<1> DEFINE r == Tank!Pulses(m)
<1> HIDE DEF r
<1>10. r = [n \in 0..tank_Hours |-> IF n = 0 THEN z ELSE Then(r[n - 1], n)]
  BY <1>9 DEF r
<1>11. r[0] = z /\ \A n \in 1..tank_Hours : r[n] = Then(r[n - 1], n)
  BY <1>4, <1>10
<1> DEFINE X == {n \in 0..tank_Hours : r[n] \in Seq(TankCommand)}
<1>12. 0..tank_Hours \subseteq X
  <2>1. 0 \in X
    BY <1>1, <1>4, <1>11
  <2>2. ASSUME NEW n \in 0..(tank_Hours - 1), n \in X PROVE n + 1 \in X
    <3>1. n + 1 \in 1..tank_Hours /\ (n + 1) - 1 = n /\ n + 1 \in 0..tank_Hours
      BY <1>4
    <3>2. r[n + 1] = Then(r[(n + 1) - 1], n + 1)
      BY <1>11, <3>1
    <3>3. r[(n + 1) - 1] \in Seq(TankCommand)
      BY <2>2, <3>1
    <3> QED
      BY <1>2, <3>1, <3>2, <3>3
  <2> HIDE DEF X
  <2> QED
    BY <1>4, <2>1, <2>2, UpTo
<1>13. r \in [0..tank_Hours -> Seq(TankCommand)]
  BY <1>10, <1>12
<1>14. \A n \in 1..tank_Hours : r[n] = r[n - 1] \o Tank!Pulse(n - 1, m[n - 1])
  BY <1>11 DEF Then
<1>15. r[0] = <<>>
  BY <1>11 DEF z
<1> QED
  BY <1>13, <1>14, <1>15, Zenon DEF r

TankActive(m, h) == {k \in Tank!Slots : k < h /\ m[k] > 0}
TankCycles(m, h) == {Tank!On(k) : k \in TankActive(m, h)}
  \cup {Tank!Off(k, k * Tank!Per + m[k]) : k \in TankActive(m, h)}

\* One more hour of runtimes is one more cycle, or none.
LEMMA TankActiveGrows ==
  ASSUME NEW m, NEW h \in Tank!Slots
  PROVE  /\ h \notin TankActive(m, h)
         /\ m[h] > 0 => /\ TankActive(m, h + 1) = TankActive(m, h) \cup {h}
                        /\ TankCycles(m, h + 1) = TankCycles(m, h)
                             \cup {Tank!On(h), Tank!Off(h, h * Tank!Per + m[h])}
         /\ ~(m[h] > 0) => TankActive(m, h + 1) = TankActive(m, h)
              /\ TankCycles(m, h + 1) = TankCycles(m, h)
<1>1. \A k \in Tank!Slots : k < h + 1 <=> k < h \/ k = h
  BY DEF Tank!Slots
<1>2. h \notin TankActive(m, h)
  BY DEF Tank!Slots, TankActive
<1>3. m[h] > 0 => TankActive(m, h + 1) = TankActive(m, h) \cup {h}
  BY <1>1 DEF TankActive
<1>4. ~(m[h] > 0) => TankActive(m, h + 1) = TankActive(m, h)
  BY <1>1 DEF TankActive
<1> QED
  BY <1>2, <1>3, <1>4, Zenon DEF TankCycles

\* The serialised commands are a cycle for each hour that has a runtime.
LEMMA TankSerialisedAre ==
  ASSUME NEW m \in [Tank!Slots -> 0..Tank!Per]
  PROVE  /\ Tank!Serialised(m) \in Seq(TankCommand)
         /\ Tank!Range(Tank!Serialised(m)) = TankCycles(m, tank_Hours)
         /\ IsFiniteSet(TankActive(m, tank_Hours))
         /\ Len(Tank!Serialised(m)) = 2 * Cardinality(TankActive(m, tank_Hours))
<1>1. m \in [Tank!Slots -> Int] /\ tank_Hours \in Nat
  BY TankAssumption DEF Tank!Per
<1> DEFINE p == Tank!Pulses(m)
           X == {h \in 0..tank_Hours : /\ Tank!Range(p[h]) = TankCycles(m, h)
                                       /\ IsFiniteSet(TankActive(m, h))
                                       /\ Len(p[h]) = 2 * Cardinality(TankActive(m, h))}
<1>2. /\ p \in [0..tank_Hours -> Seq(TankCommand)]
      /\ p[0] = <<>>
      /\ \A n \in 1..tank_Hours : p[n] = p[n - 1] \o Tank!Pulse(n - 1, m[n - 1])
  BY <1>1, TankPulsesAre
<1> HIDE DEF p
<1>3. 0 \in X
  <2>1. TankActive(m, 0) = {}
    BY <1>1 DEF TankActive, Tank!Slots
  <2>2. TankCycles(m, 0) = {}
    BY <2>1 DEF TankCycles
  <2>3. Tank!Range(p[0]) = {} /\ Len(p[0]) = 0
    BY <1>2 DEF Tank!Range
  <2>4. IsFiniteSet({}) /\ Cardinality({}) = 0
    BY FS_EmptySet
  <2>5. Len(p[0]) = 2 * Cardinality(TankActive(m, 0))
    <3>1. Len(p[0]) = 0 /\ Cardinality(TankActive(m, 0)) = 0
      BY <2>1, <2>3, <2>4
    <3> QED
      BY <3>1
  <2>7. Tank!Range(p[0]) = TankCycles(m, 0)
    BY <2>2, <2>3
  <2>6. IsFiniteSet(TankActive(m, 0)) /\ 0 \in 0..tank_Hours
    BY <1>1, <2>1, <2>4
  <2> QED
    BY <2>5, <2>6, <2>7
<1>4. ASSUME NEW h \in 0..(tank_Hours - 1), h \in X
      PROVE  h + 1 \in X
  <2>1. /\ h \in Tank!Slots /\ h + 1 \in 1..tank_Hours /\ (h + 1) - 1 = h /\ h \in Int
             /\ h \in 0..tank_Hours
        /\ h + 1 \in 0..tank_Hours
    BY <1>1 DEF Tank!Slots
  <2>2. PICK s \in Seq(TankCommand) : s = p[h]
    BY <1>2, <2>1
  <2>3. PICK t \in Seq(TankCommand) : t = Tank!Pulse(h, m[h])
    BY <1>1, <2>1, TankPulseIs
  <2>4. p[h + 1] = s \o t
    BY <1>2, <2>1, <2>2, <2>3
  <2>5. Len(s \o t) = Len(s) + Len(t) /\ Tank!Range(s \o t) = Tank!Range(s) \cup Tank!Range(t)
    BY TankRangesAre
  <2>6. /\ Tank!Range(s) = TankCycles(m, h) /\ IsFiniteSet(TankActive(m, h))
        /\ Len(s) = 2 * Cardinality(TankActive(m, h))
    BY <1>4, <2>2
  <2>7. CASE m[h] > 0
    <3>1. Len(t) = 2 /\ Tank!Range(t) = {Tank!On(h), Tank!Off(h, h * Tank!Per + m[h])}
      BY <1>1, <2>1, <2>3, <2>7, TankPulseIs
    <3>2. /\ TankActive(m, h + 1) = TankActive(m, h) \cup {h} /\ h \notin TankActive(m, h)
          /\ TankCycles(m, h + 1) = TankCycles(m, h)
               \cup {Tank!On(h), Tank!Off(h, h * Tank!Per + m[h])}
      BY <2>1, <2>7, TankActiveGrows
    <3>3. /\ IsFiniteSet(TankActive(m, h + 1))
          /\ Cardinality(TankActive(m, h + 1)) = Cardinality(TankActive(m, h)) + 1
      BY <2>6, <3>2, FS_AddElement
    <3>4. Cardinality(TankActive(m, h)) \in Nat
      BY <2>6, FS_CardinalityType
    <3>5. Len(p[h + 1]) = 2 * Cardinality(TankActive(m, h + 1))
      BY <2>4, <2>5, <2>6, <3>1, <3>3, <3>4
    <3>6. Tank!Range(p[h + 1]) = TankCycles(m, h + 1)
      BY <2>4, <2>5, <2>6, <3>1, <3>2
    <3> QED
      BY <2>1, <3>3, <3>5, <3>6
  <2>8. CASE ~(m[h] > 0)
    <3>1. Len(t) = 0 /\ Tank!Range(t) = {}
      BY <1>1, <2>1, <2>3, <2>8, TankPulseIs
    <3>2. TankActive(m, h + 1) = TankActive(m, h) /\ TankCycles(m, h + 1) = TankCycles(m, h)
      BY <2>1, <2>8, TankActiveGrows
    <3>4. Cardinality(TankActive(m, h)) \in Nat
      BY <2>6, FS_CardinalityType
    <3>5. Len(p[h + 1]) = 2 * Cardinality(TankActive(m, h + 1))
      BY <2>4, <2>5, <2>6, <3>1, <3>2, <3>4
    <3>6. Tank!Range(p[h + 1]) = TankCycles(m, h + 1)
      BY <2>4, <2>5, <2>6, <3>1, <3>2
    <3> QED
      BY <2>1, <2>6, <3>2, <3>5, <3>6
  <2> QED
    BY <2>7, <2>8
<1>5. 0..tank_Hours \subseteq X
  <2> HIDE DEF X
  <2> QED
    BY <1>1, <1>3, <1>4, UpTo
<1>6. tank_Hours \in X /\ tank_Hours \in 0..tank_Hours
  <2> HIDE DEF X
  <2>1. tank_Hours \in 0..tank_Hours
    BY <1>1
  <2> QED
    BY <1>5, <2>1
<1>7. Tank!Serialised(m) = p[tank_Hours]
  BY DEF Tank!Serialised, p
<1> QED
  BY <1>2, <1>6, <1>7

TankStarts(cs) == {c \in Tank!Range(cs) : c.on}

\* The serialised commands are pulses, each as long as the runtime of its hour.
LEMMA TankSerialisedArePulses ==
  ASSUME NEW m \in Tank!Runtimes
  PROVE  Tank!ArePulses(Tank!Serialised(m))
           /\ \A h \in Tank!Slots : Tank!PulseIn(h, Tank!Serialised(m)) = m[h]
<1> DEFINE cs == Tank!Serialised(m)
           act == TankActive(m, tank_Hours)
<1>1. m \in [Tank!Slots -> 0..Tank!Per] /\ tank_Hours \in Nat
  BY TankAssumption DEF Tank!Runtimes
<1>2. /\ Tank!Range(cs) = {Tank!On(k) : k \in act}
           \cup {Tank!Off(k, k * Tank!Per + m[k]) : k \in act}
      /\ IsFiniteSet(act) /\ Len(cs) = 2 * Cardinality(act)
  BY <1>1, TankSerialisedAre DEF TankCycles
<1>3. /\ act = {k \in Tank!Slots : m[k] > 0}
      /\ \A k \in act : k \in Tank!Slots /\ k \in Nat /\ k + 1 <= tank_Hours /\ m[k] \in 1..2
           /\ m[k] \in Int
  BY <1>1 DEF TankActive, Tank!Slots, Tank!Per
<1> HIDE DEF cs, act
<1>4. \A k, t : /\ Tank!On(k).on /\ Tank!On(k).key = k /\ Tank!On(k).time = k * 2
               /\ ~Tank!Off(k, t).on /\ Tank!Off(k, t).key = k /\ Tank!Off(k, t).time = t
  BY DEF Tank!On, Tank!Off, Tank!Per
<1>5. \A c \in Tank!Range(cs) :
         \/ \E k \in act : c = Tank!On(k) /\ c.on /\ c.key = k /\ c.time = k * 2
         \/ \E k \in act : c = Tank!Off(k, k * 2 + m[k]) /\ ~c.on /\ c.key = k
              /\ c.time = k * 2 + m[k]
  <2> SUFFICES ASSUME NEW c \in Tank!Range(cs)
               PROVE  \/ \E k \in act : c = Tank!On(k) /\ c.on /\ c.key = k /\ c.time = k * 2
                      \/ \E k \in act : /\ c = Tank!Off(k, k * 2 + m[k]) /\ ~c.on
                                        /\ c.key = k /\ c.time = k * 2 + m[k]
    OBVIOUS
  <2>1. CASE \E k \in act : c = Tank!On(k)
    BY <1>4, <2>1
  <2>2. CASE \E k \in act : c = Tank!Off(k, k * Tank!Per + m[k])
    <3>1. PICK k \in act : c = Tank!Off(k, k * 2 + m[k])
      BY <2>2 DEF Tank!Per
    <3>2. /\ ~Tank!Off(k, k * 2 + m[k]).on /\ Tank!Off(k, k * 2 + m[k]).key = k
          /\ Tank!Off(k, k * 2 + m[k]).time = k * 2 + m[k]
      BY <1>4
    <3>3. ~c.on /\ c.key = k /\ c.time = k * 2 + m[k]
      BY <3>1, <3>2
    <3> QED
      BY <3>1, <3>3
  <2> QED
    BY <1>2, <2>1, <2>2
<1>6. \A k \in act : Tank!On(k) \in Tank!Range(cs)
        /\ Tank!Off(k, k * 2 + m[k]) \in Tank!Range(cs)
  BY <1>2, <1>3 DEF Tank!Per
<1>7. ASSUME NEW k \in act
      PROVE  Tank!PulseEnd(Tank!On(k), cs) = k * 2 + m[k]
  <2> DEFINE c == CHOOSE c \in Tank!Range(cs) : ~c.on /\ c.key = Tank!On(k).key
  <2>1. Tank!On(k).key = k
    BY <1>4
  <2>2. Tank!Off(k, k * 2 + m[k]) \in Tank!Range(cs) /\ ~Tank!Off(k, k * 2 + m[k]).on
          /\ Tank!Off(k, k * 2 + m[k]).key = k
    BY <1>4, <1>6
  <2>3. c \in Tank!Range(cs) /\ ~c.on /\ c.key = k
    BY <2>1, <2>2
  <2> HIDE DEF c
  <2>4. c.time = k * 2 + m[k]
    BY <1>5, <2>3
  <2> QED
    BY <2>4 DEF Tank!PulseEnd, c
<1>8. TankStarts(cs) = {Tank!On(k) : k \in act}
  BY <1>3, <1>4, <1>5, <1>6 DEF TankStarts
<1>9. IsFiniteSet(TankStarts(cs)) /\ Cardinality(TankStarts(cs)) = Cardinality(act)
  <2> DEFINE f == [k \in act |-> Tank!On(k)]
  <2>1. f \in Bijection(act, TankStarts(cs))
    BY <1>3, <1>4, <1>8 DEF Bijection, Injection, Surjection, IsInjective
  <2> HIDE DEF f
  <2> QED
    BY <1>2, <2>1, FS_Bijection DEF ExistsBijection
<1>10. Cardinality(TankStarts(cs)) <= Tank!MaxPulses
         /\ Len(cs) = 2 * Cardinality(TankStarts(cs))
  BY <1>2, <1>3, <1>9, TankCardinalityIs DEF Tank!Runtimes
<1>11. ASSUME NEW c \in Tank!Range(cs)
       PROVE  0 <= c.time /\ c.time <= tank_Hours * Tank!Per
  BY <1>1, <1>3, <1>5 DEF Tank!Per
<1>12. ASSUME NEW s \in TankStarts(cs)
       PROVE  /\ \E c \in Tank!Range(cs) : ~c.on /\ c.key = s.key /\ s.time < c.time
              /\ s.time % Tank!Per = 0
              /\ \A t \in TankStarts(cs) \ {s} : Tank!PulseEnd(t, cs) <= s.time
                   \/ Tank!PulseEnd(s, cs) <= t.time
  <2>1. PICK k \in act : s = Tank!On(k)
    BY <1>8
  <2>2. s.key = k /\ s.time = k * 2 /\ k \in Nat /\ m[k] \in 1..2
    BY <1>3, <1>4, <2>1
  <2>3. \E c \in Tank!Range(cs) : ~c.on /\ c.key = s.key /\ s.time < c.time
    <3>1. Tank!Off(k, k * 2 + m[k]) \in Tank!Range(cs)
      BY <1>6
    <3>2. ~Tank!Off(k, k * 2 + m[k]).on /\ Tank!Off(k, k * 2 + m[k]).key = k
            /\ Tank!Off(k, k * 2 + m[k]).time = k * 2 + m[k]
      BY <1>4
    <3>3. s.time < k * 2 + m[k]
      BY <2>2
    <3> QED
      BY <2>2, <3>1, <3>2, <3>3
  <2>4. s.time % Tank!Per = 0
    BY <2>2 DEF Tank!Per
  <2>5. ASSUME NEW t \in TankStarts(cs) \ {s}
        PROVE  Tank!PulseEnd(t, cs) <= s.time \/ Tank!PulseEnd(s, cs) <= t.time
    <3>1. PICK j \in act : t = Tank!On(j)
      BY <1>8
    <3>2. t.time = j * 2 /\ j \in Nat /\ m[j] \in 1..2 /\ j # k
      BY <1>3, <1>4, <2>1, <3>1
    <3>3. Tank!PulseEnd(t, cs) = j * 2 + m[j] /\ Tank!PulseEnd(s, cs) = k * 2 + m[k]
      BY <1>7, <2>1, <3>1
    <3> QED
      BY <2>2, <3>2, <3>3
  <2> QED
    BY <2>3, <2>4, <2>5
<1>13. Tank!ArePulses(cs)
  <2>1. Tank!Cardinality(TankStarts(cs)) = Cardinality(TankStarts(cs))
    BY TankCardinalityIs
  <2>2. /\ Tank!Cardinality(TankStarts(cs)) <= Tank!MaxPulses
        /\ Len(cs) = 2 * Tank!Cardinality(TankStarts(cs))
    BY <1>10, <2>1
  <2> QED
    BY <1>11, <1>12, <2>2, Zenon DEF Tank!ArePulses, TankStarts
<1>14. ASSUME NEW h \in Tank!Slots
       PROVE  Tank!PulseIn(h, cs) = m[h]
  <2> DEFINE over == {c \in Tank!Range(cs) : c.on /\ c.time <= h * Tank!Per
                      /\ h * Tank!Per < Tank!PulseEnd(c, cs)}
  <2>1. h \in Nat /\ m[h] \in 0..2 /\ m[h] \in Int
    BY <1>1 DEF Tank!Slots, Tank!Per
  <2>2. ASSUME NEW c \in over
        PROVE  c = Tank!On(h) /\ m[h] > 0
    <3>1. PICK k \in act : c = Tank!On(k)
      BY <1>8 DEF TankStarts
    <3>2. c.time = k * 2 /\ k \in Nat /\ m[k] \in 1..2
      BY <1>3, <1>4, <3>1
    <3>3. Tank!PulseEnd(c, cs) = k * 2 + m[k]
      BY <1>7, <3>1
    <3>4. k * 2 <= h * 2 /\ h * 2 < k * 2 + m[k]
      BY <3>2, <3>3 DEF Tank!Per
    <3>5. k = h
      BY <2>1, <3>2, <3>4
    <3> QED
      BY <3>1, <3>2, <3>5
  <2>3. CASE m[h] > 0
    <3>1. h \in act
      BY <1>3, <2>3
    <3>2. Tank!On(h) \in Tank!Range(cs) /\ Tank!On(h).on /\ Tank!On(h).time = h * 2
      BY <1>4, <1>6, <2>1, <3>1
    <3>3. Tank!PulseEnd(Tank!On(h), cs) = h * 2 + m[h]
      BY <1>7, <3>1
    <3>4. Tank!On(h) \in over
      BY <2>1, <2>3, <3>2, <3>3 DEF Tank!Per
    <3>5. over = {Tank!On(h)}
      BY <2>2, <3>4
    <3> HIDE DEF over
    <3>6. over # {} /\ (CHOOSE c \in over : TRUE) = Tank!On(h)
      BY <3>5
    <3>7. Tank!PulseIn(h, cs) =
            Tank!Min({Tank!Per, Tank!PulseEnd(Tank!On(h), cs) - h * Tank!Per})
      BY <3>6 DEF Tank!PulseIn, over
    <3>8. Tank!PulseEnd(Tank!On(h), cs) - h * Tank!Per = m[h] /\ Tank!Per \in Int
            /\ m[h] <= Tank!Per /\ Tank!Per = 2
      BY <2>1, <3>3 DEF Tank!Per
    <3>9. Tank!Min({Tank!Per, m[h]}) = m[h]
      BY <2>1, <3>8, TankMinIs
    <3> QED
      BY <3>7, <3>8, <3>9
  <2>4. CASE ~(m[h] > 0)
    <3>1. over = {}
      BY <2>2, <2>4
    <3>2. Tank!PulseIn(h, cs) = 0
      BY <3>1 DEF Tank!PulseIn
    <3> QED
      BY <2>1, <2>4, <3>2
  <2> QED
    BY <2>3, <2>4
<1> QED
  BY <1>13, <1>14 DEF cs

\* What an hour of the replay does to the house, and what it asks for.
LEMMA TankHourDoes ==
  ASSUME NEW s \in TankRoom, NEW h \in Int, NEW n \in Int, NEW q, q = Tank!ReplayHour(s, h, n)
  PROVE  /\ q.tank = s.tank + n * 10 - (2 - n)
         /\ q.room = (s.room - n) + (2 - n) * (IF h \in tank_trace.native THEN 1 ELSE -1)
         /\ q.ok <=> TankHourHolds(s, h, n, s.tank + n * 10, q.tank, s.room - n, q.room)
<1> DEFINE peak == s.tank + n * Tank!Heat
           tank == peak - (Tank!Per - n) * Tank!Loss
           dip == Tank!Diverted(s.room, h, n)
           room == Tank!Heated(dip, h, Tank!Per - n)
<1>1. q = [tank |-> tank, room |-> room, ok |-> TankHourHolds(s, h, n, peak, tank, dip, room)]
  BY Zenon DEF Tank!ReplayHour, TankHourHolds
<1>2. Tank!Heat = 10 /\ Tank!Loss = 1 /\ Tank!Per = 2
  BY DEF Tank!Heat, Tank!Loss, Tank!Per
<1>3. s.tank \in Int /\ s.room \in Int
  BY DEF TankRoom
<1>4. peak = s.tank + n * 10 /\ dip = s.room - n
  BY <1>2 DEF Tank!Diverted
<1>5. tank = s.tank + n * 10 - (2 - n)
  BY <1>2, <1>3
<1>6. room = (s.room - n) + (2 - n) * (IF h \in tank_trace.native THEN 1 ELSE -1)
  BY <1>2, <1>4 DEF Tank!Heated
<1> HIDE DEF peak, tank, dip, room
<1>7. TankHourHolds(s, h, n, peak, tank, dip, room) \in BOOLEAN
  BY Zenon DEF TankHourHolds
<1>8. q.tank = tank /\ q.room = room /\ q.ok = TankHourHolds(s, h, n, peak, tank, dip, room)
  BY <1>1
<1>9. q.ok = TankHourHolds(s, h, n, s.tank + n * 10, q.tank, s.room - n, q.room)
  BY <1>4, <1>8, Zenon
<1> QED
  BY <1>5, <1>6, <1>8, <1>9

\* The sums of the solver, hour by hour.
LEMMA TankHouseAtIs ==
  ASSUME NEW m \in [Tank!Slots -> 0..Tank!Per], tank_trace.tank \in Int, tank_trace.room \in Int
  PROVE  /\ \A h \in 0..tank_Hours : Tank!TankAt(m, h) \in Int /\ Tank!RoomAt(m, h) \in Int
         /\ Tank!TankAt(m, 0) = tank_trace.tank /\ Tank!RoomAt(m, 0) = tank_trace.room
         /\ \A h \in Tank!Slots :
              /\ Tank!TankAt(m, h + 1) = Tank!TankAt(m, h) + m[h] * 10 - (2 - m[h])
              /\ Tank!RoomAt(m, h + 1) = (Tank!RoomAt(m, h) - m[h])
                   + (2 - m[h]) * (IF h \in tank_trace.native THEN 1 ELSE -1)
<1>1. Tank!Heat = 10 /\ Tank!Loss = 1 /\ Tank!Per = 2 /\ tank_Hours \in Nat
  BY TankAssumption DEF Tank!Heat, Tank!Loss, Tank!Per
<1>2. m \in [Tank!Slots -> Int]
  BY <1>1
<1> DEFINE n == Tank!Native(m)
<1>3. n \in [Tank!Slots -> Int]
        /\ \A h \in Tank!Slots : n[h] = IF h \in tank_trace.native THEN 2 * (2 - m[h]) ELSE 0
  BY <1>1, <1>2 DEF Tank!Native
<1> HIDE DEF n
<1> DEFINE a == Tank!Sums(m)
           b == Tank!Sums(n)
<1>4. /\ a \in [0..tank_Hours -> Int] /\ a[0] = 0
      /\ \A h \in 1..tank_Hours : a[h] = a[h - 1] + m[h - 1]
  BY <1>2, TankSumsAre
<1>5. /\ b \in [0..tank_Hours -> Int] /\ b[0] = 0
      /\ \A h \in 1..tank_Hours : b[h] = b[h - 1] + n[h - 1]
  BY <1>3, TankSumsAre
<1> HIDE DEF a, b
<1>6. \A h : /\ Tank!TankAt(m, h) = tank_trace.tank + 10 * a[h] - 1 * (2 * h - a[h])
             /\ Tank!RoomAt(m, h) = tank_trace.room - 2 * h + b[h]
  BY <1>1 DEF Tank!TankAt, Tank!RoomAt, a, b, n
<1>7. ASSUME NEW h \in 0..tank_Hours
      PROVE  Tank!TankAt(m, h) \in Int /\ Tank!RoomAt(m, h) \in Int
  <2>1. a[h] \in Int /\ b[h] \in Int /\ h \in Int
    BY <1>4, <1>5
  <2>2. tank_trace.tank + 10 * a[h] - 1 * (2 * h - a[h]) \in Int
          /\ tank_trace.room - 2 * h + b[h] \in Int
    BY <2>1
  <2> QED
    BY <1>6, <2>2
<1>8. Tank!TankAt(m, 0) = tank_trace.tank /\ Tank!RoomAt(m, 0) = tank_trace.room
  <2>1. Tank!TankAt(m, 0) = tank_trace.tank + 10 * a[0] - 1 * (2 * 0 - a[0])
    BY <1>6
  <2>2. Tank!RoomAt(m, 0) = tank_trace.room - 2 * 0 + b[0]
    BY <1>6
  <2> QED
    BY <1>4, <1>5, <2>1, <2>2
<1>9. ASSUME NEW h \in Tank!Slots
      PROVE  /\ Tank!TankAt(m, h + 1) = Tank!TankAt(m, h) + m[h] * 10 - (2 - m[h])
             /\ Tank!RoomAt(m, h + 1) = (Tank!RoomAt(m, h) - m[h])
                  + (2 - m[h]) * (IF h \in tank_trace.native THEN 1 ELSE -1)
  <2>1. h \in 0..tank_Hours /\ h \in Int /\ h + 1 \in 1..tank_Hours /\ (h + 1) - 1 = h
    BY <1>1 DEF Tank!Slots
  <2>2. a[h + 1] = a[h] + m[h] /\ b[h + 1] = b[h] + n[h] /\ a[h] \in Int /\ b[h] \in Int
          /\ m[h] \in Int
    BY <1>2, <1>4, <1>5, <2>1
  <2>3. n[h] = IF h \in tank_trace.native THEN 2 * (2 - m[h]) ELSE 0
    BY <1>3
  <2>4. Tank!TankAt(m, h + 1) =
          tank_trace.tank + 10 * (a[h] + m[h]) - 1 * (2 * (h + 1) - (a[h] + m[h]))
    BY <1>6, <2>2
  <2>5. Tank!TankAt(m, h) = tank_trace.tank + 10 * a[h] - 1 * (2 * h - a[h])
    BY <1>6
  <2>6. Tank!RoomAt(m, h + 1) = tank_trace.room - 2 * (h + 1) + (b[h] + n[h])
    BY <1>6, <2>2
  <2>7. Tank!RoomAt(m, h) = tank_trace.room - 2 * h + b[h]
    BY <1>6
  <2>8. Tank!TankAt(m, h + 1) = Tank!TankAt(m, h) + m[h] * 10 - (2 - m[h])
    BY <2>1, <2>2, <2>4, <2>5
  <2>9. CASE h \in tank_trace.native
    BY <2>1, <2>2, <2>3, <2>6, <2>7, <2>8, <2>9
  <2>10. CASE h \notin tank_trace.native
    BY <2>1, <2>2, <2>3, <2>6, <2>7, <2>8, <2>10
  <2> QED
    BY <2>9, <2>10
<1> QED
  BY <1>7, <1>8, <1>9

\* What the solver asks of an hour, as the replay does.
TankDemanded(m, h) ==
  /\ m[h] > 0 => /\ Tank!BelowTarget(Tank!TankAt(m, h))
                      /\ Tank!BelowTarget(Tank!TankAt(m, h) + m[h] * 10)
                 /\ Tank!Within(Tank!TankAt(m, h) + m[h] * 10, Tank!RoomAt(m, h) - m[h], h)
  /\ Tank!Within(Tank!TankAt(m, h + 1), Tank!RoomAt(m, h + 1), h)
  /\ h + 1 \in Tank!Deadlines => Tank!TankAt(m, h + 1) >= Tank!DeadlineFloor

\* The replay of a schedule reaches the house of the solver, and asks for what is demanded.
LEMMA TankReplayIsTheSolvers ==
  ASSUME NEW m \in Tank!Runtimes, tank_trace.tank \in Int, tank_trace.room \in Int
  PROVE  Tank!Replayed(Tank!Serialised(m))[tank_Hours].ok <=> \A h \in Tank!Slots :
           TankDemanded(m, h)
<1>1. m \in [Tank!Slots -> 0..Tank!Per] /\ tank_Hours \in Nat /\ Tank!Per = 2
  BY TankAssumption DEF Tank!Runtimes, Tank!Per
<1>2. \A h \in Tank!Slots : Tank!PulseIn(h, Tank!Serialised(m)) = m[h] /\ m[h] \in Int
  BY <1>1, TankSerialisedArePulses
<1> DEFINE r == Tank!Replayed(Tank!Serialised(m))
<1>3. /\ r \in [0..tank_Hours -> TankRoom]
      /\ r[0] = [tank |-> tank_trace.tank, room |-> tank_trace.room, ok |-> TRUE]
      /\ \A n \in 1..tank_Hours :
           r[n] = Tank!ReplayHour(r[n - 1], n - 1, Tank!PulseIn(n - 1, Tank!Serialised(m)))
  <2>1. \A h \in Tank!Slots : Tank!PulseIn(h, Tank!Serialised(m)) \in Int
    BY <1>2
  <2> QED
    BY <2>1, TankReplayedIs
<1> HIDE DEF r
<1>4. ASSUME NEW h \in Tank!Slots
      PROVE  r[h] \in TankRoom /\ h \in Int /\ h + 1 \in 0..tank_Hours
               /\ r[h + 1] = Tank!ReplayHour(r[h], h, m[h])
  <2>1. h \in 0..tank_Hours /\ h \in Int /\ h + 1 \in 1..tank_Hours /\ (h + 1) - 1 = h
          /\ h + 1 \in 0..tank_Hours
    BY <1>1 DEF Tank!Slots
  <2>2. r[h + 1] = Tank!ReplayHour(r[h], h, Tank!PulseIn(h, Tank!Serialised(m)))
    BY <1>3, <2>1
  <2> QED
    BY <1>2, <1>3, <2>1, <2>2
<1>5. /\ \A h \in 0..tank_Hours : Tank!TankAt(m, h) \in Int /\ Tank!RoomAt(m, h) \in Int
      /\ Tank!TankAt(m, 0) = tank_trace.tank /\ Tank!RoomAt(m, 0) = tank_trace.room
      /\ \A h \in Tank!Slots :
           /\ Tank!TankAt(m, h + 1) = Tank!TankAt(m, h) + m[h] * 10 - (2 - m[h])
           /\ Tank!RoomAt(m, h + 1) = (Tank!RoomAt(m, h) - m[h])
                + (2 - m[h]) * (IF h \in tank_trace.native THEN 1 ELSE -1)
  BY <1>1, TankHouseAtIs
<1> DEFINE Fits(h) == /\ r[h].tank = Tank!TankAt(m, h) /\ r[h].room = Tank!RoomAt(m, h)
                      /\ r[h].ok <=> \A k \in Tank!Slots : k < h => TankDemanded(m, k)
           X == {h \in 0..tank_Hours : Fits(h)}
<1>6. 0 \in X
  <2>1. ~\E k \in Tank!Slots : k < 0
    BY <1>1 DEF Tank!Slots
  <2>2. Fits(0)
    BY <1>3, <1>5, <2>1
  <2> QED
    BY <1>1, <2>2
<1>7. ASSUME NEW h \in 0..(tank_Hours - 1), h \in X
      PROVE  h + 1 \in X
  <2>1. h \in Tank!Slots /\ h \in Int
    BY DEF Tank!Slots
  <2>2. Fits(h)
    BY <1>7
  <2>3. r[h] \in TankRoom /\ h + 1 \in 0..tank_Hours
          /\ r[h + 1] = Tank!ReplayHour(r[h], h, m[h]) /\ m[h] \in Int
    BY <1>2, <1>4, <2>1
  <2>4. PICK q : q = r[h + 1]
    OBVIOUS
  <2>5. /\ q.tank = r[h].tank + m[h] * 10 - (2 - m[h])
        /\ q.room = (r[h].room - m[h]) + (2 - m[h]) * (IF h \in tank_trace.native THEN 1
                                                         ELSE -1)
        /\ q.ok <=> TankHourHolds(r[h], h, m[h], r[h].tank + m[h] * 10, q.tank,
                                  r[h].room - m[h], q.room)
    BY <2>1, <2>3, <2>4, TankHourDoes
  <2>6. q.tank = Tank!TankAt(m, h + 1) /\ q.room = Tank!RoomAt(m, h + 1)
    BY <1>5, <2>1, <2>2, <2>5
  <2>7. q.ok <=> r[h].ok /\ TankDemanded(m, h)
    <3>1. TankHourHolds(r[h], h, m[h], r[h].tank + m[h] * 10, q.tank, r[h].room - m[h], q.room)
            <=> r[h].ok /\ TankDemanded(m, h)
      BY <2>2, <2>6, Zenon DEF TankHourHolds, TankDemanded
    <3> QED
      BY <2>5, <3>1
  <2>8. \A k \in Tank!Slots : k < h + 1 <=> k < h \/ k = h
    BY <2>1 DEF Tank!Slots
  <2>9. (\A k \in Tank!Slots : k < h + 1 => TankDemanded(m, k))
          <=> (\A k \in Tank!Slots : k < h => TankDemanded(m, k)) /\ TankDemanded(m, h)
    BY <2>1, <2>8, Zenon
  <2>10. Fits(h + 1)
    BY <2>2, <2>4, <2>6, <2>7, <2>9
  <2> QED
    BY <2>3, <2>10
<1>8. 0..tank_Hours \subseteq X
  <2> HIDE DEF X
  <2> QED
    BY <1>1, <1>6, <1>7, UpTo
<1>9. Fits(tank_Hours)
  <2>1. tank_Hours \in 0..tank_Hours
    BY <1>1
  <2> QED
    BY <1>8, <2>1
<1>10. \A k \in Tank!Slots : k < tank_Hours
  BY <1>1 DEF Tank!Slots
<1> QED
  BY <1>9, <1>10 DEF r

\* The demands of all hours are the constraints of the solver.
LEMMA TankDemandsAreFeasible ==
  ASSUME NEW m \in Tank!Runtimes, tank_trace.tank \in Int, tank_trace.room \in Int
  PROVE  Tank!Feasible(m) <=> \A h \in Tank!Slots : TankDemanded(m, h)
<1>1. m \in [Tank!Slots -> 0..Tank!Per] /\ tank_Hours \in Nat /\ Tank!Per = 2 /\ Tank!Heat = 10
  BY TankAssumption DEF Tank!Runtimes, Tank!Per, Tank!Heat
<1>2. /\ \A h \in 0..tank_Hours : Tank!TankAt(m, h) \in Int /\ Tank!RoomAt(m, h) \in Int
      /\ Tank!TankAt(m, 0) = tank_trace.tank
  BY <1>1, TankHouseAtIs
<1> DEFINE Peak(h) == Tank!TankAt(m, h) + Tank!Heat * m[h]
           Excess(h) == IF h = 0 THEN Tank!Max({0, tank_trace.tank - Tank!Ceiling}) ELSE 0
           Asked(h) ==
             /\ Peak(h) <= Tank!Ceiling + (IF m[h] > 0 THEN 0 ELSE Excess(h))
             /\ m[h] > 0 => Tank!BelowTarget(Tank!TankAt(m, h)) /\ Tank!BelowTarget(Peak(h))
             /\ m[h] > 0 => Tank!TankFloor(h) <= Peak(h)
             /\ m[h] > 0 => Tank!RoomFloor <= Tank!RoomAt(m, h) - m[h]
                  /\ Tank!RoomAt(m, h) - m[h] <= Tank!RoomCeiling
             /\ Tank!Within(Tank!TankAt(m, h + 1), Tank!RoomAt(m, h + 1), h)
             /\ h + 1 \in Tank!Deadlines => Tank!TankAt(m, h + 1) >= Tank!DeadlineFloor
<1>3. Tank!Feasible(m) <=> \A h \in Tank!Slots : Asked(h)
  BY Zenon DEF Tank!Feasible
<1>4. ASSUME NEW h \in Tank!Slots
      PROVE  /\ h \in Nat /\ m[h] \in 0..2 /\ Tank!TankAt(m, h) \in Int
                  /\ Tank!RoomAt(m, h) \in Int
             /\ Peak(h) = Tank!TankAt(m, h) + m[h] * 10 /\ Tank!Ceiling \in Int
  <2>1. h \in Nat /\ h \in 0..tank_Hours /\ m[h] \in 0..2
    BY <1>1 DEF Tank!Slots
  <2>2. Tank!TankAt(m, h) \in Int
    BY <1>2, <2>1
  <2>3. Tank!Heat * m[h] = m[h] * 10
    BY <1>1, <2>1
  <2> QED
    BY <1>2, <2>1, <2>2, <2>3 DEF Tank!Ceiling
<1>5. ASSUME NEW h \in Tank!Slots, Asked(h)
      PROVE  TankDemanded(m, h)
  <2>1. CASE m[h] > 0
    <3>1. Tank!Within(Peak(h), Tank!RoomAt(m, h) - m[h], h)
      <4> HIDE DEF Peak
      <4>1. Tank!Ceiling + 0 = Tank!Ceiling
        BY DEF Tank!Ceiling
      <4> QED
        BY <1>5, <2>1, <4>1 DEF Tank!Within
    <3> HIDE DEF Peak
    <3> QED
      BY <1>4, <1>5, <2>1, <3>1 DEF TankDemanded
  <2>2. CASE ~(m[h] > 0)
    BY <1>5, <2>2, Zenon DEF TankDemanded
  <2> QED
    BY <2>1, <2>2
<1>6. ASSUME \A k \in Tank!Slots : TankDemanded(m, k), NEW h \in Tank!Slots
      PROVE  Asked(h)
  <2>1. TankDemanded(m, h)
    BY <1>6
  <2>2. /\ Tank!Within(Tank!TankAt(m, h + 1), Tank!RoomAt(m, h + 1), h)
        /\ h + 1 \in Tank!Deadlines => Tank!TankAt(m, h + 1) >= Tank!DeadlineFloor
    BY <2>1 DEF TankDemanded
  <2>3. CASE m[h] > 0
    <3>1. Tank!BelowTarget(Tank!TankAt(m, h)) /\ Tank!BelowTarget(Peak(h))
            /\ Tank!Within(Peak(h), Tank!RoomAt(m, h) - m[h], h)
      <4> HIDE DEF Peak
      <4> QED
        BY <1>4, <2>1, <2>3 DEF TankDemanded
    <3> HIDE DEF Peak
    <3>2. Tank!Ceiling + 0 = Tank!Ceiling
      BY DEF Tank!Ceiling
    <3> QED
      BY <2>2, <2>3, <3>1, <3>2 DEF Tank!Within
  <2>4. CASE ~(m[h] > 0)
    <3>1. Peak(h) = Tank!TankAt(m, h)
      BY <1>4, <2>4
    <3>2. CASE h = 0
      <4>1. Excess(h) = Tank!Max({0, tank_trace.tank - Tank!Ceiling})
              /\ Tank!TankAt(m, h) = tank_trace.tank
        BY <1>2, <3>2
      <4>2. Tank!Max({0, tank_trace.tank - Tank!Ceiling}) =
              IF 0 >= tank_trace.tank - Tank!Ceiling THEN 0 ELSE tank_trace.tank - Tank!Ceiling
        BY <1>4, TankMaxIs
      <4>3. Tank!TankAt(m, h) <= Tank!Ceiling + Excess(h)
        <5> HIDE DEF Excess
        <5> QED
          BY <1>4, <4>1, <4>2
      <4> HIDE DEF Peak, Excess
      <4> QED
        BY <2>2, <2>4, <3>1, <4>3
    <3>3. CASE h # 0
      <4>1. h - 1 \in Tank!Slots /\ (h - 1) + 1 = h
        BY <1>1, <1>4, <3>3 DEF Tank!Slots
      <4>2. Tank!Within(Tank!TankAt(m, (h - 1) + 1), Tank!RoomAt(m, (h - 1) + 1), h - 1)
        BY <1>6, <4>1 DEF TankDemanded
      <4>3. Tank!TankAt(m, h) <= Tank!Ceiling
        BY <4>1, <4>2 DEF Tank!Within
      <4>4. Excess(h) = 0 /\ Tank!Ceiling + 0 = Tank!Ceiling
        BY <1>4, <3>3
      <4> HIDE DEF Peak, Excess
      <4> QED
        BY <2>2, <2>4, <3>1, <4>3, <4>4
    <3> QED
      BY <3>2, <3>3
  <2> QED
    BY <2>3, <2>4
<1> HIDE DEF Asked
<1> QED
  BY <1>3, <1>5, <1>6

\* A schedule satisfies the constraints exactly if its replay is accepted.
LEMMA TankSolverAgrees ==
  ASSUME NEW m \in Tank!Runtimes, tank_trace.tank \in Int, tank_trace.room \in Int,
         Tank!ValidTrace
  PROVE  Tank!Feasible(m) <=> Tank!Accepts(Tank!Serialised(m))
  BY TankDemandsAreFeasible, TankReplayIsTheSolvers, TankSerialisedArePulses DEF
     Tank!Accepts


\* Commands that turn on at the start of the hour they are keyed to.
TankOnTheHour(cs) == \A c \in Tank!Range(cs) : c.on => c.time = c.key * 2

\* What a sequence of commands holds.
LEMMA TankCommandsAre ==
  ASSUME NEW cs \in Seq(TankCommand)
  PROVE  \A c \in Tank!Range(cs) : c \in TankCommand /\ c.on \in BOOLEAN /\ c.time \in Int
           /\ c.key \in Int
<1> SUFFICES ASSUME NEW c \in Tank!Range(cs)
             PROVE  c \in TankCommand /\ c.on \in BOOLEAN /\ c.time \in Int /\ c.key \in Int
  OBVIOUS
<1>1. PICK i \in DOMAIN cs : c = cs[i]
  BY DEF Tank!Range
<1>2. c \in TankCommand
  BY <1>1
<1> QED
  BY <1>2 DEF TankCommand

\* An accepted pulse has one end: as many commands release as force, and each
\* pulse has a release of its own.
LEMMA TankPulsesEnd ==
  ASSUME NEW cs \in Seq(TankCommand), Tank!ArePulses(cs), TankOnTheHour(cs)
  PROVE  /\ \A s \in TankStarts(cs) : /\ s.time \in Int /\ Tank!PulseEnd(s, cs) \in Int
                                      /\ 0 <= s.time /\ s.time < Tank!PulseEnd(s, cs)
                                      /\ \E c \in Tank!Range(cs) :
                                           Tank!Is(c, FALSE, Tank!PulseEnd(s, cs))
         /\ \A c \in Tank!Range(cs) : ~c.on
              => \E s \in TankStarts(cs) : c.time = Tank!PulseEnd(s, cs)
         /\ IsFiniteSet(TankStarts(cs))
<1> DEFINE starts == TankStarts(cs)
           offs == {c \in Tank!Range(cs) : ~c.on}
           end == [s \in starts |-> CHOOSE c \in offs : c.key = s.key /\ s.time < c.time]
<1>1. \A c \in Tank!Range(cs) : c \in TankCommand /\ c.on \in BOOLEAN /\ c.time \in Int
        /\ c.key \in Int
  BY TankCommandsAre
<1>2. Len(cs) \in Nat /\ IsFiniteSet(Tank!Range(cs)) /\ Cardinality(Tank!Range(cs)) <= Len(cs)
  <2>1. Len(cs) \in Nat /\ DOMAIN cs = 1..Len(cs)
    OBVIOUS
  <2>2. cs \in Surjection(1..Len(cs), Tank!Range(cs))
    BY <2>1 DEF Tank!Range, Surjection
  <2>3. IsFiniteSet(1..Len(cs)) /\ Cardinality(1..Len(cs)) = Len(cs)
    BY <2>1, FS_Interval
  <2> QED
    BY <2>1, <2>2, <2>3, FS_Surjection
<1>3. starts \cup offs = Tank!Range(cs) /\ starts \cap offs = {}
        /\ starts \subseteq Tank!Range(cs) /\ offs \subseteq Tank!Range(cs)
  BY DEF TankStarts
<1>4. IsFiniteSet(starts) /\ IsFiniteSet(offs)
  BY <1>2, <1>3, FS_Subset
<1>5. /\ Len(cs) = 2 * Cardinality(starts)
      /\ \A s \in starts : \E c \in Tank!Range(cs) : ~c.on /\ c.key = s.key /\ s.time < c.time
      /\ \A c \in Tank!Range(cs) : 0 <= c.time
  BY TankCardinalityIs DEF Tank!ArePulses, TankStarts
<1>6. Cardinality(offs) <= Cardinality(starts) /\ Cardinality(starts) \in Nat
        /\ Cardinality(offs) \in Nat
  <2>1. Cardinality(starts) \in Nat /\ Cardinality(offs) \in Nat
    BY <1>4, FS_CardinalityType
  <2>2. Cardinality(Tank!Range(cs)) = Cardinality(starts) + Cardinality(offs)
    <3> HIDE DEF starts, offs
    <3>1. /\ Cardinality(starts \cup offs) =
               Cardinality(starts) + Cardinality(offs) - Cardinality(starts \cap offs)
      BY <1>4, FS_Union
    <3>2. Cardinality(starts \cap offs) = 0
      BY <1>3, FS_EmptySet
    <3>3. Cardinality(Tank!Range(cs)) = Cardinality(starts \cup offs)
      BY <1>3
    <3> QED
      BY <2>1, <3>1, <3>2, <3>3
  <2> QED
    BY <1>2, <1>5, <2>1, <2>2
<1>7. \A s \in starts : end[s] \in offs /\ end[s].key = s.key /\ s.time < end[s].time
  BY <1>5
<1>8. \A s, t \in starts : s.key = t.key => s = t
  <2> SUFFICES ASSUME NEW s \in starts, NEW t \in starts, s.key = t.key
               PROVE  s = t
    OBVIOUS
  <2>1. s.on /\ t.on /\ s.time = s.key * 2 /\ t.time = t.key * 2 /\ s \in TankCommand
          /\ t \in TankCommand
    BY <1>1 DEF TankOnTheHour, TankStarts
  <2>2. s.on = t.on /\ s.time = t.time
    BY <2>1
  <2> QED
    BY <2>1, <2>2 DEF TankCommand
<1> HIDE DEF starts, offs
<1>9. end \in Injection(starts, offs)
  <2>1. end \in [starts -> offs]
    BY <1>7
  <2>2. \A s, t \in starts : end[s] = end[t] => s = t
    BY <1>7, <1>8
  <2> QED
    BY <2>1, <2>2 DEF Injection, IsInjective
<1>10. end \in Surjection(starts, offs)
  <2> HIDE DEF end
  <2>1. Cardinality(starts) <= Cardinality(offs)
    BY <1>4, <1>9, FS_Injection
  <2>2. Cardinality(starts) = Cardinality(offs)
    BY <1>6, <2>1
  <2> QED
    BY <1>4, <1>9, <2>2, FS_Injection
<1>11. \A c \in offs : \E s \in starts : c = end[s]
  BY <1>10 DEF Surjection
<1>12. ASSUME NEW s \in starts
       PROVE  Tank!PulseEnd(s, cs) = end[s].time
  <2> DEFINE c == CHOOSE c \in Tank!Range(cs) : ~c.on /\ c.key = s.key
  <2>1. end[s] \in offs /\ end[s].key = s.key
    BY <1>7
  <2>2. end[s] \in Tank!Range(cs) /\ ~end[s].on
    BY <2>1 DEF offs
  <2>3. c \in Tank!Range(cs) /\ ~c.on /\ c.key = s.key
    BY <2>1, <2>2
  <2>4. Tank!PulseEnd(s, cs) = c.time
    BY DEF Tank!PulseEnd
  <2> HIDE DEF c, end
  <2>5. c \in offs
    BY <2>3 DEF offs
  <2>6. PICK t \in starts : c = end[t]
    BY <1>11, <2>5
  <2>7. t = s
    BY <1>7, <1>8, <2>3, <2>6
  <2> QED
    BY <2>4, <2>6, <2>7
<1> HIDE DEF end
<1>13. \A s \in starts : /\ s.time \in Int /\ Tank!PulseEnd(s, cs) \in Int
                         /\ 0 <= s.time /\ s.time < Tank!PulseEnd(s, cs)
                         /\ \E c \in Tank!Range(cs) : Tank!Is(c, FALSE, Tank!PulseEnd(s, cs))
  <2> SUFFICES ASSUME NEW s \in starts
               PROVE  /\ s.time \in Int /\ Tank!PulseEnd(s, cs) \in Int
                      /\ 0 <= s.time /\ s.time < Tank!PulseEnd(s, cs)
                      /\ \E c \in Tank!Range(cs) : Tank!Is(c, FALSE, Tank!PulseEnd(s, cs))
    OBVIOUS
  <2>1. end[s] \in offs /\ s.time < end[s].time /\ Tank!PulseEnd(s, cs) = end[s].time
    BY <1>7, <1>12
  <2>2. end[s] \in Tank!Range(cs) /\ ~end[s].on /\ end[s].time \in Int
    BY <1>1, <2>1 DEF offs
  <2>3. s.time \in Int /\ 0 <= s.time
    BY <1>1, <1>3, <1>5
  <2>4. end[s].on = FALSE
    BY <1>1, <2>2
  <2>5. Tank!Is(end[s], FALSE, Tank!PulseEnd(s, cs))
    BY <2>1, <2>4 DEF Tank!Is
  <2> QED
    BY <2>1, <2>2, <2>3, <2>5
<1>14. \A c \in Tank!Range(cs) : ~c.on => \E s \in starts : c.time = Tank!PulseEnd(s, cs)
  BY <1>11, <1>12 DEF offs
<1> QED
  BY <1>4, <1>13, <1>14 DEF starts

\* A pulse is under way during a part of an hour.
TankHeating(cs, k) == \E s \in TankStarts(cs) : s.time <= k /\ k < Tank!PulseEnd(s, cs)

\* The pump is on during a part exactly if a pulse is under way: a command at the
\* part decides, else what was on before.
LEMMA TankCommanded ==
  ASSUME NEW cs \in Seq(TankCommand), Tank!ArePulses(cs), TankOnTheHour(cs), NEW k \in Nat
  PROVE  TankHeating(cs, k) <=> \/ \E c \in Tank!Range(cs) : Tank!Is(c, TRUE, k)
                                \/ /\ ~\E c \in Tank!Range(cs) : Tank!Is(c, FALSE, k)
                                   /\ k > 0 /\ TankHeating(cs, k - 1)
<1>1. /\ \A s \in TankStarts(cs) : /\ s.time \in Int /\ Tank!PulseEnd(s, cs) \in Int
                                   /\ 0 <= s.time /\ s.time < Tank!PulseEnd(s, cs)
                                   /\ \E c \in Tank!Range(cs) :
                                        Tank!Is(c, FALSE, Tank!PulseEnd(s, cs))
      /\ \A c \in Tank!Range(cs) : ~c.on
           => \E s \in TankStarts(cs) : c.time = Tank!PulseEnd(s, cs)
  BY TankPulsesEnd
<1>2. \A s, o \in TankStarts(cs) : o # s
        => Tank!PulseEnd(o, cs) <= s.time \/ Tank!PulseEnd(s, cs) <= o.time
  BY DEF Tank!ArePulses, TankStarts
<1>3. \A c \in Tank!Range(cs) : c.on \in BOOLEAN
  BY TankCommandsAre
<1>4. \A s : s \in TankStarts(cs) <=> s \in Tank!Range(cs) /\ s.on
  BY DEF TankStarts
<1>5. CASE \E c \in Tank!Range(cs) : Tank!Is(c, TRUE, k)
  <2>1. PICK c \in Tank!Range(cs) : c.on = TRUE /\ c.time = k
    BY <1>5 DEF Tank!Is
  <2>2. c \in TankStarts(cs)
    BY <1>4, <2>1
  <2>3. TankHeating(cs, k)
    <3>1. c.time < Tank!PulseEnd(c, cs)
      BY <1>1, <2>2
    <3>2. c.time <= k /\ k < Tank!PulseEnd(c, cs)
      BY <2>1, <3>1
    <3> QED
      BY <2>2, <3>2 DEF TankHeating
  <2> QED
    BY <1>5, <2>3
<1>6. CASE ~\E c \in Tank!Range(cs) : Tank!Is(c, TRUE, k)
  <2>1. \A s \in TankStarts(cs) : s.time # k
    BY <1>4, <1>6 DEF Tank!Is
  <2>2. CASE \E c \in Tank!Range(cs) : Tank!Is(c, FALSE, k)
    <3>1. PICK c \in Tank!Range(cs) : c.on = FALSE /\ c.time = k
      BY <2>2 DEF Tank!Is
    <3>2. PICK s \in TankStarts(cs) : k = Tank!PulseEnd(s, cs)
      BY <1>1, <3>1
    <3>3. ASSUME NEW o \in TankStarts(cs), o.time <= k /\ k < Tank!PulseEnd(o, cs)
          PROVE  FALSE
      <4>1. o # s
        BY <3>2, <3>3
      <4>2. Tank!PulseEnd(o, cs) <= s.time \/ Tank!PulseEnd(s, cs) <= o.time
        BY <1>2, <4>1
      <4>3. s.time \in Int /\ o.time \in Int /\ Tank!PulseEnd(o, cs) \in Int
              /\ s.time < Tank!PulseEnd(s, cs) /\ o.time # k
        BY <1>1, <2>1
      <4> QED
        BY <3>2, <3>3, <4>2, <4>3
    <3> QED
      BY <1>6, <2>2, <3>3 DEF TankHeating
  <2>3. CASE ~\E c \in Tank!Range(cs) : Tank!Is(c, FALSE, k)
    <3>1. \A s \in TankStarts(cs) : Tank!PulseEnd(s, cs) # k
      BY <1>1, <2>3
    <3>2. ASSUME TankHeating(cs, k)
          PROVE  k > 0 /\ TankHeating(cs, k - 1)
      <4>1. PICK s \in TankStarts(cs) : s.time <= k /\ k < Tank!PulseEnd(s, cs)
        BY <3>2 DEF TankHeating
      <4>2. s.time \in Int /\ Tank!PulseEnd(s, cs) \in Int /\ 0 <= s.time /\ s.time # k
        BY <1>1, <2>1
      <4>3. k > 0 /\ s.time <= k - 1 /\ k - 1 < Tank!PulseEnd(s, cs)
        BY <4>1, <4>2
      <4> QED
        BY <4>3 DEF TankHeating
    <3>3. ASSUME k > 0, TankHeating(cs, k - 1)
          PROVE  TankHeating(cs, k)
      <4>1. PICK s \in TankStarts(cs) : s.time <= k - 1 /\ k - 1 < Tank!PulseEnd(s, cs)
        BY <3>3 DEF TankHeating
      <4>2. s.time \in Int /\ Tank!PulseEnd(s, cs) \in Int /\ Tank!PulseEnd(s, cs) # k
        BY <1>1, <3>1
      <4>3. s.time <= k /\ k < Tank!PulseEnd(s, cs)
        BY <4>1, <4>2
      <4> QED
        BY <4>3 DEF TankHeating
    <3> QED
      BY <1>6, <2>3, <3>2, <3>3
  <2> QED
    BY <2>2, <2>3
<1> QED
  BY <1>5, <1>6

\* The part of an hour a pulse takes: a first part, or both.
LEMMA TankPulseHeats ==
  ASSUME NEW cs \in Seq(TankCommand), Tank!ArePulses(cs), TankOnTheHour(cs), NEW h \in Nat
  PROVE  /\ Tank!PulseIn(h, cs) \in 0..2
         /\ TankHeating(cs, 2 * h) <=> Tank!PulseIn(h, cs) > 0
         /\ TankHeating(cs, 2 * h + 1) <=> Tank!PulseIn(h, cs) = 2
<1>1. /\ \A s \in TankStarts(cs) : /\ s.time \in Int /\ Tank!PulseEnd(s, cs) \in Int
                                   /\ 0 <= s.time /\ s.time < Tank!PulseEnd(s, cs)
  BY TankPulsesEnd
<1>2. \A s \in TankStarts(cs) : /\ s.time % 2 = 0
                                /\ \A o \in TankStarts(cs) \ {s} : \/ Tank!PulseEnd(o, cs) <= s.time
                                                                   \/ Tank!PulseEnd(s, cs) <= o.time
  BY DEF Tank!ArePulses, TankStarts, Tank!Per
<1> DEFINE over == {c \in Tank!Range(cs) : c.on /\ c.time <= h * Tank!Per
                    /\ h * Tank!Per < Tank!PulseEnd(c, cs)}
<1>3. over = {s \in TankStarts(cs) : s.time <= 2 * h /\ 2 * h < Tank!PulseEnd(s, cs)}
  BY DEF TankStarts, Tank!Per
<1>4. Tank!PulseIn(h, cs) = IF over = {} THEN 0
                            ELSE Tank!Min({Tank!Per,
                                           Tank!PulseEnd(CHOOSE c \in over : TRUE,
                                                         cs) - h * Tank!Per})
  BY DEF Tank!PulseIn
<1> HIDE DEF over
<1>5. TankHeating(cs, 2 * h) <=> over # {}
  BY <1>3 DEF TankHeating
<1>6. CASE over = {}
  <2>1. ~TankHeating(cs, 2 * h + 1)
    <3> SUFFICES ASSUME NEW s \in TankStarts(cs), s.time <= 2 * h + 1,
                        2 * h + 1 < Tank!PulseEnd(s, cs)
                 PROVE  FALSE
      BY DEF TankHeating
    <3>1. s.time \in Int /\ Tank!PulseEnd(s, cs) \in Int /\ s.time % 2 = 0
      BY <1>1, <1>2
    <3>2. s.time <= 2 * h /\ 2 * h < Tank!PulseEnd(s, cs)
      BY <3>1
    <3> QED
      BY <1>3, <1>6, <3>2
  <2> QED
    BY <1>4, <1>5, <1>6, <2>1
<1>7. CASE over # {}
  <2>1. PICK s : s = CHOOSE c \in over : TRUE
    OBVIOUS
  <2>2. s \in over
    BY <1>7, <2>1
  <2>3. s \in TankStarts(cs) /\ s.time <= 2 * h /\ 2 * h < Tank!PulseEnd(s, cs)
    BY <1>3, <2>2
  <2>4. s.time \in Int /\ Tank!PulseEnd(s, cs) \in Int
    BY <1>1, <2>3
  <2>5. PICK e \in Int : e = Tank!PulseEnd(s, cs)
    BY <2>4
  <2>6. Tank!PulseIn(h, cs) = Tank!Min({2, e - 2 * h})
    <3>1. h * Tank!Per = 2 * h /\ Tank!Per = 2
      BY DEF Tank!Per
    <3> QED
      BY <1>4, <1>7, <2>1, <2>5, <3>1
  <2>7. Tank!Min({2, e - 2 * h}) = IF 2 <= e - 2 * h THEN 2 ELSE e - 2 * h
    BY TankMinIs
  <2>8. TankHeating(cs, 2 * h + 1) <=> 2 * h + 1 < e
    <3>1. ASSUME NEW o \in TankStarts(cs), o.time <= 2 * h + 1, 2 * h + 1 < Tank!PulseEnd(o, cs)
          PROVE  o = s
      <4>1. o.time \in Int /\ Tank!PulseEnd(o, cs) \in Int /\ o.time % 2 = 0
        BY <1>1, <1>2
      <4>2. ~(Tank!PulseEnd(o, cs) <= s.time) /\ ~(Tank!PulseEnd(s, cs) <= o.time)
        BY <2>3, <2>4, <3>1, <4>1
      <4> QED
        BY <1>2, <2>3, <4>2
    <3>2. 2 * h + 1 < e => s.time <= 2 * h + 1 /\ 2 * h + 1 < Tank!PulseEnd(s, cs)
      BY <2>3, <2>4, <2>5
    <3> QED
      BY <2>3, <2>5, <3>1, <3>2 DEF TankHeating
  <2>9. 2 * h < e
    BY <2>3, <2>5
  <2> QED
    BY <1>5, <1>7, <2>5, <2>6, <2>7, <2>8, <2>9
<1> QED
  BY <1>6, <1>7
\* The pump heats the tank during a part that leads from s to q.
TankHeats(s, q) == q.on /\ Tank!BelowTarget(s.tank)

\* The native heating warms the house during part k.
TankWarms(s, q, k) == ~TankHeats(s, q) /\ (k \div 2) \in tank_trace.native
  /\ (k \div 2) \notin tank_trace.blocked

\* One part of an hour, as the house lives through it.
LEMMA TankPartDoes ==
  ASSUME NEW s \in TankPart, NEW k \in Int, NEW q, q = Tank!Lived(s, k)
  PROVE  /\ q.on <=> \/ \E c \in Tank!Range(tank_commands) : Tank!Is(c, TRUE, k)
                     \/ ~(\E c \in Tank!Range(tank_commands) : Tank!Is(c, FALSE, k)) /\ s.on
         /\ q.tank = s.tank + (IF TankHeats(s, q) THEN 10 ELSE -1)
         /\ q.room = s.room + (IF TankWarms(s, q, k) THEN 1 ELSE -1)
         /\ q.ok <=> TankPartHolds(s, k, TankHeats(s, q), q.tank, q.room)
<1> DEFINE h == k \div Tank!Per
           on == IF \E c \in Tank!Range(tank_commands) : Tank!Is(c, TRUE, k) THEN TRUE
                 ELSE IF \E c \in Tank!Range(tank_commands) : Tank!Is(c, FALSE, k) THEN FALSE
                   ELSE s.on
           heats == on /\ Tank!BelowTarget(s.tank)
           warms == ~heats /\ h \in tank_trace.native /\ h \notin tank_trace.blocked
           tank == s.tank + (IF heats THEN Tank!Heat ELSE -Tank!Loss)
           room == s.room + (IF warms THEN 1 ELSE -1)
           ok == TankPartHolds(s, k, heats, tank, room)
<1>1. q = [on |-> on, tank |-> tank, room |-> room, ok |-> ok]
  BY Zenon DEF Tank!Lived, TankPartHolds
<1>2. Tank!Heat = 10 /\ Tank!Loss = 1 /\ h = k \div 2
  BY DEF Tank!Heat, Tank!Loss, Tank!Per
<1>3. s.tank \in Int /\ s.room \in Int /\ s.on \in BOOLEAN
  BY DEF TankPart
<1>4. on <=> \/ \E c \in Tank!Range(tank_commands) : Tank!Is(c, TRUE, k)
             \/ ~(\E c \in Tank!Range(tank_commands) : Tank!Is(c, FALSE, k)) /\ s.on
  BY <1>3
<1>5. on \in BOOLEAN
  BY <1>3
<1> HIDE DEF on
<1>6. tank = s.tank + (IF on /\ Tank!BelowTarget(s.tank) THEN 10 ELSE -1)
  BY <1>2
<1>7. room = s.room + (IF ~(on /\ Tank!BelowTarget(s.tank)) /\ (k \div 2) \in tank_trace.native
                          /\ (k \div 2) \notin tank_trace.blocked THEN 1 ELSE -1)
  BY <1>2
<1>8. ok <=> TankPartHolds(s, k, on /\ Tank!BelowTarget(s.tank), tank, room)
  OBVIOUS
<1> HIDE DEF tank, room, ok, h, heats, warms
<1>9. q.on = on /\ q.tank = tank /\ q.room = room /\ q.ok = ok
  BY <1>1
<1>10. (on /\ Tank!BelowTarget(s.tank)) = TankHeats(s, q)
  BY <1>9, Zenon DEF TankHeats
<1>11. q.ok <=> TankPartHolds(s, k, TankHeats(s, q), q.tank, q.room)
  BY <1>8, <1>9, <1>10, Zenon
<1>12. q.tank = s.tank + (IF TankHeats(s, q) THEN 10 ELSE -1)
  BY <1>6, <1>9, <1>10, Zenon
<1>13. q.room = s.room + (IF TankWarms(s, q, k) THEN 1 ELSE -1)
  BY <1>7, <1>9, <1>10, Zenon DEF TankWarms
<1> QED
  BY <1>4, <1>9, <1>11, <1>12, <1>13

\* During each part the pump is on exactly if a pulse is under way.
LEMMA TankOnDuringPulses ==
  ASSUME tank_commands \in Seq(TankCommand), Tank!ArePulses(tank_commands),
         TankOnTheHour(tank_commands),
         tank_trace.tank \in Int, tank_trace.room \in Int, tank_trace.forced = FALSE
  PROVE  \A k \in 0..(tank_Hours * Tank!Per) : Tank!House[k].on <=> k > 0
           /\ TankHeating(tank_commands, k - 1)
<1>1. tank_Hours * Tank!Per \in Nat
  BY TankAssumption DEF Tank!Per
<1>2. PICK N \in Nat : N = tank_Hours * Tank!Per
  BY <1>1
<1>3. /\ Tank!House \in [0..N -> TankPart]
      /\ Tank!House[0] = [on |-> tank_trace.forced, tank |-> tank_trace.tank,
                          room |-> tank_trace.room, ok |-> TRUE]
      /\ \A n \in 1..N : Tank!House[n] = Tank!Lived(Tank!House[n - 1], n - 1)
  BY <1>2, TankHouseIs
<1> DEFINE X == {k \in 0..N : Tank!House[k].on <=> k > 0 /\ TankHeating(tank_commands, k - 1)}
<1>4. 0 \in X
  BY <1>3
<1>5. ASSUME NEW k \in 0..(N - 1), k \in X
      PROVE  k + 1 \in X
  <2>1. k \in 0..N /\ k \in Int /\ k \in Nat /\ k + 1 \in 1..N /\ k + 1 \in 0..N
          /\ (k + 1) - 1 = k
    OBVIOUS
  <2>2. Tank!House[k] \in TankPart /\ Tank!House[k + 1] = Tank!Lived(Tank!House[k], k)
    BY <1>3, <2>1
  <2>3. Tank!House[k + 1].on <=> \/ \E c \in Tank!Range(tank_commands) : Tank!Is(c, TRUE, k)
                                 \/ ~(\E c \in Tank!Range(tank_commands) :
                                        Tank!Is(c, FALSE, k)) /\ Tank!House[k].on
    BY <2>1, <2>2, TankPartDoes
  <2>4. Tank!House[k].on <=> k > 0 /\ TankHeating(tank_commands, k - 1)
    BY <1>5
  <2>5. TankHeating(tank_commands, k) <=> \/ \E c \in Tank!Range(tank_commands) : Tank!Is(c, TRUE, k)
                                          \/ /\ ~\E c \in Tank!Range(tank_commands) :
                                                  Tank!Is(c, FALSE, k)
                                             /\ k > 0 /\ TankHeating(tank_commands, k - 1)
    BY <2>1, TankCommanded
  <2>6. Tank!House[k + 1].on <=> TankHeating(tank_commands, k)
    BY <2>3, <2>4, <2>5
  <2>7. Tank!House[k + 1].on <=> k + 1 > 0 /\ TankHeating(tank_commands, (k + 1) - 1)
    BY <2>1, <2>6
  <2> QED
    BY <2>1, <2>7
<1>6. 0..N \subseteq X
  <2> HIDE DEF X
  <2> QED
    BY <1>4, <1>5, UpTo
<1> QED
  BY <1>2, <1>6

\* An accepted hour goes as it was replayed: the pump heats in every part of the
\* pulse, since the tank stays below its target, and in no other.
LEMMA TankHourLived ==
  ASSUME NEW p \in TankPart, NEW h \in Nat, NEW n \in 0..2, NEW x, x = Tank!Lived(p, 2 * h),
         NEW y, y = Tank!Lived(x, 2 * h + 1), NEW r \in TankRoom, NEW q,
         q = Tank!ReplayHour(r, h, n), q.ok,
         x.on <=> n > 0, y.on <=> n = 2,
         p.tank = r.tank, p.room = r.room, p.ok, Tank!Declared
  PROVE  y.tank = q.tank /\ y.room = q.room /\ y.ok
<1>1. /\ q.tank = r.tank + n * 10 - (2 - n)
      /\ q.room = (r.room - n) + (2 - n) * (IF h \in tank_trace.native THEN 1 ELSE -1)
      /\ TankHourHolds(r, h, n, r.tank + n * 10, q.tank, r.room - n, q.room)
  BY TankHourDoes
<1>2. /\ n > 0 => /\ Tank!BelowTarget(r.tank) /\ Tank!BelowTarget(r.tank + n * 10)
                  /\ Tank!Within(r.tank + n * 10, r.room - n, h)
      /\ Tank!Within(q.tank, q.room, h)
      /\ h + 1 \in Tank!Deadlines => q.tank >= Tank!DeadlineFloor
  BY <1>1 DEF TankHourHolds
<1>3. x \in TankPart /\ 2 * h \in Int /\ 2 * h + 1 \in Int /\ r.tank \in Int /\ r.room \in Int
  BY TankPartIs DEF TankRoom
<1>4. (2 * h) \div 2 = h /\ (2 * h + 1) \div 2 = h /\ (2 * h + 1) % 2 = 1
        /\ (2 * h + 1 + 1) % 2 = 0
  OBVIOUS
<1>5. h \in tank_trace.native => h \notin tank_trace.blocked
  BY DEF Tank!Declared
<1> DEFINE hot == TankHeats(p, x)
           warm == TankHeats(x, y)
<1>6. /\ x.tank = r.tank + (IF hot THEN 10 ELSE -1)
      /\ x.room = r.room + (IF ~hot /\ h \in tank_trace.native THEN 1 ELSE -1)
      /\ x.ok <=> TankPartHolds(p, 2 * h, hot, x.tank, x.room)
  <2>1. PICK k \in Int : k = 2 * h
    BY <1>3
  <2>2. x = Tank!Lived(p, k)
    BY <2>1
  <2>3. x.tank = p.tank + (IF hot THEN 10 ELSE -1)
    BY <2>2, TankPartDoes
  <2>4. x.room = p.room + (IF TankWarms(p, x, k) THEN 1 ELSE -1)
    BY <2>2, TankPartDoes
  <2>6. TankWarms(p, x, k) <=> ~hot /\ (k \div 2) \in tank_trace.native
          /\ (k \div 2) \notin tank_trace.blocked
    BY DEF TankWarms
  <2>5. x.ok <=> TankPartHolds(p, k, hot, x.tank, x.room)
    BY <2>2, TankPartDoes
  <2> HIDE DEF hot
  <2> QED
    BY <1>4, <1>5, <2>1, <2>3, <2>4, <2>5, <2>6
<1>7. /\ y.tank = x.tank + (IF warm THEN 10 ELSE -1)
      /\ y.room = x.room + (IF ~warm /\ h \in tank_trace.native THEN 1 ELSE -1)
      /\ y.ok <=> TankPartHolds(x, 2 * h + 1, warm, y.tank, y.room)
  <2>1. PICK k \in Int : k = 2 * h + 1
    BY <1>3
  <2>2. y = Tank!Lived(x, k)
    BY <2>1
  <2>7. x \in TankPart
    BY <1>3
  <2>3. y.tank = x.tank + (IF warm THEN 10 ELSE -1)
    BY <2>2, <2>7, TankPartDoes
  <2>4. y.room = x.room + (IF TankWarms(x, y, k) THEN 1 ELSE -1)
    BY <2>2, <2>7, TankPartDoes
  <2>6. TankWarms(x, y, k) <=> ~warm /\ (k \div 2) \in tank_trace.native
          /\ (k \div 2) \notin tank_trace.blocked
    BY DEF TankWarms
  <2>5. y.ok <=> TankPartHolds(x, k, warm, y.tank, y.room)
    BY <2>2, <2>7, TankPartDoes
  <2> HIDE DEF warm
  <2> QED
    BY <1>4, <1>5, <2>1, <2>3, <2>4, <2>5, <2>6
<1>8. hot <=> n > 0
  BY <1>2 DEF TankHeats
<1>9. hot => x.tank <= Tank!Ceiling
  <2> SUFFICES ASSUME hot PROVE x.tank <= Tank!Ceiling
    OBVIOUS
  <2>1. n > 0 /\ x.tank = r.tank + 10
    BY <1>6, <1>8
  <2>2. r.tank + n * 10 <= 210
    BY <1>2, <2>1 DEF Tank!Within, Tank!Ceiling
  <2> QED
    BY <1>3, <2>1, <2>2 DEF Tank!Ceiling
<1>10. x.ok
  <2>1. (2 * h + 1) % Tank!Per # 0
    BY <1>4 DEF Tank!Per
  <2> QED
    BY <1>6, <1>9, <2>1 DEF TankPartHolds
<1>11. warm <=> n = 2
  <2>1. n = 2 => Tank!BelowTarget(x.tank)
    <3> SUFFICES ASSUME n = 2 PROVE Tank!BelowTarget(x.tank)
      OBVIOUS
    <3>1. x.tank = r.tank + 10 /\ r.tank + 20 < 206
      BY <1>2, <1>6, <1>8 DEF Tank!BelowTarget, Tank!Target
    <3> QED
      BY <1>3, <3>1 DEF Tank!BelowTarget, Tank!Target
  <2> QED
    BY <2>1 DEF TankHeats
<1> HIDE DEF hot, warm
<1>12. y.tank = q.tank
  BY <1>1, <1>3, <1>6, <1>7, <1>8, <1>11
<1>13. y.room = q.room
  BY <1>1, <1>3, <1>6, <1>7, <1>8, <1>11
<1>14. warm => y.tank <= Tank!Ceiling
  <2> SUFFICES ASSUME warm PROVE y.tank <= Tank!Ceiling
    OBVIOUS
  <2>1. n = 2 /\ y.tank = r.tank + n * 10
    BY <1>3, <1>6, <1>7, <1>8, <1>11
  <2> QED
    BY <1>2, <2>1 DEF Tank!Within
<1>15. TankPartHolds(x, 2 * h + 1, warm, y.tank, y.room)
  <2>1. Tank!Within(y.tank, y.room, (2 * h + 1) \div Tank!Per)
    BY <1>2, <1>4, <1>12, <1>13 DEF Tank!Per
  <2>2. (2 * h + 1) \div Tank!Per + 1 \in Tank!Deadlines => y.tank >= Tank!DeadlineFloor
    BY <1>2, <1>4, <1>12 DEF Tank!Per
  <2> QED
    BY <1>10, <1>14, <2>1, <2>2, Zenon DEF TankPartHolds
<1> QED
  BY <1>7, <1>12, <1>13, <1>15

\* Accepted commands do what they were accepted for.
LEMMA TankAcceptedWorks ==
  ASSUME tank_commands \in Seq(TankCommand), TankOnTheHour(tank_commands),
         Tank!Accepts(tank_commands),
         tank_trace.tank \in Int, tank_trace.room \in Int, tank_trace.forced \in BOOLEAN
  PROVE  Tank!AtEnd.ok /\ Tank!Released
<1>1. Tank!ArePulses(tank_commands) /\ Tank!Replayed(tank_commands)[tank_Hours].ok
        /\ tank_trace.forced = FALSE /\ Tank!Declared
  BY DEF Tank!Accepts, Tank!ValidTrace
<1>2. tank_Hours \in Nat \ {0} /\ Tank!Per = 2
  BY TankAssumption DEF Tank!Per
<1>3. \A h \in Tank!Slots : Tank!PulseIn(h, tank_commands) \in 0..2
  BY <1>1, <1>2, TankPulseHeats DEF Tank!Slots
<1> DEFINE r == Tank!Replayed(tank_commands)
<1>4. /\ r \in [0..tank_Hours -> TankRoom]
      /\ r[0] = [tank |-> tank_trace.tank, room |-> tank_trace.room, ok |-> TRUE]
      /\ \A n \in 1..tank_Hours :
           r[n] = Tank!ReplayHour(r[n - 1], n - 1, Tank!PulseIn(n - 1, tank_commands))
  <2>1. \A h \in Tank!Slots : Tank!PulseIn(h, tank_commands) \in Int
    BY <1>3
  <2> QED
    BY <2>1, TankReplayedIs
<1>5. r[tank_Hours].ok
  BY <1>1
<1> HIDE DEF r
<1>6. /\ Tank!House \in [0..(tank_Hours * Tank!Per) -> TankPart]
      /\ Tank!House[0] = [on |-> tank_trace.forced, tank |-> tank_trace.tank,
                          room |-> tank_trace.room, ok |-> TRUE]
      /\ \A n \in 1..(tank_Hours * Tank!Per) :
           Tank!House[n] = Tank!Lived(Tank!House[n - 1], n - 1)
  BY TankHouseIs
<1>7. \A k \in 0..(tank_Hours * Tank!Per) : Tank!House[k].on <=> k > 0
        /\ TankHeating(tank_commands, k - 1)
  BY <1>1, TankOnDuringPulses
<1> DEFINE Follows(h) == r[h].ok => /\ Tank!House[2 * h].tank = r[h].tank /\ Tank!House[2 * h].room = r[h].room
                                    /\ Tank!House[2 * h].ok
           X == {h \in 0..tank_Hours : Follows(h)}
<1>8. 0 \in X
  <2>1. 2 * 0 = 0 /\ 0 \in 0..tank_Hours
    BY <1>2
  <2>2. Follows(0)
    BY <1>4, <1>6, <2>1
  <2> QED
    BY <2>1, <2>2
<1>9. ASSUME NEW h \in 0..(tank_Hours - 1), h \in X
      PROVE  h + 1 \in X
  <2>1. /\ h \in Tank!Slots /\ h \in Nat /\ h \in 0..tank_Hours /\ h + 1 \in 1..tank_Hours
             /\ h + 1 \in 0..tank_Hours
        /\ (h + 1) - 1 = h
    BY <1>2 DEF Tank!Slots
  <2>2. /\ 2 * h \in 0..(tank_Hours * Tank!Per) /\ 2 * h + 1 \in 1..(tank_Hours * Tank!Per)
             /\ 2 * h + 2 \in 1..(tank_Hours * Tank!Per)
        /\ 2 * h + 1 \in 0..(tank_Hours * Tank!Per) /\ 2 * h + 2 \in 0..(tank_Hours * Tank!Per)
        /\ (2 * h + 1) - 1 = 2 * h /\ (2 * h + 2) - 1 = 2 * h + 1 /\ 2 * (h + 1) = 2 * h + 2
        /\ 2 * h + 1 > 0 /\ 2 * h + 2 > 0
    BY <1>2
  <2>3. SUFFICES ASSUME r[h + 1].ok
                 PROVE  /\ Tank!House[2 * h + 2].tank = r[h + 1].tank
                             /\ Tank!House[2 * h + 2].room = r[h + 1].room
                        /\ Tank!House[2 * h + 2].ok
    BY <2>1, <2>2
  <2>4. PICK n \in 0..2 : n = Tank!PulseIn(h, tank_commands)
    BY <1>3, <2>1
  <2>5. r[h] \in TankRoom /\ r[h + 1] = Tank!ReplayHour(r[h], h, n)
    BY <1>4, <2>1, <2>4
  <2>6. r[h].ok
    <3>1. n \in Int /\ h \in Int
      BY <2>1
    <3>2. TankHourHolds(r[h], h, n, r[h].tank + n * 10, r[h + 1].tank, r[h].room - n,
                        r[h + 1].room)
      BY <2>3, <2>5, <3>1, TankHourDoes
    <3> QED
      BY <3>2 DEF TankHourHolds
  <2>7. Tank!House[2 * h].tank = r[h].tank /\ Tank!House[2 * h].room = r[h].room
          /\ Tank!House[2 * h].ok
    BY <1>9, <2>6
  <2>8. /\ Tank!House[2 * h] \in TankPart
        /\ Tank!House[2 * h + 1] = Tank!Lived(Tank!House[2 * h], 2 * h)
        /\ Tank!House[2 * h + 2] = Tank!Lived(Tank!House[2 * h + 1], 2 * h + 1)
    BY <1>6, <2>2
  <2>9. /\ Tank!House[2 * h + 1].on <=> TankHeating(tank_commands, 2 * h)
        /\ Tank!House[2 * h + 2].on <=> TankHeating(tank_commands, 2 * h + 1)
    BY <1>7, <2>2
  <2>10. /\ Tank!House[2 * h + 1].on <=> n > 0
         /\ Tank!House[2 * h + 2].on <=> n = 2
    BY <1>1, <2>1, <2>4, <2>9, TankPulseHeats
  <2> QED
    BY <1>1, <2>1, <2>3, <2>5, <2>7, <2>8, <2>10, TankHourLived
<1>10. 0..tank_Hours \subseteq X
  <2> HIDE DEF X
  <2> QED
    BY <1>2, <1>8, <1>9, UpTo
<1>11. Follows(tank_Hours)
  <2>1. tank_Hours \in 0..tank_Hours
    BY <1>2
  <2> QED
    BY <1>10, <2>1
<1>12. Tank!AtEnd.ok
  <2>1. 2 * tank_Hours = tank_Hours * Tank!Per
    BY <1>2
  <2> QED
    BY <1>5, <1>11, <2>1 DEF Tank!AtEnd
<1>13. Tank!Released
  <2> SUFFICES ASSUME Tank!AtEnd.on
               PROVE  \E c \in Tank!Restores : c.time = tank_Hours * Tank!Per
    BY DEF Tank!Released
  <2>1. tank_Hours * Tank!Per \in 0..(tank_Hours * Tank!Per)
          /\ tank_Hours * Tank!Per = 2 * tank_Hours
    BY <1>2
  <2>2. TankHeating(tank_commands, tank_Hours * Tank!Per - 1)
    BY <1>7, <2>1 DEF Tank!AtEnd
  <2>3. PICK s \in TankStarts(tank_commands) : s.time <= tank_Hours * Tank!Per - 1
          /\ tank_Hours * Tank!Per - 1 < Tank!PulseEnd(s, tank_commands)
    BY <2>2 DEF TankHeating
  <2>4. /\ s.time \in Int /\ Tank!PulseEnd(s, tank_commands) \in Int
        /\ \E c \in Tank!Range(tank_commands) :
             Tank!Is(c, FALSE, Tank!PulseEnd(s, tank_commands))
    BY <1>1, TankPulsesEnd
  <2>5. PICK c \in Tank!Range(tank_commands) : c.on = FALSE
          /\ c.time = Tank!PulseEnd(s, tank_commands)
    BY <2>4 DEF Tank!Is
  <2>6. c.time <= tank_Hours * Tank!Per
    BY <1>1 DEF Tank!ArePulses
  <2>7. c.time = tank_Hours * Tank!Per
    BY <1>2, <2>1, <2>3, <2>4, <2>5, <2>6
  <2>8. c \in Tank!Restores
    BY <2>5 DEF Tank!Restores
  <2> QED
    BY <2>7, <2>8
<1> QED
  BY <1>12, <1>13

\* The tank as the rules project it has a temperature at each hour.
LEMMA TankProjectedIs ==
  ASSUME tank_trace.tank \in Int, tank_trace.rate \in Nat \ {0}
  PROVE  /\ Tank!Projected \in [0..tank_Hours -> Int]
         /\ Tank!Projected[0] = tank_trace.tank
         /\ \A n \in 1..tank_Hours : Tank!Projected[n]
              = IF Tank!Forced(n - 1)
                THEN Tank!Min({Tank!Target, Tank!Projected[n - 1] + tank_trace.rate})
                  ELSE Tank!Max({0, Tank!Projected[n - 1] - Tank!Per * Tank!Loss})
<1> DEFINE z == tank_trace.tank
           Then(s, n) == IF Tank!Forced(n - 1)
             THEN Tank!Min({Tank!Target, s + tank_trace.rate})
               ELSE Tank!Max({0, s - Tank!Per * Tank!Loss})
           step == [n \in 1..tank_Hours |-> [s \in Int |-> Then(s, n)]]
           All(g) == g = [n \in 0..tank_Hours |-> IF n = 0 THEN z ELSE Then(g[n - 1], n)]
<1>1. z \in Int
  OBVIOUS
<1>2. ASSUME NEW n \in 1..tank_Hours, NEW s \in Int
      PROVE  Then(s, n) \in Int
  <2>1. Tank!Min({Tank!Target, s + tank_trace.rate}) \in Int
    <3>1. s + tank_trace.rate \in Int /\ Tank!Target \in Int
      BY DEF Tank!Target
    <3> QED
      BY <3>1, TankMinIs
  <2>2. Tank!Max({0, s - Tank!Per * Tank!Loss}) \in Int
    <3>1. s - Tank!Per * Tank!Loss \in Int
      BY DEF Tank!Per, Tank!Loss
    <3> QED
      BY <3>1, TankMaxIs
  <2> QED
    BY <2>1, <2>2

<1>8. Tank!Projected = CHOOSE g : All(g)
  BY DEF Tank!Projected
<1> HIDE DEF z, Then
<1>3. step \in [1..tank_Hours -> [Int -> Int]]
  BY <1>2
<1>4. tank_Hours \in Nat
  BY TankAssumption
<1>5. PICK g \in [0..tank_Hours -> Int] : g[0] = z
        /\ \A n \in 1..tank_Hours : g[n] = step[n][g[n - 1]]
  <2> HIDE DEF step
  <2>1. SUFFICES ASSUME NEW N \in Nat, N = tank_Hours, NEW T, T = Int
                 PROVE  \E g \in [0..N -> T] : g[0] = z
                          /\ \A n \in 1..N : g[n] = step[n][g[n - 1]]
    BY <1>4
  <2>2. z \in T /\ step \in [1..N -> [T -> T]]
    BY <1>1, <1>3, <2>1
  <2> QED
    BY <2>2, Repeated, SMTT(60)
<1>6. \A n \in 1..tank_Hours : g[n] = Then(g[n - 1], n)
  <2> SUFFICES ASSUME NEW n \in 1..tank_Hours
               PROVE  g[n] = Then(g[n - 1], n)
    OBVIOUS
  <2>1. n - 1 \in 0..tank_Hours
    BY <1>4
  <2>2. g[n - 1] \in Int
    BY <2>1
  <2> QED
    BY <1>5, <2>2
<1>7. All(g)
  <2>1. ASSUME NEW n \in 0..tank_Hours
        PROVE  g[n] = IF n = 0 THEN z ELSE Then(g[n - 1], n)
    BY <1>4, <1>5, <1>6
  <2> QED
    BY <2>1
<1>9. All(Tank!Projected)
  <2> HIDE DEF All
  <2> QED
    BY <1>7, <1>8
<1> DEFINE r == Tank!Projected
<1> HIDE DEF r
<1>10. r = [n \in 0..tank_Hours |-> IF n = 0 THEN z ELSE Then(r[n - 1], n)]
  BY <1>9 DEF r
<1>11. r[0] = z /\ \A n \in 1..tank_Hours : r[n] = Then(r[n - 1], n)
  BY <1>4, <1>10
<1> DEFINE X == {n \in 0..tank_Hours : r[n] \in Int}
<1>12. 0..tank_Hours \subseteq X
  <2>1. 0 \in X
    BY <1>1, <1>4, <1>11
  <2>2. ASSUME NEW n \in 0..(tank_Hours - 1), n \in X PROVE n + 1 \in X
    <3>1. n + 1 \in 1..tank_Hours /\ (n + 1) - 1 = n /\ n + 1 \in 0..tank_Hours
      BY <1>4
    <3>2. r[n + 1] = Then(r[(n + 1) - 1], n + 1)
      BY <1>11, <3>1
    <3>3. r[(n + 1) - 1] \in Int
      BY <2>2, <3>1
    <3> QED
      BY <1>2, <3>1, <3>2, <3>3
  <2> HIDE DEF X
  <2> QED
    BY <1>4, <2>1, <2>2, UpTo
<1>13. r \in [0..tank_Hours -> Int]
  BY <1>10, <1>12
<1>14. \A n \in 1..tank_Hours : r[n] = IF Tank!Forced(n - 1)
         THEN Tank!Min({Tank!Target, r[n - 1] + tank_trace.rate})
           ELSE Tank!Max({0, r[n - 1] - Tank!Per * Tank!Loss})
  BY <1>11 DEF Then
<1>15. r[0] = tank_trace.tank
  BY <1>11 DEF z
<1> QED
  BY <1>13, <1>14, <1>15, Zenon DEF r

\* The hours that heating needs.
LEMMA TankHoursAre ==
  ASSUME NEW from \in Int, tank_trace.rate \in Nat \ {0}
  PROVE  Tank!HoursNeeded(from) \in Nat
<1>1. Tank!Max({0, Tank!Target - from}) \in Int
  <2>1. Tank!Target - from \in Int
    BY DEF Tank!Target
  <2> QED
    BY <2>1, TankMaxIs
<1>2. PICK n \in Int : n = Tank!Max({0, Tank!Target - from}) + tank_trace.rate - 1
  BY <1>1
<1>3. n \div tank_trace.rate \in Int
  BY <1>2
<1>4. Tank!Max({1, n \div tank_trace.rate}) = IF 1 >= n \div tank_trace.rate THEN 1
        ELSE n \div tank_trace.rate
  BY <1>3, TankMaxIs
<1> QED
  BY <1>2, <1>3, <1>4 DEF Tank!HoursNeeded

\* A cycle that moves up against its deadline starts at an hour of the horizon.
LEMMA TankMovedIs ==
  ASSUME NEW d \in 0..tank_Hours, NEW h \in 0..tank_Hours, tank_trace.tank \in Int,
         tank_trace.rate \in Nat \ {0}
  PROVE  Tank!Moved(d, h) \in 0..tank_Hours
<1>1. tank_Hours \in Nat
  BY TankAssumption
<1>2. Tank!Projected[h] \in Int
  BY TankProjectedIs
<1>3. PICK n \in Nat : n = Tank!HoursNeeded(Tank!Projected[h])
  BY <1>2, TankHoursAre
<1>4. Tank!Max({0, d - n}) = IF 0 >= d - n THEN 0 ELSE d - n
  BY <1>1, TankMaxIs
<1>5. Tank!Max({0, d - n}) \in 0..tank_Hours
  BY <1>1, <1>4
<1> HIDE DEF Tank!Moved
<1>6. Tank!Moved(d, h) \in {h, Tank!Max({0, d - n})}
  BY <1>3 DEF Tank!Moved
<1> QED
  BY <1>5, <1>6

\* The commands of a cycle.
LEMMA TankCycleIs ==
  ASSUME NEW h \in Int, NEW n \in Int, NEW cs \in Seq(TankCommand), TankOnTheHour(cs)
  PROVE  /\ cs \o Tank!Cycle(h, n) \in Seq(TankCommand) /\ TankOnTheHour(cs \o Tank!Cycle(h, n))
         /\ Tank!Cycle(h, n) \in Seq(TankCommand) /\ TankOnTheHour(Tank!Cycle(h, n))
<1>1. /\ Tank!On(h) \in TankCommand /\ Tank!On(h).time = Tank!On(h).key * 2
      /\ Tank!Off(h, (h + n) * Tank!Per) \in TankCommand /\ ~Tank!Off(h, (h + n) * Tank!Per).on
  BY DEF Tank!On, Tank!Off, TankCommand, Tank!Per
<1>2. PICK x \in TankCommand : x = Tank!On(h)
  BY <1>1
<1>3. PICK y \in TankCommand : y = Tank!Off(h, (h + n) * Tank!Per)
  BY <1>1
<1>4. Tank!Cycle(h, n) \in {<<x>> \o <<>>, <<x>> \o <<y>>}
  BY <1>2, <1>3 DEF Tank!Cycle
<1>5. /\ <<x>> \in Seq(TankCommand) /\ <<y>> \in Seq(TankCommand) /\ <<>> \in Seq(TankCommand)
      /\ Tank!Range(<<x>>) = {x} /\ Tank!Range(<<y>>) = {y} /\ Tank!Range(<<>>) = {}
  BY DEF Tank!Range
<1>6. /\ <<x>> \o <<>> \in Seq(TankCommand) /\ Tank!Range(<<x>> \o <<>>) = {x}
      /\ <<x>> \o <<y>> \in Seq(TankCommand) /\ Tank!Range(<<x>> \o <<y>>) = {x, y}
  <2>1. \A s, t \in Seq(TankCommand) : s \o t \in Seq(TankCommand)
          /\ Tank!Range(s \o t) = Tank!Range(s) \cup Tank!Range(t)
    BY TankRangesAre
  <2>2. <<x>> \o <<>> \in Seq(TankCommand)
          /\ Tank!Range(<<x>> \o <<>>) = Tank!Range(<<x>>) \cup Tank!Range(<<>>)
    BY <1>5, <2>1
  <2>3. <<x>> \o <<y>> \in Seq(TankCommand)
          /\ Tank!Range(<<x>> \o <<y>>) = Tank!Range(<<x>>) \cup Tank!Range(<<y>>)
    BY <1>5, <2>1
  <2> QED
    BY <1>5, <2>2, <2>3
<1>7. PICK t \in Seq(TankCommand) : t = Tank!Cycle(h, n) /\ Tank!Range(t) \subseteq {x, y}
  BY <1>4, <1>6
<1>8. cs \o t \in Seq(TankCommand) /\ Tank!Range(cs \o t) = Tank!Range(cs) \cup Tank!Range(t)
  BY TankRangesAre
<1>9. (x.on => x.time = x.key * 2) /\ (y.on => y.time = y.key * 2)
  BY <1>1, <1>2, <1>3
<1>10. TankOnTheHour(t)
  BY <1>7, <1>9 DEF TankOnTheHour
<1>11. TankOnTheHour(cs \o t)
  BY <1>8, <1>10 DEF TankOnTheHour
<1> QED
  BY <1>7, <1>8, <1>10, <1>11

\* The plan is made of commands for a house that does not change, and kept only
\* if the replay accepts it.
TankIInv ==
  /\ tank_trace \in Tank!Traces
  /\ tank_commands \in Seq(TankCommand) /\ TankOnTheHour(tank_commands)
  /\ tank_at = "kept" => Tank!Accepts(tank_commands)

\* What is observed of the house.
LEMMA TankTraceIs ==
  ASSUME tank_trace \in Tank!Traces
  PROVE  tank_trace.tank \in Int /\ tank_trace.room \in Int /\ tank_trace.rate \in Nat \ {0}
           /\ tank_trace.forced \in BOOLEAN
BY TankAssumption DEF Tank!Traces

\* Initially there are no commands.
LEMMA TankInvariantInitially ==
  ASSUME Tank!Init
  PROVE  TankIInv
<1>1. tank_trace \in Tank!Traces /\ tank_commands = <<>> /\ tank_at = "deadlines"
  BY DEF Tank!Init
<1>2. Tank!Range(tank_commands) = {}
  BY <1>1 DEF Tank!Range
<1> QED
  BY <1>1, <1>2 DEF TankIInv, TankOnTheHour

\* The replay says the same as long as the house and the commands are the same.
LEMMA TankAcceptsStill ==
  ASSUME tank_trace' = tank_trace, tank_commands' = tank_commands
  PROVE  Tank!Accepts(tank_commands)' = Tank!Accepts(tank_commands)
BY SMT DEF Tank!Accepts, Tank!ValidTrace, Tank!Declared, Tank!ArePulses, Tank!Replayed,
   Tank!ReplayHour, Tank!Diverted, Tank!Heated, Tank!Within,
           Tank!TankFloor, Tank!Deadlines, Tank!BelowTarget, Tank!PulseIn, Tank!PulseEnd

\* No step leaves the invariant.
LEMMA TankInvariantKept ==
  ASSUME TankIInv, [Tank!Next]_tankVars
  PROVE  TankIInv'
<1>1. /\ tank_trace \in Tank!Traces /\ tank_commands \in Seq(TankCommand)
           /\ TankOnTheHour(tank_commands)
      /\ tank_at = "kept" => Tank!Accepts(tank_commands)
  BY DEF TankIInv
<1>2. tank_trace.tank \in Int /\ tank_trace.rate \in Nat \ {0} /\ tank_Hours \in Nat
  BY <1>1, TankTraceIs, TankAssumption
<1>3. SUFFICES /\ tank_trace' = tank_trace
               /\ tank_commands' \in Seq(TankCommand) /\ TankOnTheHour(tank_commands')
               /\ tank_at' = "kept" => tank_commands' = tank_commands
                    /\ Tank!Accepts(tank_commands)
  <2>1. ASSUME tank_trace' = tank_trace, tank_commands' = tank_commands,
               Tank!Accepts(tank_commands)
        PROVE  Tank!Accepts(tank_commands)'
    BY <2>1, TankAcceptsStill
  <2> QED
    BY <1>1, <2>1 DEF TankIInv, TankOnTheHour
<1>4. CASE Tank!PlanDeadline
  <2>1. tank_at = "deadlines" /\ tank_at' = tank_at /\ tank_trace' = tank_trace
    BY <1>4 DEF Tank!PlanDeadline
  <2> DEFINE d == Tank!Min(Tank!Deadlines \ tank_done)
             slots == Tank!Cheapest(Tank!HoursNeeded(tank_trace.tank), Tank!Window(d))
             h == Tank!CycleStart(d, Tank!Min(slots))
             n == Tank!HoursNeeded(Tank!Projected[h])
  <2>2. /\ Tank!Deadlines \ tank_done # {}
        /\ \/ tank_commands' = tank_commands
           \/ slots # {} /\ tank_commands' = tank_commands \o Tank!Cycle(h, n)
    BY <1>4 DEF Tank!PlanDeadline
  <2>3. CASE tank_commands' = tank_commands
    BY <1>1, <2>1, <2>3
  <2>4. CASE slots # {} /\ tank_commands' = tank_commands \o Tank!Cycle(h, n)
    <3>1. d \in 0..tank_Hours
      <4>1. Tank!Deadlines \ tank_done \in SUBSET (0..tank_Hours)
              /\ Tank!Deadlines \ tank_done \in SUBSET Nat
        BY <1>2 DEF Tank!Deadlines
      <4> QED
        BY <2>2, <4>1, TankLeastIs
    <3>2. Tank!Min(slots) \in 0..tank_Hours
      <4>1. slots \in SUBSET (0..tank_Hours) /\ slots \in SUBSET Nat
        BY <1>2 DEF Tank!Cheapest, Tank!Window, Tank!Slots
      <4> HIDE DEF slots
      <4> QED
        BY <2>4, <4>1, TankLeastIs
    <3> HIDE DEF d, slots
    <3>3. h \in 0..tank_Hours
      <4>1. Tank!Moved(d, Tank!Min(slots)) \in 0..tank_Hours
        BY <1>2, <3>1, <3>2, TankMovedIs
      <4>2. Tank!Moved(d, Tank!Moved(d, Tank!Min(slots))) \in 0..tank_Hours
        BY <1>2, <3>1, <4>1, TankMovedIs
      <4>3. Tank!Moved(d, Tank!Moved(d, Tank!Moved(d, Tank!Min(slots)))) \in 0..tank_Hours
        BY <1>2, <3>1, <4>2, TankMovedIs
      <4>4. Tank!Moved(d, Tank!Moved(d, Tank!Moved(d, Tank!Moved(d, Tank!Min(slots))))) \in
              0..tank_Hours
        BY <1>2, <3>1, <4>3, TankMovedIs
      <4> QED
        BY <4>4 DEF Tank!CycleStart
    <3> HIDE DEF h
    <3>4. Tank!Projected[h] \in Int
      BY <1>2, <3>3, TankProjectedIs
    <3>5. n \in Int /\ h \in Int
      BY <1>2, <3>3, <3>4, TankHoursAre
    <3> HIDE DEF n
    <3>6. tank_commands \o Tank!Cycle(h, n) \in Seq(TankCommand)
            /\ TankOnTheHour(tank_commands \o Tank!Cycle(h, n))
      BY <1>1, <3>5, TankCycleIs
    <3> QED
      BY <2>1, <2>4, <3>6
  <2> QED
    BY <2>2, <2>3, <2>4
<1>5. CASE Tank!Opportunity
  <2>1. tank_at' = "certify" /\ tank_trace' = tank_trace
    BY <1>5 DEF Tank!Opportunity
  <2> DEFINE sorted == Tank!SortSeq([i \in 1..tank_Hours |-> tank_trace.price[i - 1]], <)
             median == sorted[tank_Hours \div 2 + 1]
             best == Tank!Cheapest(1,
                                   {k \in Tank!Slots : 10 * tank_trace.price[k] < 6 * median})
             h == Tank!Min(best)
             from == Tank!Max({0, tank_trace.tank - h * Tank!Per * Tank!Loss})
  <2>2. \/ tank_commands' = tank_commands
        \/ best # {} /\ tank_commands' = Tank!Cycle(h, Tank!HoursNeeded(from))
    BY <1>5, Zenon DEF Tank!Opportunity
  <2>3. best \in SUBSET Nat
    <3> HIDE DEF median
    <3> QED
      BY <1>2 DEF Tank!Cheapest, Tank!Slots
  <2> HIDE DEF best
  <2>4. CASE tank_commands' = tank_commands
    BY <1>1, <2>1, <2>4
  <2>5. CASE best # {} /\ tank_commands' = Tank!Cycle(h, Tank!HoursNeeded(from))
    <3>1. h \in Nat
      BY <2>3, <2>5, TankLeastIs
    <3> HIDE DEF h
    <3>2. from \in Int
      <4>1. tank_trace.tank - h * Tank!Per * Tank!Loss \in Int
        BY <1>2, <3>1 DEF Tank!Per, Tank!Loss
      <4> QED
        BY <4>1, TankMaxIs
    <3> HIDE DEF from
    <3>3. Tank!HoursNeeded(from) \in Int /\ h \in Int
      BY <1>2, <3>1, <3>2, TankHoursAre
    <3>4. Tank!Cycle(h, Tank!HoursNeeded(from)) \in Seq(TankCommand)
            /\ TankOnTheHour(Tank!Cycle(h, Tank!HoursNeeded(from)))
      BY <1>1, <3>3, TankCycleIs
    <3> QED
      BY <2>1, <2>5, <3>4
  <2> QED
    BY <2>2, <2>4, <2>5
<1>6. CASE Tank!Certify
  BY <1>1, <1>6 DEF Tank!Certify
<1>7. CASE Tank!Solve
  <2>1. tank_trace' = tank_trace /\ tank_at' # "kept"
    BY <1>7, Zenon DEF Tank!Solve
  <2>2. tank_commands' = tank_commands
          \/ \E m \in Tank!Runtimes : tank_commands' = Tank!Serialised(m)
    BY <1>7, Zenon DEF Tank!Solve
  <2>3. CASE tank_commands' = tank_commands
    BY <1>1, <2>1, <2>3
  <2>4. CASE \E m \in Tank!Runtimes : tank_commands' = Tank!Serialised(m)
    <3>1. PICK m \in Tank!Runtimes : tank_commands' = Tank!Serialised(m)
      BY <2>4
    <3>2. m \in [Tank!Slots -> 0..Tank!Per]
      BY DEF Tank!Runtimes
    <3>3. PICK cs \in Seq(TankCommand) : cs = Tank!Serialised(m)
      BY <3>2, TankSerialisedAre
    <3>4. Tank!Range(cs) = {Tank!On(k) : k \in TankActive(m, tank_Hours)}
            \cup {Tank!Off(k, k * Tank!Per + m[k]) : k \in TankActive(m, tank_Hours)}
      BY <3>2, <3>3, TankSerialisedAre DEF TankCycles
    <3>5. TankOnTheHour(cs)
      <4>1. \A k, t : Tank!On(k).time = Tank!On(k).key * 2 /\ ~Tank!Off(k, t).on
        BY DEF Tank!On, Tank!Off, Tank!Per
      <4> QED
        BY <3>4, <4>1 DEF TankOnTheHour
    <3> QED
      BY <2>1, <3>1, <3>3, <3>5
  <2> QED
    BY <2>2, <2>3, <2>4
<1>8. CASE Tank!Keep
  BY <1>1, <1>8 DEF Tank!Keep
<1>9. CASE UNCHANGED tankVars
  BY <1>1, <1>9 DEF tankVars
<1> QED
  BY <1>4, <1>5, <1>6, <1>7, <1>8, <1>9 DEF Tank!Next

\* What is kept works, and the solver agrees with the replay.
LEMMA TankInvariantWorks ==
  ASSUME TankIInv
  PROVE  Tank!KeptPlansWork /\ Tank!SolverAndReplayAgree
<1>1. /\ tank_trace.tank \in Int /\ tank_trace.room \in Int /\ tank_trace.forced \in BOOLEAN
      /\ tank_commands \in Seq(TankCommand) /\ TankOnTheHour(tank_commands)
      /\ tank_at = "kept" => Tank!Accepts(tank_commands)
  BY TankTraceIs DEF TankIInv
<1>2. Tank!KeptPlansWork
  BY <1>1, TankAcceptedWorks DEF Tank!KeptPlansWork
<1>3. Tank!SolverAndReplayAgree
  BY <1>1, TankSolverAgrees DEF Tank!SolverAndReplayAgree
<1> QED
  BY <1>2, <1>3


\* The invariant of this service, whenever it is the one that acts.
LEMMA TankInvariant == CustodySpec => [](custody = "tank" => TankIInv)
<1>1. CustodyInit => (custody = "tank" => TankIInv)
  BY TankInvariantInitially DEF CustodyInit
<1>2. (custody = "tank" => TankIInv) /\ [CustodyNext]_custodyVars
        => (custody = "tank" => TankIInv)'
  BY TankInvariantKept DEF CustodyNext, custodyVars
<1> QED
  BY <1>1, <1>2, PTL DEF CustodySpec

-----------------------------------------------------------------------------
(***************************************************************************)
(* Lists of what is at some places of a sequence.                          *)
(***************************************************************************)

\* A sequence u lists s at the places D, in the order R, by the place f of each.
ListsBy(u, s, D, R, f) ==
  /\ f \in [1..Len(u) -> D]
  /\ \A i \in 1..Len(u) : u[i] = s[f[i]]
  /\ \A j \in D : \E i \in 1..Len(u) : f[i] = j
  /\ \A i, k \in 1..Len(u) : i < k => f[k] \in R[f[i]]

\* The order of the places of a sequence.
Places(s) == [i \in DOMAIN s |-> {j \in DOMAIN s : i < j}]

\* Which places are in their order.
LEMMA PlacesAre ==
  ASSUME NEW s, NEW i \in DOMAIN s, NEW j
  PROVE  j \in Places(s)[i] <=> j \in DOMAIN s /\ i < j
BY DEF Places

\* What lists places that come first, followed by what lists the others.
LEMMA ListsJoin ==
  ASSUME NEW S, NEW u \in Seq(S), NEW v \in Seq(S), NEW s, NEW D, NEW E, NEW R, NEW f, NEW g,
         ListsBy(u, s, D, R, f), ListsBy(v, s, E, R, g),
         \A i \in D, j \in E : j \in R[i]
  PROVE  \E h : ListsBy(u \o v, s, D \cup E, R, h)
<1> DEFINE m == Len(u)
           n == Len(v)
           h == [i \in 1..(m + n) |-> IF i <= m THEN f[i] ELSE g[i - m]]
<1>1. m \in Nat /\ n \in Nat /\ Len(u \o v) = m + n
  OBVIOUS
<1>2. /\ \A i \in 1..(m + n) : i <= m => i \in 1..m /\ (u \o v)[i] = u[i]
      /\ \A i \in 1..(m + n) : ~(i <= m) => i - m \in 1..n /\ (u \o v)[i] = v[i - m]
  OBVIOUS
<1>3. /\ \A i \in 1..m : f[i] \in D /\ u[i] = s[f[i]]
      /\ \A j \in D : \E i \in 1..m : f[i] = j
      /\ \A i, k \in 1..m : i < k => f[k] \in R[f[i]]
  BY DEF ListsBy
<1>4. /\ \A i \in 1..n : g[i] \in E /\ v[i] = s[g[i]]
      /\ \A j \in E : \E i \in 1..n : g[i] = j
      /\ \A i, k \in 1..n : i < k => g[k] \in R[g[i]]
  BY DEF ListsBy
<1>5. /\ \A i \in 1..(m + n) : i <= m => h[i] = f[i]
      /\ \A i \in 1..(m + n) : ~(i <= m) => h[i] = g[i - m]
      /\ DOMAIN h = 1..(m + n) /\ h = [i \in 1..(m + n) |-> h[i]]
  OBVIOUS
<1> HIDE DEF h, m, n
<1>6. h \in [1..(m + n) -> D \cup E]
  <2>1. \A i \in 1..(m + n) : h[i] \in D \cup E
    BY <1>2, <1>3, <1>4, <1>5
  <2> QED
    BY <1>5, <2>1
<1>7. ASSUME NEW i \in 1..(m + n)
      PROVE  (u \o v)[i] = s[h[i]]
  <2>1. CASE i <= m
    <3>1. i \in 1..m /\ (u \o v)[i] = u[i] /\ h[i] = f[i]
      BY <1>2, <1>5, <2>1
    <3>2. u[i] = s[f[i]]
      BY <1>3, <3>1
    <3> QED
      BY <3>1, <3>2
  <2>2. CASE ~(i <= m)
    <3>1. PICK k \in 1..n : k = i - m
      BY <1>2, <2>2
    <3>2. (u \o v)[i] = v[k] /\ h[i] = g[k]
      BY <1>2, <1>5, <2>2, <3>1
    <3>3. v[k] = s[g[k]]
      BY <1>4
    <3> QED
      BY <3>2, <3>3
  <2> QED
    BY <2>1, <2>2
<1>8. ASSUME NEW j \in D \cup E
      PROVE  \E i \in 1..(m + n) : h[i] = j
  <2>1. CASE j \in D
    <3>1. PICK i \in 1..m : f[i] = j
      BY <1>3, <2>1
    <3>2. i \in 1..(m + n) /\ i <= m
      BY <1>1
    <3> QED
      BY <1>5, <3>1, <3>2
  <2>2. CASE j \in E
    <3>1. PICK i \in 1..n : g[i] = j
      BY <1>4, <2>2
    <3>2. i + m \in 1..(m + n) /\ ~(i + m <= m) /\ (i + m) - m = i
      BY <1>1
    <3> QED
      BY <1>5, <3>1, <3>2
  <2> QED
    BY <2>1, <2>2
<1>9. ASSUME NEW i \in 1..(m + n), NEW k \in 1..(m + n), i < k
      PROVE  h[k] \in R[h[i]]
  <2>1. CASE k <= m
    <3>1. i <= m /\ i \in 1..m /\ k \in 1..m
      BY <1>1, <1>9, <2>1
    <3>2. h[i] = f[i] /\ h[k] = f[k]
      BY <1>5, <2>1, <3>1
    <3> QED
      BY <1>3, <1>9, <3>1, <3>2
  <2>2. CASE ~(k <= m) /\ i <= m
    <3>1. h[i] = f[i] /\ h[k] = g[k - m] /\ i \in 1..m /\ k - m \in 1..n
      BY <1>2, <1>5, <2>2
    <3>2. f[i] \in D /\ g[k - m] \in E
      BY <1>3, <1>4, <3>1
    <3> QED
      BY <3>1, <3>2
  <2>3. CASE ~(i <= m)
    <3>1. ~(k <= m)
      BY <1>1, <1>9, <2>3
    <3>2. h[i] = g[i - m] /\ h[k] = g[k - m] /\ i - m \in 1..n /\ k - m \in 1..n
      BY <1>2, <1>5, <2>3, <3>1
    <3>3. i - m < k - m
      BY <1>1, <1>9
    <3> QED
      BY <1>4, <3>2, <3>3
  <2> QED
    BY <2>1, <2>2, <2>3
<1>10. ListsBy(u \o v, s, D \cup E, R, h)
  BY <1>1, <1>6, <1>7, <1>8, <1>9 DEF ListsBy, m, n
<1> QED
  BY <1>10

\* A function carries some places to others, and their order to another.
CarriesPlaces(E, f, F) == \A j : j \in F <=> \E i \in E : j = f[i]
CarriesOrder(E, Q, f, T) == \A i, k \in E : k \in Q[i] => f[k] \in T[f[i]]
Follows(h, n, f, g) == \A i \in 1..n : h[i] = f[g[i]]

\* What is listed of a list.
LEMMA ListsThrough ==
  ASSUME NEW s, NEW u, NEW v, NEW D, NEW E, NEW R, NEW Q, NEW T, NEW f, NEW g,
         ListsBy(u, s, D, R, f), ListsBy(v, u, E, Q, g), E \subseteq 1..Len(u),
         CarriesOrder(E, Q, f, T), NEW F, CarriesPlaces(E, f, F)
  PROVE  \E h : ListsBy(v, s, F, T, h) /\ Follows(h, Len(v), f, g)
<1> DEFINE h == [i \in 1..Len(v) |-> f[g[i]]]
<1>1. /\ \A i \in 1..Len(u) : f[i] \in D /\ u[i] = s[f[i]]
      /\ \A i \in 1..Len(v) : g[i] \in E /\ v[i] = u[g[i]]
      /\ \A j \in E : \E i \in 1..Len(v) : g[i] = j
      /\ \A i, k \in 1..Len(v) : i < k => g[k] \in Q[g[i]]
  BY DEF ListsBy
<1>0. /\ \A i, k \in E : k \in Q[i] => f[k] \in T[f[i]]
      /\ \A j : j \in F <=> \E i \in E : j = f[i]
  BY DEF CarriesOrder, CarriesPlaces
<1>2. h \in [1..Len(v) -> F]
  BY <1>0, <1>1
<1>3. \A i \in 1..Len(v) : h[i] = f[g[i]]
  OBVIOUS
<1> HIDE DEF h
<1>4. \A i \in 1..Len(v) : v[i] = s[h[i]]
  BY <1>0, <1>1, <1>3
<1>5. \A j \in F : \E i \in 1..Len(v) : h[i] = j
  BY <1>0, <1>1, <1>3
<1>6. \A i, k \in 1..Len(v) : i < k => h[k] \in T[h[i]]
  BY <1>0, <1>1, <1>3
<1>7. ListsBy(v, s, F, T, h)
  BY <1>2, <1>4, <1>5, <1>6 DEF ListsBy
<1> QED
  BY <1>3, <1>7 DEF Follows

\* A place is listed once.
LEMMA ListsOnce ==
  ASSUME NEW u, NEW s, NEW D, NEW R, NEW f, ListsBy(u, s, D, R, f), Len(u) \in Nat,
         \A i \in D : i \notin R[i]
  PROVE  \A i, k \in 1..Len(u) : f[i] = f[k] => i = k
<1> SUFFICES ASSUME NEW i \in 1..Len(u), NEW k \in 1..Len(u), f[i] = f[k], i # k
             PROVE  FALSE
  OBVIOUS
<1>1. f[i] \in D /\ f[k] \in D
  BY DEF ListsBy
<1>2. f[k] \in R[f[i]] \/ f[i] \in R[f[k]]
  <2>1. i < k \/ k < i
    OBVIOUS
  <2> QED
    BY <2>1 DEF ListsBy
<1> QED
  BY <1>1, <1>2

\* There is one way to list some places in an order.
LEMMA ListsUnique ==
  ASSUME NEW S, NEW u \in Seq(S), NEW v \in Seq(S), NEW s, NEW D, NEW R, NEW f, NEW g,
         ListsBy(u, s, D, R, f), ListsBy(v, s, D, R, g),
         \A i, j \in D : j \in R[i] => i \notin R[j]
  PROVE  u = v
<1> DEFINE m == Len(u)
           n == Len(v)
<1>1. m \in Nat /\ n \in Nat /\ DOMAIN u = 1..m /\ DOMAIN v = 1..n
  OBVIOUS
<1> HIDE DEF m, n
<1>2. /\ f \in [1..m -> D]
      /\ \A i \in 1..m : f[i] \in D /\ u[i] = s[f[i]]
      /\ \A j \in D : \E i \in 1..m : f[i] = j
      /\ \A i, k \in 1..m : i < k => f[k] \in R[f[i]]
      /\ \A i, k \in 1..m : f[i] = f[k] => i = k
  <2>1. \A i \in D : i \notin R[i]
    OBVIOUS
  <2>2. m = Len(u)
    BY DEF m
  <2>3. \A i, k \in 1..Len(u) : f[i] = f[k] => i = k
    BY <1>1, <2>1, <2>2, ListsOnce
  <2>4. /\ f \in [1..m -> D]
        /\ \A i \in 1..m : u[i] = s[f[i]]
        /\ \A j \in D : \E i \in 1..m : f[i] = j
        /\ \A i, k \in 1..m : i < k => f[k] \in R[f[i]]
    BY <2>2 DEF ListsBy
  <2> QED
    BY <2>2, <2>3, <2>4
<1>3. /\ g \in [1..n -> D]
      /\ \A i \in 1..n : g[i] \in D /\ v[i] = s[g[i]]
      /\ \A j \in D : \E i \in 1..n : g[i] = j
      /\ \A i, k \in 1..n : i < k => g[k] \in R[g[i]]
      /\ \A i, k \in 1..n : g[i] = g[k] => i = k
  <2>1. \A i \in D : i \notin R[i]
    OBVIOUS
  <2>2. n = Len(v)
    BY DEF n
  <2>3. \A i, k \in 1..Len(v) : g[i] = g[k] => i = k
    BY <1>1, <2>1, <2>2, ListsOnce
  <2>4. /\ g \in [1..n -> D]
        /\ \A i \in 1..n : v[i] = s[g[i]]
        /\ \A j \in D : \E i \in 1..n : g[i] = j
        /\ \A i, k \in 1..n : i < k => g[k] \in R[g[i]]
    BY <2>2 DEF ListsBy
  <2> QED
    BY <2>2, <2>3, <2>4
<1>4. m = n
  <2>1. f \in Bijection(1..m, D) /\ g \in Bijection(1..n, D)
    BY <1>2, <1>3 DEF Bijection, Injection, Surjection, IsInjective
  <2>2. /\ IsFiniteSet(1..m) /\ Cardinality(1..m) = m
        /\ IsFiniteSet(1..n) /\ Cardinality(1..n) = n
    <3>1. ASSUME NEW k \in Nat PROVE IsFiniteSet(1..k) /\ Cardinality(1..k) = k
      BY FS_Interval
    <3> QED
      BY <1>1, <3>1
  <2>3. Cardinality(D) = m
    BY <2>1, <2>2, FS_Bijection DEF ExistsBijection
  <2>4. Cardinality(D) = n
    BY <2>1, <2>2, FS_Bijection DEF ExistsBijection
  <2> QED
    BY <2>3, <2>4
<1> DEFINE X == {k \in 0..m : \A i \in 1..m : i <= k => f[i] = g[i]}
<1>5. 0 \in X
  BY <1>1
<1>6. ASSUME NEW k \in 0..(m - 1), k \in X
      PROVE  k + 1 \in X
  <2>1. k + 1 \in 1..m /\ k + 1 \in 0..m /\ k + 1 \in 1..n
    BY <1>1, <1>4
  <2>2. \A i \in 1..m : i <= k => f[i] = g[i]
    BY <1>6
  <2>3. f[k + 1] = g[k + 1]
    <3> SUFFICES ASSUME f[k + 1] # g[k + 1] PROVE FALSE
      OBVIOUS
    <3>1. PICK i \in 1..m : f[i] = g[k + 1]
      BY <1>2, <1>3, <2>1
    <3>2. PICK j \in 1..m : g[j] = f[k + 1]
      BY <1>2, <1>3, <1>4, <2>1
    <3>3. k + 1 < i
      <4>1. i # k + 1
        BY <3>1
      <4>2. ~(i <= k)
        <5> SUFFICES ASSUME i <= k PROVE FALSE
          OBVIOUS
        <5>1. g[i] = g[k + 1]
          BY <2>2, <3>1
        <5>2. i = k + 1
          BY <1>3, <1>4, <2>1, <5>1
        <5> QED
          BY <4>1, <5>2
      <4> QED
        BY <4>1, <4>2
    <3>4. k + 1 < j
      <4>1. j # k + 1
        BY <3>2
      <4>2. ~(j <= k)
        <5> SUFFICES ASSUME j <= k PROVE FALSE
          OBVIOUS
        <5>1. f[j] = f[k + 1]
          BY <2>2, <3>2
        <5>2. j = k + 1
          BY <1>2, <2>1, <5>1
        <5> QED
          BY <4>1, <5>2
      <4> QED
        BY <4>1, <4>2
    <3>5. g[k + 1] \in R[f[k + 1]]
      BY <1>2, <2>1, <3>1, <3>3
    <3>6. f[k + 1] \in R[g[k + 1]]
      BY <1>3, <1>4, <2>1, <3>2, <3>4
    <3> QED
      BY <1>2, <1>3, <2>1, <3>5, <3>6
  <2>4. ASSUME NEW i \in 1..m, i <= k + 1
        PROVE  f[i] = g[i]
    <3>1. i <= k \/ i = k + 1
      BY <2>4
    <3> QED
      BY <2>2, <2>3, <3>1
  <2> QED
    BY <2>1, <2>4
<1>7. m \in X
  <2> HIDE DEF X
  <2>1. 0..m \subseteq X
    BY <1>1, <1>5, <1>6, UpTo
  <2>2. m \in 0..m
    BY <1>1
  <2> QED
    BY <2>1, <2>2
<1>8. \A i \in 1..m : f[i] = g[i] /\ u[i] = v[i]
  <2>1. \A i \in 1..m : f[i] = g[i]
    BY <1>7
  <2> QED
    BY <1>2, <1>3, <1>4, <2>1
<1> QED
  BY <1>1, <1>4, <1>8

\* As many places are listed as there are.
LEMMA ListsCount ==
  ASSUME NEW u, NEW s, NEW D, NEW R, NEW f, ListsBy(u, s, D, R, f), Len(u) \in Nat,
         \A i \in D : i \notin R[i], NEW C \in SUBSET D
  PROVE  Cardinality({i \in 1..Len(u) : f[i] \in C}) = Cardinality(C)
<1> DEFINE B == {i \in 1..Len(u) : f[i] \in C}
           h == [i \in B |-> f[i]]
<1>1. \A i, k \in 1..Len(u) : f[i] = f[k] => i = k
  BY ListsOnce
<1>2. h \in Bijection(B, C)
  <2>1. h \in [B -> C]
    OBVIOUS
  <2>2. \A i, k \in B : h[i] = h[k] => i = k
    BY <1>1
  <2>3. \A j \in C : \E i \in B : h[i] = j
    BY DEF ListsBy
  <2> HIDE DEF B, h
  <2> QED
    BY <2>1, <2>2, <2>3 DEF Bijection, Injection, Surjection, IsInjective
<1>3. IsFiniteSet(B)
  <2>1. IsFiniteSet(1..Len(u))
    BY FS_Interval
  <2> QED
    BY <2>1, FS_Subset
<1> HIDE DEF B, h
<1>4. Cardinality(C) = Cardinality(B)
  BY <1>2, <1>3, FS_Bijection DEF ExistsBijection
<1> QED
  BY <1>4 DEF B

\* One place, and none.
LEMMA ListsOne ==
  ASSUME NEW s, NEW n, NEW R, NEW v, Len(v) = 1, v[1] = s[n]
  PROVE  ListsBy(v, s, {n}, R, [i \in 1..1 |-> n])
<1> DEFINE f == [i \in 1..1 |-> n]
<1>1. f \in [1..1 -> {n}] /\ \A i \in 1..1 : f[i] = n
  OBVIOUS
<1>2. \A i, k \in 1..1 : i = 1 /\ ~(i < k)
  OBVIOUS
<1>3. 1 \in 1..1
  OBVIOUS
<1> HIDE DEF f
<1>4. \A i \in 1..1 : v[i] = s[f[i]]
  BY <1>1, <1>2
<1>5. \A j \in {n} : \E i \in 1..1 : f[i] = j
  BY <1>1, <1>3
<1>6. ListsBy(v, s, {n}, R, f)
  BY <1>1, <1>2, <1>4, <1>5 DEF ListsBy
<1> QED
  BY <1>6 DEF f

\* The same places in another order that they are in.
LEMMA ListsOrder ==
  ASSUME NEW u, NEW s, NEW D, NEW R, NEW Q, NEW f, ListsBy(u, s, D, R, f),
         \A i, j \in D : j \in R[i] => j \in Q[i]
  PROVE  ListsBy(u, s, D, Q, f)
<1>1. /\ f \in [1..Len(u) -> D]
      /\ \A i \in 1..Len(u) : f[i] \in D /\ u[i] = s[f[i]]
      /\ \A j \in D : \E i \in 1..Len(u) : f[i] = j
      /\ \A i, k \in 1..Len(u) : i < k => f[k] \in R[f[i]]
  BY DEF ListsBy
<1>2. \A i, k \in 1..Len(u) : i < k => f[k] \in Q[f[i]]
  BY <1>1
<1> QED
  BY <1>1, <1>2 DEF ListsBy


-----------------------------------------------------------------------------
(***************************************************************************)
(* The rules of a room and the boosts that are asked for (ZonePlan).       *)
(***************************************************************************)

\* The module's cardinality is the one of finite sets.
LEMMA ZoneCardinalityIs == \A S : Zone!Cardinality(S) = Cardinality(S)
  BY DEF Zone!Cardinality, Cardinality

\* The smaller of two numbers.
LEMMA ZoneMinIs ==
  ASSUME NEW a \in Int, NEW b \in Int
  PROVE  Zone!Min({a, b}) = IF a <= b THEN a ELSE b
<1>1. PICK x \in {a, b} : x = Zone!Min({a, b}) /\ \A y \in {a, b} : x <= y
  <2>1. \E x \in {a, b} : \A y \in {a, b} : x <= y
    OBVIOUS
  <2> QED
    BY <2>1 DEF Zone!Min
<1> QED
  BY <1>1

\* The larger of two numbers.
LEMMA ZoneMaxIs ==
  ASSUME NEW a \in Int, NEW b \in Int
  PROVE  Zone!Max({a, b}) = IF a >= b THEN a ELSE b
<1>1. PICK x \in {a, b} : x = Zone!Max({a, b}) /\ \A y \in {a, b} : x >= y
  <2>1. \E x \in {a, b} : \A y \in {a, b} : x >= y
    OBVIOUS
  <2> QED
    BY <2>1 DEF Zone!Max
<1> QED
  BY <1>1

\* The least of some numbers.
LEMMA ZoneLeastIs ==
  ASSUME NEW S \in SUBSET Nat, S # {}
  PROVE  Zone!Min(S) \in S /\ \A y \in S : Zone!Min(S) <= y
<1>1. \E x \in S : \A y \in S : x <= y
  BY LeastOf
<1> QED
  BY <1>1 DEF Zone!Min

\* A sequence with another behind it ranges over both.
LEMMA ZoneRangesAre ==
  ASSUME NEW S, NEW s \in Seq(S), NEW t \in Seq(S)
  PROVE  s \o t \in Seq(S) /\ Len(s \o t) = Len(s) + Len(t)
           /\ Zone!Range(s \o t) = Zone!Range(s) \cup Zone!Range(t)
<1>1. \A f : Zone!Range(f) = Range(f)
  BY DEF Zone!Range, Range
<1> QED
  BY <1>1, RangesJoin

\* What is picked so far.
LEMMA ZonePickingIs ==
  ASSUME NEW S, NEW s \in Seq(S), NEW D
  PROVE  /\ Zone!Picking(s, D) \in [0..Len(s) -> Seq(S)]
         /\ Zone!Picking(s, D)[0] = <<>>
         /\ \A n \in 1..Len(s) : Zone!Picking(s, D)[n]
              = Zone!Picking(s, D)[n - 1] \o Zone!Chosen(s, D, n)
<1> DEFINE z == <<>>
           Then(q, n) == q \o Zone!Chosen(s, D, n)
           step == [n \in 1..Len(s) |-> [q \in Seq(S) |-> Then(q, n)]]
           All(g) == g = [n \in 0..Len(s) |-> IF n = 0 THEN z ELSE Then(g[n - 1], n)]
<1>1. z \in Seq(S)
  OBVIOUS
<1>2. ASSUME NEW n \in 1..Len(s), NEW q \in Seq(S)
      PROVE  Then(q, n) \in Seq(S)
  <2>1. Zone!Chosen(s, D, n) \in Seq(S)
    <3>1. CASE n \in D
      <4>1. s[n] \in S
        OBVIOUS
      <4>2. <<s[n]>> \in Seq(S)
        BY <4>1
      <4> QED
        BY <3>1, <4>2 DEF Zone!Chosen
    <3>2. CASE n \notin D
      BY <3>2 DEF Zone!Chosen
    <3> QED
      BY <3>1, <3>2
  <2> QED
    BY <2>1, ZoneRangesAre

<1>8. Zone!Picking(s, D) = CHOOSE g : All(g)
  BY DEF Zone!Picking
<1> HIDE DEF z, Then
<1>3. step \in [1..Len(s) -> [Seq(S) -> Seq(S)]]
  BY <1>2
<1>4. Len(s) \in Nat
  OBVIOUS
<1>5. PICK g \in [0..Len(s) -> Seq(S)] : g[0] = z
        /\ \A n \in 1..Len(s) : g[n] = step[n][g[n - 1]]
  <2> HIDE DEF step
  <2>1. SUFFICES ASSUME NEW N \in Nat, N = Len(s), NEW T, T = Seq(S)
                 PROVE  \E g \in [0..N -> T] : g[0] = z
                          /\ \A n \in 1..N : g[n] = step[n][g[n - 1]]
    BY <1>4
  <2>2. PICK y \in T : y = z
    BY <1>1, <2>1
  <2>3. PICK st \in [1..N -> [T -> T]] : st = step
    BY <1>3, <2>1
  <2>4. \E g \in [0..N -> T] : g[0] = y /\ \A n \in 1..N : g[n] = st[n][g[n - 1]]
    BY Repeated, SMTT(60)
  <2> QED
    BY <2>2, <2>3, <2>4
<1>6. \A n \in 1..Len(s) : g[n] = Then(g[n - 1], n)
  <2> SUFFICES ASSUME NEW n \in 1..Len(s)
               PROVE  g[n] = Then(g[n - 1], n)
    OBVIOUS
  <2>1. n - 1 \in 0..Len(s)
    BY <1>4
  <2>2. g[n - 1] \in Seq(S)
    BY <2>1
  <2> QED
    BY <1>5, <2>2
<1>7. All(g)
  <2>1. ASSUME NEW n \in 0..Len(s)
        PROVE  g[n] = IF n = 0 THEN z ELSE Then(g[n - 1], n)
    BY <1>4, <1>5, <1>6
  <2> QED
    BY <2>1
<1>9. All(Zone!Picking(s, D))
  <2> HIDE DEF All
  <2> QED
    BY <1>7, <1>8
<1> DEFINE r == Zone!Picking(s, D)
<1> HIDE DEF r
<1>10. r = [n \in 0..Len(s) |-> IF n = 0 THEN z ELSE Then(r[n - 1], n)]
  BY <1>9 DEF r
<1>11. r[0] = z /\ \A n \in 1..Len(s) : r[n] = Then(r[n - 1], n)
  BY <1>4, <1>10
<1> DEFINE X == {n \in 0..Len(s) : r[n] \in Seq(S)}
<1>12. 0..Len(s) \subseteq X
  <2>1. 0 \in X
    BY <1>1, <1>4, <1>11
  <2>2. ASSUME NEW n \in 0..(Len(s) - 1), n \in X PROVE n + 1 \in X
    <3>1. n + 1 \in 1..Len(s) /\ (n + 1) - 1 = n /\ n + 1 \in 0..Len(s)
      BY <1>4
    <3>2. r[n + 1] = Then(r[(n + 1) - 1], n + 1)
      BY <1>11, <3>1
    <3>3. r[(n + 1) - 1] \in Seq(S)
      BY <2>2, <3>1
    <3> QED
      BY <1>2, <3>1, <3>2, <3>3
  <2> HIDE DEF X
  <2> QED
    BY <1>4, <2>1, <2>2, UpTo
<1>13. r \in [0..Len(s) -> Seq(S)]
  BY <1>10, <1>12
<1>14. \A n \in 1..Len(s) : r[n] = r[n - 1] \o Zone!Chosen(s, D, n)
  BY <1>11 DEF Then
<1>15. r[0] = <<>>
  BY <1>11 DEF z
<1> QED
  BY <1>13, <1>14, <1>15, Zenon DEF r

\* What is picked lists the places in their order.
LEMMA ZonePickedIs ==
  ASSUME NEW S, NEW s \in Seq(S), NEW D \in SUBSET (1..Len(s))
  PROVE  /\ Zone!Picked(s, D) \in Seq(S)
         /\ \E f : ListsBy(Zone!Picked(s, D), s, D, Places(s), f)
<1> DEFINE r == Zone!Picking(s, D)
           X == {n \in 0..Len(s) : \E f : ListsBy(r[n], s, D \cap (1..n), Places(s), f)}
<1>1. /\ r \in [0..Len(s) -> Seq(S)] /\ r[0] = <<>>
      /\ \A n \in 1..Len(s) : r[n] = r[n - 1] \o Zone!Chosen(s, D, n)
  BY ZonePickingIs
<1>2. Len(s) \in Nat /\ DOMAIN s = 1..Len(s)
  OBVIOUS
<1>3. Zone!Picked(s, D) = r[Len(s)]
  BY DEF Zone!Picked
<1> HIDE DEF r
<1>4. 0 \in X
  <2>1. D \cap (1..0) = {} /\ Len(r[0]) = 0
    BY <1>1
  <2>2. ListsBy(r[0], s, {}, Places(s), <<>>)
    BY <2>1 DEF ListsBy
  <2> QED
    BY <1>2, <2>1, <2>2
<1>5. ASSUME NEW n \in 0..(Len(s) - 1), n \in X
      PROVE  n + 1 \in X
  <2>1. n + 1 \in 1..Len(s) /\ (n + 1) - 1 = n /\ n + 1 \in 0..Len(s) /\ n \in 0..Len(s)
          /\ n \in Nat
    OBVIOUS
  <2>2. r[n + 1] = r[n] \o Zone!Chosen(s, D, n + 1)
    BY <1>1, <2>1
  <2>3. PICK u \in Seq(S) : u = r[n]
    BY <1>1, <2>1
  <2>4. PICK f : ListsBy(u, s, D \cap (1..n), Places(s), f)
    BY <1>5, <2>3
  <2>5. CASE n + 1 \notin D
    <3>1. Zone!Chosen(s, D, n + 1) = <<>>
      BY <2>5 DEF Zone!Chosen
    <3>2. u \o <<>> = u
      OBVIOUS
    <3>3. D \cap (1..(n + 1)) = D \cap (1..n)
      BY <2>1, <2>5
    <3>4. r[n + 1] = u
      BY <2>2, <2>3, <3>1, <3>2
    <3> QED
      BY <2>1, <2>4, <3>3, <3>4
  <2>6. CASE n + 1 \in D
    <3> DEFINE v == <<s[n + 1]>>
    <3>1. Zone!Chosen(s, D, n + 1) = v
      BY <2>6 DEF Zone!Chosen
    <3>2. v \in Seq(S) /\ Len(v) = 1 /\ v[1] = s[n + 1]
      <4>1. s[n + 1] \in S
        BY <2>1
      <4> QED
        BY <4>1
    <3> HIDE DEF v
    <3>3. ListsBy(v, s, {n + 1}, Places(s), [i \in 1..1 |-> n + 1])
      <4>1. PICK k : k = n + 1
        OBVIOUS
      <4>2. ListsBy(v, s, {k}, Places(s), [i \in 1..1 |-> k])
        BY <3>2, <4>1, ListsOne
      <4> QED
        BY <4>1, <4>2
    <3>4. \A i \in D \cap (1..n), j \in {n + 1} : j \in Places(s)[i]
      <4>1. \A i \in D \cap (1..n), j \in {n + 1} : i \in DOMAIN s /\ j \in DOMAIN s /\ i < j
        BY <1>2, <2>1
      <4> QED
        BY <4>1, PlacesAre
    <3>5. \E h : ListsBy(u \o v, s, (D \cap (1..n)) \cup {n + 1}, Places(s), h)
      BY <2>4, <3>2, <3>3, <3>4, ListsJoin
    <3>6. (D \cap (1..n)) \cup {n + 1} = D \cap (1..(n + 1))
      BY <2>1, <2>6
    <3> QED
      BY <2>1, <2>2, <2>3, <3>1, <3>5, <3>6
  <2> QED
    BY <2>5, <2>6
<1>6. Len(s) \in X
  <2> HIDE DEF X
  <2>1. 0..Len(s) \subseteq X
    BY <1>2, <1>4, <1>5, UpTo
  <2>2. Len(s) \in 0..Len(s)
    BY <1>2
  <2> QED
    BY <2>1, <2>2, Zenon
<1>7. D \cap (1..Len(s)) = D
  OBVIOUS
<1>8. r[Len(s)] \in Seq(S)
  <2>1. Len(s) \in 0..Len(s)
    BY <1>2
  <2> QED
    BY <1>1, <2>1
<1>9. \E f : ListsBy(r[Len(s)], s, D \cap (1..Len(s)), Places(s), f)
  BY <1>6
<1> QED
  BY <1>3, <1>7, <1>8, <1>9

\* The levels that there can be.
ZoneLevelsIn(s, V) == zone_trace.level \in V /\ \A i \in 1..Len(s) : s[i].value \in V

\* The level after each action.
LEMMA ZoneLevelIs ==
  ASSUME NEW S, NEW s \in Seq(S), NEW V, ZoneLevelsIn(s, V)
  PROVE  /\ Zone!Level(s) \in [0..Len(s) -> V]
         /\ Zone!Level(s)[0] = zone_trace.level
         /\ \A n \in 1..Len(s) : Zone!Level(s)[n]
              = IF s[n].kind = "quiet" THEN s[n].value ELSE Zone!Level(s)[n - 1]
<1> DEFINE z == zone_trace.level
           Then(q, n) == IF s[n].kind = "quiet" THEN s[n].value ELSE q
           step == [n \in 1..Len(s) |-> [q \in V |-> Then(q, n)]]
           All(g) == g = [n \in 0..Len(s) |-> IF n = 0 THEN z ELSE Then(g[n - 1], n)]
<1>1. z \in V
  BY DEF ZoneLevelsIn
<1>2. ASSUME NEW n \in 1..Len(s), NEW q \in V
      PROVE  Then(q, n) \in V
  BY DEF ZoneLevelsIn

<1>8. Zone!Level(s) = CHOOSE g : All(g)
  BY DEF Zone!Level
<1> HIDE DEF z, Then
<1>3. step \in [1..Len(s) -> [V -> V]]
  BY <1>2
<1>4. Len(s) \in Nat
  OBVIOUS
<1>5. PICK g \in [0..Len(s) -> V] : g[0] = z /\ \A n \in 1..Len(s) : g[n] = step[n][g[n - 1]]
  <2> HIDE DEF step
  <2>1. SUFFICES ASSUME NEW N \in Nat, N = Len(s), NEW T, T = V
                 PROVE  \E g \in [0..N -> T] : g[0] = z
                          /\ \A n \in 1..N : g[n] = step[n][g[n - 1]]
    BY <1>4
  <2>2. PICK y \in T : y = z
    BY <1>1, <2>1
  <2>3. PICK st \in [1..N -> [T -> T]] : st = step
    BY <1>3, <2>1
  <2>4. \E g \in [0..N -> T] : g[0] = y /\ \A n \in 1..N : g[n] = st[n][g[n - 1]]
    BY Repeated, SMTT(60)
  <2> QED
    BY <2>2, <2>3, <2>4
<1>6. \A n \in 1..Len(s) : g[n] = Then(g[n - 1], n)
  <2> SUFFICES ASSUME NEW n \in 1..Len(s)
               PROVE  g[n] = Then(g[n - 1], n)
    OBVIOUS
  <2>1. n - 1 \in 0..Len(s)
    BY <1>4
  <2>2. g[n - 1] \in V
    BY <2>1
  <2> QED
    BY <1>5, <2>2
<1>7. All(g)
  <2>1. ASSUME NEW n \in 0..Len(s)
        PROVE  g[n] = IF n = 0 THEN z ELSE Then(g[n - 1], n)
    BY <1>4, <1>5, <1>6
  <2> QED
    BY <2>1
<1>9. All(Zone!Level(s))
  <2> HIDE DEF All
  <2> QED
    BY <1>7, <1>8
<1> DEFINE r == Zone!Level(s)
<1> HIDE DEF r
<1>10. r = [n \in 0..Len(s) |-> IF n = 0 THEN z ELSE Then(r[n - 1], n)]
  BY <1>9 DEF r
<1>11. r[0] = z /\ \A n \in 1..Len(s) : r[n] = Then(r[n - 1], n)
  BY <1>4, <1>10
<1> DEFINE X == {n \in 0..Len(s) : r[n] \in V}
<1>12. 0..Len(s) \subseteq X
  <2>1. 0 \in X
    BY <1>1, <1>4, <1>11
  <2>2. ASSUME NEW n \in 0..(Len(s) - 1), n \in X PROVE n + 1 \in X
    <3>1. n + 1 \in 1..Len(s) /\ (n + 1) - 1 = n /\ n + 1 \in 0..Len(s)
      BY <1>4
    <3>2. r[n + 1] = Then(r[(n + 1) - 1], n + 1)
      BY <1>11, <3>1
    <3>3. r[(n + 1) - 1] \in V
      BY <2>2, <3>1
    <3> QED
      BY <1>2, <3>1, <3>2, <3>3
  <2> HIDE DEF X
  <2> QED
    BY <1>4, <2>1, <2>2, UpTo
<1>13. r \in [0..Len(s) -> V]
  BY <1>10, <1>12
<1>14. \A n \in 1..Len(s) : r[n] = IF s[n].kind = "quiet" THEN s[n].value ELSE r[n - 1]
  BY <1>11 DEF Then
<1>15. r[0] = zone_trace.level
  BY <1>11 DEF z
<1> QED
  BY <1>13, <1>14, <1>15, Zenon DEF r

\* What comes before each instant.
LEMMA ZoneOrderingIs ==
  ASSUME NEW S, NEW s \in Seq(S)
  PROVE  /\ Zone!Ordering(s) \in [0..(zone_Hours + zone_Day + 1) -> Seq(S)]
         /\ Zone!Ordering(s)[0] = <<>>
         /\ \A n \in 1..(zone_Hours + zone_Day + 1) : Zone!Ordering(s)[n]
              = Zone!Ordering(s)[n - 1] \o Zone!Picked(s, {i \in DOMAIN s : s[i].t = n - 1})
<1> DEFINE z == <<>>
           Then(q, n) == q \o Zone!Picked(s, {i \in DOMAIN s : s[i].t = n - 1})
           step == [n \in 1..(zone_Hours + zone_Day + 1) |-> [q \in Seq(S) |-> Then(q, n)]]
           All(g) == g = [n \in 0..(zone_Hours + zone_Day + 1) |-> IF n = 0 THEN z
                            ELSE Then(g[n - 1], n)]
<1>1. z \in Seq(S)
  OBVIOUS
<1>2. ASSUME NEW n \in 1..(zone_Hours + zone_Day + 1), NEW q \in Seq(S)
      PROVE  Then(q, n) \in Seq(S)
  <2>1. {i \in DOMAIN s : s[i].t = n - 1} \in SUBSET (1..Len(s))
    OBVIOUS
  <2>2. Zone!Picked(s, {i \in DOMAIN s : s[i].t = n - 1}) \in Seq(S)
    BY <2>1, ZonePickedIs
  <2> QED
    BY <2>2, ZoneRangesAre

<1>8. Zone!Ordering(s) = CHOOSE g : All(g)
  BY DEF Zone!Ordering
<1> HIDE DEF z, Then
<1>3. step \in [1..(zone_Hours + zone_Day + 1) -> [Seq(S) -> Seq(S)]]
  BY <1>2
<1>4. (zone_Hours + zone_Day + 1) \in Nat
  BY ZoneAssumption
<1>5. PICK g \in [0..(zone_Hours + zone_Day + 1) -> Seq(S)] : g[0] = z
        /\ \A n \in 1..(zone_Hours + zone_Day + 1) : g[n] = step[n][g[n - 1]]
  <2> HIDE DEF step
  <2>1. SUFFICES ASSUME NEW N \in Nat, N = (zone_Hours + zone_Day + 1), NEW T, T = Seq(S)
                 PROVE  \E g \in [0..N -> T] : g[0] = z
                          /\ \A n \in 1..N : g[n] = step[n][g[n - 1]]
    BY <1>4
  <2>2. PICK y \in T : y = z
    BY <1>1, <2>1
  <2>3. PICK st \in [1..N -> [T -> T]] : st = step
    BY <1>3, <2>1
  <2>4. \E g \in [0..N -> T] : g[0] = y /\ \A n \in 1..N : g[n] = st[n][g[n - 1]]
    BY Repeated, SMTT(60)
  <2> QED
    BY <2>2, <2>3, <2>4
<1>6. \A n \in 1..(zone_Hours + zone_Day + 1) : g[n] = Then(g[n - 1], n)
  <2> SUFFICES ASSUME NEW n \in 1..(zone_Hours + zone_Day + 1)
               PROVE  g[n] = Then(g[n - 1], n)
    OBVIOUS
  <2>1. n - 1 \in 0..(zone_Hours + zone_Day + 1)
    BY <1>4
  <2>2. g[n - 1] \in Seq(S)
    BY <2>1
  <2> QED
    BY <1>5, <2>2
<1>7. All(g)
  <2>1. ASSUME NEW n \in 0..(zone_Hours + zone_Day + 1)
        PROVE  g[n] = IF n = 0 THEN z ELSE Then(g[n - 1], n)
    BY <1>4, <1>5, <1>6
  <2> QED
    BY <2>1
<1>9. All(Zone!Ordering(s))
  <2> HIDE DEF All
  <2> QED
    BY <1>7, <1>8
<1> DEFINE r == Zone!Ordering(s)
<1> HIDE DEF r
<1>10. r = [n \in 0..(zone_Hours + zone_Day + 1) |-> IF n = 0 THEN z ELSE Then(r[n - 1], n)]
  BY <1>9 DEF r
<1>11. r[0] = z /\ \A n \in 1..(zone_Hours + zone_Day + 1) : r[n] = Then(r[n - 1], n)
  BY <1>4, <1>10
<1> DEFINE X == {n \in 0..(zone_Hours + zone_Day + 1) : r[n] \in Seq(S)}
<1>12. 0..(zone_Hours + zone_Day + 1) \subseteq X
  <2>1. 0 \in X
    BY <1>1, <1>4, <1>11
  <2>2. ASSUME NEW n \in 0..((zone_Hours + zone_Day + 1) - 1), n \in X PROVE n + 1 \in X
    <3>1. n + 1 \in 1..(zone_Hours + zone_Day + 1) /\ (n + 1) - 1 = n
            /\ n + 1 \in 0..(zone_Hours + zone_Day + 1)
      BY <1>4
    <3>2. r[n + 1] = Then(r[(n + 1) - 1], n + 1)
      BY <1>11, <3>1
    <3>3. r[(n + 1) - 1] \in Seq(S)
      BY <2>2, <3>1
    <3> QED
      BY <1>2, <3>1, <3>2, <3>3
  <2> HIDE DEF X
  <2> QED
    BY <1>4, <2>1, <2>2, UpTo
<1>13. r \in [0..(zone_Hours + zone_Day + 1) -> Seq(S)]
  BY <1>10, <1>12
<1>14. \A n \in 1..(zone_Hours + zone_Day + 1) :
         r[n] = r[n - 1] \o Zone!Picked(s, {i \in DOMAIN s : s[i].t = n - 1})
  BY <1>11 DEF Then
<1>15. r[0] = <<>>
  BY <1>11 DEF z
<1> QED
  BY <1>13, <1>14, <1>15, Zenon DEF r

\* The actions that the rules can ask for.
ZoneValues == Int \cup {"eco", "normal", "comfort"}
ZoneOwners == {"battery", "preheat", "guardrail", "cooling", "none"}
ZoneAction == [t : Zone!Instants, kind : {"boost", "restore", "quiet", "mode"},
               value : ZoneValues, owner : ZoneOwners]

\* The order of time, and of places within an instant.
ZoneEarlier(s, i, j) == s[i].t < s[j].t \/ (s[i].t = s[j].t /\ i < j)
ZoneTimes(s) == [i \in DOMAIN s |-> {j \in DOMAIN s : ZoneEarlier(s, i, j)}]

\* Which places are in the order of time.
LEMMA ZoneTimesAre ==
  ASSUME NEW s, NEW i \in DOMAIN s, NEW j
  PROVE  j \in ZoneTimes(s)[i] <=> j \in DOMAIN s /\ ZoneEarlier(s, i, j)
BY DEF ZoneTimes

\* What is ordered lists all places in the order of time.
LEMMA ZoneOrderedIs ==
  ASSUME NEW s \in Seq(ZoneAction)
  PROVE  /\ Zone!Ordered(s) \in Seq(ZoneAction)
         /\ \E f : ListsBy(Zone!Ordered(s), s, 1..Len(s), ZoneTimes(s), f)
<1> DEFINE N == zone_Hours + zone_Day + 1
           r == Zone!Ordering(s)
           At(t) == {i \in DOMAIN s : s[i].t = t}
           Past(t) == {i \in DOMAIN s : s[i].t < t}
           X == {t \in 0..N : \E f : ListsBy(r[t], s, Past(t), ZoneTimes(s), f)}
<1>1. /\ r \in [0..N -> Seq(ZoneAction)] /\ r[0] = <<>>
      /\ \A t \in 1..N : r[t] = r[t - 1] \o Zone!Picked(s, At(t - 1))
  BY ZoneOrderingIs
<1>2. N \in Nat /\ Len(s) \in Nat /\ DOMAIN s = 1..Len(s) /\ Zone!Ordered(s) = r[N]
  BY ZoneAssumption DEF Zone!Ordered
<1>3. \A i \in DOMAIN s : s[i].t \in Nat /\ s[i].t < N
  <2> SUFFICES ASSUME NEW i \in DOMAIN s PROVE s[i].t \in Nat /\ s[i].t < N
    OBVIOUS
  <2>1. s[i] \in ZoneAction
    OBVIOUS
  <2>2. s[i].t \in 0..(zone_Hours + zone_Day)
    BY <2>1 DEF ZoneAction, Zone!Instants
  <2> QED
    BY <2>2, ZoneAssumption
<1> HIDE DEF N, r
<1>4. 0 \in X
  <2>1. Past(0) = {} /\ Len(r[0]) = 0
    BY <1>1, <1>3
  <2>2. ListsBy(r[0], s, {}, ZoneTimes(s), <<>>)
    BY <2>1 DEF ListsBy
  <2> HIDE DEF Past
  <2>3. \E f : ListsBy(r[0], s, Past(0), ZoneTimes(s), f)
    BY <2>1, <2>2
  <2>4. 0 \in 0..N
    BY <1>2
  <2> QED
    BY <2>3, <2>4, Zenon
<1>5. ASSUME NEW t \in 0..(N - 1), t \in X
      PROVE  t + 1 \in X
  <2>1. t + 1 \in 1..N /\ (t + 1) - 1 = t /\ t + 1 \in 0..N /\ t \in 0..N /\ t \in Nat
    BY <1>2
  <2>2. r[t + 1] = r[t] \o Zone!Picked(s, At(t))
    BY <1>1, <2>1
  <2>3. PICK u \in Seq(ZoneAction) : u = r[t]
    BY <1>1, <2>1
  <2>4. PICK f : ListsBy(u, s, Past(t), ZoneTimes(s), f)
    BY <1>5, <2>3
  <2>5. At(t) \in SUBSET (1..Len(s))
    BY <1>2
  <2>6. PICK v \in Seq(ZoneAction) : v = Zone!Picked(s, At(t))
          /\ \E g : ListsBy(v, s, At(t), Places(s), g)
    <3> HIDE DEF At
    <3> QED
      BY <2>5, ZonePickedIs
  <2>7. PICK g : ListsBy(v, s, At(t), Places(s), g)
    BY <2>6
  <2>8. ListsBy(v, s, At(t), ZoneTimes(s), g)
    <3>1. \A i, j \in At(t) : j \in Places(s)[i] => j \in ZoneTimes(s)[i]
      <4>1. \A i, j \in At(t) : i \in DOMAIN s /\ j \in DOMAIN s /\ s[i].t = s[j].t
        OBVIOUS
      <4> QED
        BY <4>1, PlacesAre, ZoneTimesAre DEF ZoneEarlier
    <3> HIDE DEF At
    <3> QED
      BY <2>7, <3>1, ListsOrder, Zenon
  <2>9. \A i \in Past(t), j \in At(t) : j \in ZoneTimes(s)[i]
    <3>1. \A i \in Past(t), j \in At(t) : i \in DOMAIN s /\ j \in DOMAIN s /\ s[i].t < s[j].t
      OBVIOUS
    <3> QED
      BY <3>1, ZoneTimesAre DEF ZoneEarlier
  <2>10. Past(t) \cup At(t) = Past(t + 1)
    BY <1>3, <2>1
  <2> HIDE DEF Past, At
  <2>11. \E h : ListsBy(u \o v, s, Past(t) \cup At(t), ZoneTimes(s), h)
    BY <2>4, <2>8, <2>9, ListsJoin
  <2>12. r[t + 1] = u \o v
    BY <2>2, <2>3, <2>6
  <2> QED
    BY <2>1, <2>10, <2>11, <2>12
<1>6. N \in X
  <2> HIDE DEF X
  <2>1. 0..N \subseteq X
    BY <1>2, <1>4, <1>5, UpTo
  <2>2. N \in 0..N
    BY <1>2
  <2> QED
    BY <2>1, <2>2
<1>7. Past(N) = 1..Len(s) /\ r[N] \in Seq(ZoneAction)
  BY <1>1, <1>2, <1>3
<1> HIDE DEF Past
<1> QED
  BY <1>2, <1>6, <1>7

\* Actions have a kind and an instant.
LEMMA ZoneActionsAre ==
  ASSUME NEW s \in Seq(ZoneAction)
  PROVE  /\ Len(s) \in Nat /\ DOMAIN s = 1..Len(s)
         /\ \A i \in 1..Len(s) : s[i] \in ZoneAction /\ s[i].t \in Nat
              /\ s[i].value \in ZoneValues
<1>1. Len(s) \in Nat /\ DOMAIN s = 1..Len(s)
  OBVIOUS
<1>2. ASSUME NEW i \in 1..Len(s)
      PROVE  s[i] \in ZoneAction /\ s[i].t \in Nat /\ s[i].value \in ZoneValues
  <2>1. s[i] \in ZoneAction
    BY <1>1
  <2> QED
    BY <2>1, ZoneAssumption DEF ZoneAction, Zone!Instants
<1> QED
  BY <1>1, <1>2

\* What is picked in order, and then ordered, lists the places in the order of time.
LEMMA ZoneOrderedPicked ==
  ASSUME NEW s \in Seq(ZoneAction), NEW D \in SUBSET (1..Len(s))
  PROVE  /\ Zone!Picked(s, D) \in Seq(ZoneAction)
         /\ Zone!Ordered(Zone!Picked(s, D)) \in Seq(ZoneAction)
         /\ \E f : ListsBy(Zone!Ordered(Zone!Picked(s, D)), s, D, ZoneTimes(s), f)
<1>1. PICK p \in Seq(ZoneAction) : p = Zone!Picked(s, D)
        /\ \E f : ListsBy(p, s, D, Places(s), f)
  BY ZonePickedIs
<1>2. PICK f : ListsBy(p, s, D, Places(s), f)
  BY <1>1
<1>3. PICK u \in Seq(ZoneAction) : u = Zone!Ordered(p)
        /\ \E g : ListsBy(u, p, 1..Len(p), ZoneTimes(p), g)
  BY ZoneOrderedIs
<1>4. PICK g : ListsBy(u, p, 1..Len(p), ZoneTimes(p), g)
  BY <1>3
<1>5. /\ \A i \in 1..Len(p) : f[i] \in D /\ p[i] = s[f[i]]
      /\ \A j \in D : \E i \in 1..Len(p) : f[i] = j
      /\ \A i, k \in 1..Len(p) : i < k => f[k] \in Places(s)[f[i]]
  BY <1>2 DEF ListsBy
<1>9. DOMAIN p = 1..Len(p) /\ DOMAIN s = 1..Len(s) /\ D \subseteq DOMAIN s
  OBVIOUS
<1>6. \A i, k \in 1..Len(p) : k \in ZoneTimes(p)[i] => f[k] \in ZoneTimes(s)[f[i]]
  <2> SUFFICES ASSUME NEW i \in 1..Len(p), NEW k \in 1..Len(p), k \in ZoneTimes(p)[i]
               PROVE  f[k] \in ZoneTimes(s)[f[i]]
    OBVIOUS
  <2>1. i \in DOMAIN p /\ f[i] \in DOMAIN s /\ f[k] \in DOMAIN s
    <3>1. f[i] \in D /\ f[k] \in D
      BY <1>5
    <3> QED
      BY <1>9, <3>1
  <2>2. ZoneEarlier(p, i, k)
    BY <2>1, ZoneTimesAre
  <2>3. p[i] = s[f[i]] /\ p[k] = s[f[k]]
    BY <1>5
  <2>4. i < k => f[i] < f[k]
    BY <1>5, <2>1, PlacesAre
  <2>5. ZoneEarlier(s, f[i], f[k])
    BY <2>2, <2>3, <2>4 DEF ZoneEarlier
  <2> QED
    BY <2>1, <2>5, ZoneTimesAre
<1>7. \A j : j \in D <=> \E i \in 1..Len(p) : j = f[i]
  BY <1>5
<1>8. \E h : ListsBy(u, s, D, ZoneTimes(s), h)
  <2>1. PICK E : E = 1..Len(p)
    OBVIOUS
  <2>2. ListsBy(u, p, E, ZoneTimes(p), g) /\ E \subseteq 1..Len(p)
    BY <1>4, <2>1
  <2>3. CarriesOrder(E, ZoneTimes(p), f, ZoneTimes(s))
    BY <1>6, <2>1 DEF CarriesOrder
  <2>4. CarriesPlaces(E, f, D)
    BY <1>7, <2>1 DEF CarriesPlaces
  <2>5. \E h : ListsBy(u, s, D, ZoneTimes(s), h) /\ Follows(h, Len(u), f, g)
    BY <1>2, <2>2, <2>3, <2>4, ListsThrough
  <2> QED
    BY <2>5
<1> QED
  BY <1>1, <1>3, <1>8

\* The value v is the one of the last quiet action at some places, or else the first.
ZoneLastIs(s, P, v) ==
  \/ v = zone_trace.level /\ \A i \in P : s[i].kind # "quiet"
  \/ \E i \in P : s[i].kind = "quiet" /\ v = s[i].value /\ \A j \in P : s[j].kind = "quiet"
       => j <= i

\* There is one last value.
LEMMA ZoneLastIsOne ==
  ASSUME NEW s, NEW P \in SUBSET Int, NEW v, NEW w, ZoneLastIs(s, P, v), ZoneLastIs(s, P, w)
  PROVE  v = w
<1>1. CASE \A i \in P : s[i].kind # "quiet"
  BY <1>1 DEF ZoneLastIs
<1>2. CASE \E i \in P : s[i].kind = "quiet"
  <2>1. PICK i \in P : s[i].kind = "quiet" /\ v = s[i].value
          /\ \A j \in P : s[j].kind = "quiet" => j <= i
    BY <1>2 DEF ZoneLastIs
  <2>2. PICK k \in P : s[k].kind = "quiet" /\ w = s[k].value
          /\ \A j \in P : s[j].kind = "quiet" => j <= k
    BY <1>2 DEF ZoneLastIs
  <2>3. i <= k /\ k <= i /\ i \in Int /\ k \in Int
    BY <2>1, <2>2
  <2>4. i = k
    BY <2>3
  <2> QED
    BY <2>1, <2>2, <2>4
<1> QED
  BY <1>1, <1>2

\* The last value of a list is the one of what it lists.
LEMMA ZoneLastOfList ==
  ASSUME NEW u, NEW s, NEW D \in SUBSET Int, NEW f, ListsBy(u, s, D, Places(s), f),
         D \subseteq DOMAIN s,
         NEW P \in SUBSET (1..Len(u)), NEW v, ZoneLastIs(u, P, v), Len(u) \in Nat
  PROVE  ZoneLastIs(s, {f[i] : i \in P}, v)
<1>1. /\ \A i \in 1..Len(u) : f[i] \in D /\ u[i] = s[f[i]]
      /\ \A i, k \in 1..Len(u) : i < k => f[k] \in Places(s)[f[i]]
  BY DEF ListsBy
<1>2. \A i, k \in 1..Len(u) : i <= k => f[i] <= f[k]
  <2> SUFFICES ASSUME NEW i \in 1..Len(u), NEW k \in 1..Len(u), i <= k
               PROVE  f[i] <= f[k]
    OBVIOUS
  <2>1. f[i] \in DOMAIN s /\ f[i] \in Int /\ f[k] \in Int
    BY <1>1
  <2>2. CASE i = k
    BY <2>1, <2>2
  <2>3. CASE i < k
    <3>1. f[k] \in Places(s)[f[i]]
      BY <1>1, <2>3
    <3>2. f[i] < f[k]
      BY <2>1, <3>1, PlacesAre
    <3> QED
      BY <2>1, <3>2
  <2> QED
    BY <2>2, <2>3
<1>3. CASE v = zone_trace.level /\ \A i \in P : u[i].kind # "quiet"
  BY <1>1, <1>3 DEF ZoneLastIs
<1>4. CASE \E i \in P : u[i].kind = "quiet" /\ v = u[i].value
             /\ \A j \in P : u[j].kind = "quiet" => j <= i
  <2>1. PICK i \in P : u[i].kind = "quiet" /\ v = u[i].value
          /\ \A j \in P : u[j].kind = "quiet" => j <= i
    BY <1>4
  <2>2. s[f[i]].kind = "quiet" /\ v = s[f[i]].value /\ f[i] \in {f[k] : k \in P}
    BY <1>1, <2>1
  <2>3. ASSUME NEW j \in {f[k] : k \in P}, s[j].kind = "quiet"
        PROVE  j <= f[i]
    <3>1. PICK k \in P : j = f[k]
      OBVIOUS
    <3>2. u[k].kind = "quiet"
      BY <1>1, <2>3, <3>1
    <3> QED
      BY <1>2, <2>1, <3>1, <3>2
  <2> QED
    BY <2>2, <2>3 DEF ZoneLastIs
<1> QED
  BY <1>3, <1>4 DEF ZoneLastIs

\* The places that do not repeat the level there is.
ZoneFresh(s) == {i \in DOMAIN s : s[i].kind = "quiet" => s[i].value # Zone!Level(s)[i - 1]}

\* The level is the last quiet value, of all actions and of those that repeat nothing.
LEMMA ZoneLevelsAreLast ==
  ASSUME NEW s \in Seq(ZoneAction), NEW m \in 0..Len(s)
  PROVE  ZoneLastIs(s, 1..m, Zone!Level(s)[m])
           /\ ZoneLastIs(s, ZoneFresh(s) \cap (1..m), Zone!Level(s)[m])
<1> DEFINE r == Zone!Level(s)
           X == {n \in 0..Len(s) : ZoneLastIs(s, 1..n, r[n])
                 /\ ZoneLastIs(s, ZoneFresh(s) \cap (1..n), r[n])}
<1>1. /\ r[0] = zone_trace.level
      /\ \A n \in 1..Len(s) : r[n] = IF s[n].kind = "quiet" THEN s[n].value ELSE r[n - 1]
  <2>1. ZoneLevelsIn(s, {zone_trace.level} \cup ZoneValues)
    BY ZoneActionsAre DEF ZoneLevelsIn
  <2> QED
    BY <2>1, ZoneLevelIs
<1>2. \A i \in 1..Len(s) : i \in ZoneFresh(s) <=> (s[i].kind = "quiet" => s[i].value # r[i - 1])
  BY DEF ZoneFresh
<1>3. Len(s) \in Nat /\ ZoneFresh(s) \subseteq 1..Len(s)
  BY DEF ZoneFresh
<1> HIDE DEF r
<1>4. 0 \in X
  <2>1. 1..0 = {}
    OBVIOUS
  <2>2. ZoneLastIs(s, {}, r[0])
    BY <1>1 DEF ZoneLastIs
  <2>3. ZoneLastIs(s, 1..0, r[0]) /\ ZoneLastIs(s, ZoneFresh(s) \cap (1..0), r[0])
    BY <2>1, <2>2
  <2> QED
    BY <1>3, <2>3
<1>5. ASSUME NEW n \in 0..(Len(s) - 1), n \in X
      PROVE  n + 1 \in X
  <2>1. /\ n + 1 \in 1..Len(s) /\ (n + 1) - 1 = n /\ n + 1 \in 0..Len(s) /\ n \in Nat
        /\ 1..(n + 1) = (1..n) \cup {n + 1} /\ \A i \in 1..n : i <= n + 1
    OBVIOUS
  <2>2. ZoneLastIs(s, 1..n, r[n]) /\ ZoneLastIs(s, ZoneFresh(s) \cap (1..n), r[n])
    BY <1>5
  <2>3. CASE s[n + 1].kind # "quiet"
    <3>1. r[n + 1] = r[n]
      BY <1>1, <2>1, <2>3
    <3>2. ZoneLastIs(s, 1..(n + 1), r[n])
      BY <2>1, <2>2, <2>3 DEF ZoneLastIs
    <3>3. ZoneLastIs(s, ZoneFresh(s) \cap (1..(n + 1)), r[n])
      BY <2>1, <2>2, <2>3 DEF ZoneLastIs
    <3> QED
      BY <2>1, <3>1, <3>2, <3>3
  <2>4. CASE s[n + 1].kind = "quiet"
    <3>1. r[n + 1] = s[n + 1].value
      BY <1>1, <2>1, <2>4
    <3>2. ZoneLastIs(s, 1..(n + 1), r[n + 1])
      <4>1. n + 1 \in 1..(n + 1) /\ \A j \in 1..(n + 1) : j <= n + 1
        BY <2>1
      <4> QED
        BY <2>4, <3>1, <4>1 DEF ZoneLastIs
    <3>3. CASE n + 1 \in ZoneFresh(s)
      <4>1. n + 1 \in ZoneFresh(s) \cap (1..(n + 1))
              /\ \A j \in ZoneFresh(s) \cap (1..(n + 1)) : j <= n + 1
        BY <2>1, <3>3
      <4>2. ZoneLastIs(s, ZoneFresh(s) \cap (1..(n + 1)), r[n + 1])
        BY <2>4, <3>1, <4>1 DEF ZoneLastIs
      <4> QED
        BY <2>1, <3>2, <4>2
    <3>4. CASE n + 1 \notin ZoneFresh(s)
      <4>1. s[n + 1].value = r[n]
        BY <1>2, <2>1, <3>4
      <4>2. ZoneFresh(s) \cap (1..(n + 1)) = ZoneFresh(s) \cap (1..n)
        BY <2>1, <3>4
      <4>3. ZoneLastIs(s, ZoneFresh(s) \cap (1..(n + 1)), r[n + 1])
        BY <2>2, <3>1, <4>1, <4>2
      <4> QED
        BY <2>1, <3>2, <4>3
    <3> QED
      BY <3>3, <3>4
  <2> QED
    BY <2>3, <2>4
<1>6. m \in X
  <2> HIDE DEF X
  <2>1. 0..Len(s) \subseteq X
    BY <1>3, <1>4, <1>5, UpTo
  <2> QED
    BY <2>1
<1> QED
  BY <1>6 DEF r

\* Of the quiet actions at an instant one is the strongest.
LEMMA ZoneStrongestIs ==
  ASSUME NEW s \in Seq(ZoneAction), \A i \in 1..Len(s) : s[i].kind = "quiet"
           => s[i].value \in Int,
         NEW j \in 1..Len(s), s[j].kind = "quiet"
  PROVE  \E i \in 1..Len(s) : s[i].kind = "quiet" /\ s[i].t = s[j].t /\ Zone!Strongest(s, i)
<1>1. PICK T : T = s[j].t
  OBVIOUS
<1> DEFINE Q == {i \in 1..Len(s) : s[i].kind = "quiet" /\ s[i].t = T}
           Tops(i, k) == s[k].value < s[i].value \/ (s[k].value = s[i].value /\ k <= i)
           X == {n \in 0..Len(s) : \/ \A i \in Q : ~(i <= n)
                                   \/ \E i \in Q : i <= n /\ \A k \in Q : k <= n => Tops(i, k)}
<1>2. Len(s) \in Nat /\ \A i \in Q : s[i].value \in Int /\ i \in 1..Len(s) /\ i \in Nat
  OBVIOUS
<1> HIDE DEF Q
<1>3. 0 \in X
  <2>1. \A i \in Q : ~(i <= 0)
    BY <1>2
  <2> QED
    BY <1>2, <2>1
<1>4. ASSUME NEW n \in 0..(Len(s) - 1), n \in X
      PROVE  n + 1 \in X
  <2>1. n + 1 \in 0..Len(s) /\ \A i \in Q : i <= n + 1 <=> i <= n \/ i = n + 1
    BY <1>2
  <2>2. CASE n + 1 \notin Q
    <3>1. \A i \in Q : i <= n + 1 <=> i <= n
      BY <2>1, <2>2
    <3> QED
      BY <1>4, <2>1, <3>1
  <2>3. CASE n + 1 \in Q
    <3>1. PICK b \in Int : b = s[n + 1].value
      BY <1>2, <2>3
    <3>2. CASE \A i \in Q : ~(i <= n)
      <4>1. \A k \in Q : k <= n + 1 => k = n + 1
        BY <2>1, <3>2
      <4>2. Tops(n + 1, n + 1)
        OBVIOUS
      <4>3. \A k \in Q : k <= n + 1 => Tops(n + 1, k)
        BY <4>1, <4>2
      <4> HIDE DEF Tops
      <4>4. \E i \in Q : i <= n + 1 /\ \A k \in Q : k <= n + 1 => Tops(i, k)
        BY <2>1, <2>3, <4>3
      <4> QED
        BY <2>1, <4>4
    <3>3. CASE \E i \in Q : i <= n /\ \A k \in Q : k <= n => Tops(i, k)
      <4>1. PICK i \in Q : i <= n /\ \A k \in Q : k <= n => Tops(i, k)
        BY <3>3
      <4>2. PICK a \in Int : a = s[i].value
        BY <1>2
      <4>3. CASE b < a
        <5>1. Tops(i, n + 1)
          BY <3>1, <4>2, <4>3
        <5>2. \A k \in Q : k <= n + 1 => Tops(i, k)
          <6> HIDE DEF Tops
          <6> QED
            BY <2>1, <4>1, <5>1
        <5>3. i <= n + 1
          BY <2>1, <4>1
        <5> HIDE DEF Tops
        <5>4. \E x \in Q : x <= n + 1 /\ \A k \in Q : k <= n + 1 => Tops(x, k)
          BY <5>2, <5>3
        <5> QED
          BY <2>1, <5>4
      <4>4. CASE ~(b < a)
        <5>1. ASSUME NEW k \in Q, k <= n + 1
              PROVE  Tops(n + 1, k)
          <6>1. CASE k = n + 1
            BY <6>1
          <6>2. CASE k <= n
            <7>1. Tops(i, k)
              BY <4>1, <6>2
            <7>2. s[k].value \in Int /\ k \in Nat
              BY <1>2
            <7> QED
              BY <3>1, <4>2, <4>4, <5>1, <7>1, <7>2
          <6> QED
            BY <2>1, <5>1, <6>1, <6>2
        <5>2. n + 1 <= n + 1
          BY <2>1
        <5> HIDE DEF Tops
        <5>3. \E x \in Q : x <= n + 1 /\ \A k \in Q : k <= n + 1 => Tops(x, k)
          BY <2>3, <5>1, <5>2
        <5> QED
          BY <2>1, <5>3
      <4> QED
        BY <4>2, <3>1, <4>3, <4>4
    <3> QED
      BY <1>4, <3>2, <3>3
  <2> QED
    BY <2>2, <2>3
<1>5. Len(s) \in X
  <2> HIDE DEF X
  <2>1. 0..Len(s) \subseteq X
    BY <1>2, <1>3, <1>4, UpTo
  <2>2. Len(s) \in 0..Len(s)
    BY <1>2
  <2> QED
    BY <2>1, <2>2
<1>6. j \in Q /\ \A k \in Q : k <= Len(s)
  BY <1>1, <1>2 DEF Q
<1>7. PICK i \in Q : \A k \in Q : Tops(i, k)
  BY <1>5, <1>6
<1>8. Zone!Strongest(s, i)
  <2>1. i \in 1..Len(s) /\ s[i].kind = "quiet" /\ s[i].t = T
    BY DEF Q
  <2>2. \A k \in DOMAIN s : s[k].kind = "quiet" /\ s[k].t = s[i].t => k \in Q
    BY <2>1 DEF Q
  <2> QED
    BY <1>7, <2>2 DEF Zone!Strongest
<1> QED
  BY <1>1, <1>8 DEF Q

\* No two places come before each other, and none before itself.
LEMMA ZoneTimesOrder ==
  ASSUME NEW s \in Seq(ZoneAction), NEW i \in 1..Len(s), NEW j \in 1..Len(s)
  PROVE  /\ j \in ZoneTimes(s)[i] => i \notin ZoneTimes(s)[j]
         /\ i \notin ZoneTimes(s)[i]
         /\ j \in ZoneTimes(s)[i] => s[i].t <= s[j].t
<1>1. i \in DOMAIN s /\ j \in DOMAIN s /\ s[i].t \in Nat /\ s[j].t \in Nat
  BY ZoneActionsAre
<1>2. i \in Int /\ j \in Int
  OBVIOUS
<1>3. /\ j \in ZoneTimes(s)[i] <=> ZoneEarlier(s, i, j)
      /\ i \in ZoneTimes(s)[j] <=> ZoneEarlier(s, j, i)
      /\ i \in ZoneTimes(s)[i] <=> ZoneEarlier(s, i, i)
  BY <1>1, ZoneTimesAre
<1> QED
  BY <1>1, <1>2, <1>3 DEF ZoneEarlier

\* The places of what is kept.
ZoneKeptOf(s) == {i \in DOMAIN s : Zone!Kept(s, i)}

\* The list p is normalised from a: o lists what is kept, p what is fresh of it.
ZoneNormal(a, o, p, h, f) ==
  /\ a \in Seq(ZoneAction) /\ o \in Seq(ZoneAction) /\ p \in Seq(ZoneAction)
  /\ ListsBy(o, a, ZoneKeptOf(a), ZoneTimes(a), h)
  /\ ListsBy(p, o, ZoneFresh(o), Places(o), f)

\* Normalisation makes such a list.
LEMMA ZoneNormalIs ==
  ASSUME NEW a \in Seq(ZoneAction)
  PROVE  \E o, h, f : ZoneNormal(a, o,
                                 Zone!Collapsed(Zone!Ordered(Zone!Picked(a, ZoneKeptOf(a)))),
                                 h, f)
<1>1. ZoneKeptOf(a) \in SUBSET (1..Len(a))
  BY ZoneActionsAre DEF ZoneKeptOf
<1>2. PICK o \in Seq(ZoneAction) : /\ o = Zone!Ordered(Zone!Picked(a, ZoneKeptOf(a)))
                                   /\ \E h : ListsBy(o, a, ZoneKeptOf(a), ZoneTimes(a), h)
  BY <1>1, ZoneOrderedPicked
<1>3. PICK h : ListsBy(o, a, ZoneKeptOf(a), ZoneTimes(a), h)
  BY <1>2
<1>4. ZoneFresh(o) \in SUBSET (1..Len(o))
  BY ZoneActionsAre DEF ZoneFresh
<1>5. PICK p \in Seq(ZoneAction) : p = Zone!Picked(o, ZoneFresh(o))
        /\ \E f : ListsBy(p, o, ZoneFresh(o), Places(o), f)
  BY <1>4, ZonePickedIs
<1>6. PICK f : ListsBy(p, o, ZoneFresh(o), Places(o), f)
  BY <1>5
<1>7. p = Zone!Collapsed(o)
  BY <1>5 DEF Zone!Collapsed, ZoneFresh
<1>8. ZoneNormal(a, o, p, h, f)
  BY <1>3, <1>6 DEF ZoneNormal
<1> QED
  BY <1>2, <1>7, <1>8

\* The places of a that p lists.
ZoneLeft(o, h) == {h[i] : i \in ZoneFresh(o)}

\* What is normalised lists all boosts and restores, and the modes that are kept.
LEMMA ZoneNormalLists ==
  ASSUME NEW a, NEW o, NEW p, NEW h, NEW f, ZoneNormal(a, o, p, h, f)
  PROVE  /\ \E e : ListsBy(p, a, ZoneLeft(o, h), ZoneTimes(a), e) /\ Follows(e, Len(p), h, f)
         /\ ZoneLeft(o, h) \subseteq ZoneKeptOf(a) /\ ZoneKeptOf(a) \subseteq 1..Len(a)
         /\ \A j \in ZoneKeptOf(a) : a[j].kind # "quiet" => j \in ZoneLeft(o, h)
<1>1. /\ a \in Seq(ZoneAction) /\ o \in Seq(ZoneAction) /\ p \in Seq(ZoneAction)
      /\ ListsBy(o, a, ZoneKeptOf(a), ZoneTimes(a), h)
           /\ ListsBy(p, o, ZoneFresh(o), Places(o), f)
  BY DEF ZoneNormal
<1>2. DOMAIN o = 1..Len(o) /\ ZoneFresh(o) \subseteq 1..Len(o)
        /\ ZoneKeptOf(a) \subseteq 1..Len(a)
  BY <1>1, ZoneActionsAre DEF ZoneFresh, ZoneKeptOf
<1>3. /\ \A i \in 1..Len(o) : h[i] \in ZoneKeptOf(a) /\ o[i] = a[h[i]]
      /\ \A j \in ZoneKeptOf(a) : \E i \in 1..Len(o) : h[i] = j
      /\ \A i, k \in 1..Len(o) : i < k => h[k] \in ZoneTimes(a)[h[i]]
  BY <1>1 DEF ListsBy
<1>4. CarriesPlaces(ZoneFresh(o), h, ZoneLeft(o, h))
  BY DEF CarriesPlaces, ZoneLeft
<1>5. CarriesOrder(ZoneFresh(o), Places(o), h, ZoneTimes(a))
  <2> SUFFICES ASSUME NEW i \in ZoneFresh(o), NEW k \in ZoneFresh(o), k \in Places(o)[i]
               PROVE  h[k] \in ZoneTimes(a)[h[i]]
    BY DEF CarriesOrder
  <2>1. i \in DOMAIN o /\ i \in 1..Len(o) /\ k \in 1..Len(o)
    BY <1>2
  <2>2. i < k
    BY <2>1, PlacesAre
  <2> QED
    BY <1>3, <2>1, <2>2
<1>6. \E e : ListsBy(p, a, ZoneLeft(o, h), ZoneTimes(a), e) /\ Follows(e, Len(p), h, f)
  BY <1>1, <1>2, <1>4, <1>5, ListsThrough
<1>7. ZoneLeft(o, h) \subseteq ZoneKeptOf(a)
  BY <1>2, <1>3 DEF ZoneLeft
<1>8. ASSUME NEW j \in ZoneKeptOf(a), a[j].kind # "quiet"
      PROVE  j \in ZoneLeft(o, h)
  <2>1. PICK i \in 1..Len(o) : h[i] = j
    BY <1>3
  <2>2. o[i].kind # "quiet"
    BY <1>3, <1>8, <2>1
  <2>3. i \in ZoneFresh(o)
    BY <1>2, <2>2 DEF ZoneFresh
  <2> QED
    BY <2>1, <2>3 DEF ZoneLeft
<1> QED
  BY <1>2, <1>6, <1>7, <1>8

\* Boosts own the zone at the same instants.
LEMMA ZoneOwnedSame ==
  ASSUME NEW a, NEW o, NEW p, NEW h, NEW f, ZoneNormal(a, o, p, h, f), NEW t
  PROVE  Zone!Owned(p, t) <=> Zone!Owned(a, t)
<1>1. PICK e : ListsBy(p, a, ZoneLeft(o, h), ZoneTimes(a), e) /\ Follows(e, Len(p), h, f)
  BY ZoneNormalLists
<1>2. /\ ZoneLeft(o, h) \subseteq ZoneKeptOf(a) /\ ZoneKeptOf(a) \subseteq 1..Len(a)
      /\ \A j \in ZoneKeptOf(a) : a[j].kind # "quiet" => j \in ZoneLeft(o, h)
  BY ZoneNormalLists
<1>3. a \in Seq(ZoneAction) /\ p \in Seq(ZoneAction)
  BY DEF ZoneNormal
<1>4. DOMAIN p = 1..Len(p) /\ DOMAIN a = 1..Len(a) /\ Len(p) \in Nat
  BY <1>3
<1>5. \A i \in 1..Len(p) : e[i] \in ZoneLeft(o, h) /\ p[i] = a[e[i]]
  BY <1>1 DEF ListsBy
<1>6. \A i \in ZoneLeft(o, h) : i \notin ZoneTimes(a)[i]
  BY <1>2, <1>3, ZoneTimesOrder
<1> DEFINE B(s) == {i \in DOMAIN s : s[i].kind = "boost" /\ s[i].t <= t}
           R(s) == {i \in DOMAIN s : s[i].kind = "restore" /\ s[i].t < t}
<1>7. \A j \in DOMAIN a : a[j].kind \notin {"mode", "quiet"} => j \in ZoneLeft(o, h)
  BY <1>2 DEF ZoneKeptOf, Zone!Kept
<1>8. Cardinality(B(p)) = Cardinality(B(a))
  <2>1. B(a) \in SUBSET ZoneLeft(o, h)
    BY <1>7
  <2>2. B(p) = {i \in 1..Len(p) : e[i] \in B(a)}
    BY <1>2, <1>4, <1>5
  <2> HIDE DEF B
  <2>3. Cardinality({i \in 1..Len(p) : e[i] \in B(a)}) = Cardinality(B(a))
    BY <1>1, <1>4, <1>6, <2>1, ListsCount
  <2> QED
    BY <2>2, <2>3
<1>9. Cardinality(R(p)) = Cardinality(R(a))
  <2>1. R(a) \in SUBSET ZoneLeft(o, h)
    BY <1>7
  <2>2. R(p) = {i \in 1..Len(p) : e[i] \in R(a)}
    BY <1>2, <1>4, <1>5
  <2> HIDE DEF R
  <2>3. Cardinality({i \in 1..Len(p) : e[i] \in R(a)}) = Cardinality(R(a))
    BY <1>1, <1>4, <1>6, <2>1, ListsCount
  <2> QED
    BY <2>2, <2>3
<1> QED
  BY <1>8, <1>9, ZoneCardinalityIs DEF Zone!Owned

\* No mode that is left is written while a boost owns the zone.
LEMMA ZoneModesFree ==
  ASSUME NEW a, NEW o, NEW p, NEW h, NEW f, ZoneNormal(a, o, p, h, f),
         NEW i \in DOMAIN p, p[i].kind = "mode"
  PROVE  ~Zone!Owned(p, p[i].t)
<1>1. PICK e : ListsBy(p, a, ZoneLeft(o, h), ZoneTimes(a), e)
  BY ZoneNormalLists
<1>2. ZoneLeft(o, h) \subseteq ZoneKeptOf(a)
  BY ZoneNormalLists
<1>3. p \in Seq(ZoneAction)
  BY DEF ZoneNormal
<1>4. i \in 1..Len(p)
  BY <1>3
<1>5. e[i] \in ZoneKeptOf(a) /\ p[i] = a[e[i]]
  BY <1>1, <1>2, <1>4 DEF ListsBy
<1>6. ~Zone!Owned(a, p[i].t)
  BY <1>5 DEF ZoneKeptOf, Zone!Kept
<1> QED
  BY <1>6, ZoneOwnedSame

\* The modes are those that were asked for, if none was asked for while a boost owns the zone.
LEMMA ZoneModesStay ==
  ASSUME NEW a, NEW o, NEW p, NEW h, NEW f, ZoneNormal(a, o, p, h, f),
         \A j \in DOMAIN a : a[j].kind = "mode" => ~Zone!Owned(a, a[j].t)
  PROVE  Zone!Of(p, "mode") = Zone!Ordered(Zone!Of(a, "mode"))
<1> DEFINE M(s) == {i \in DOMAIN s : s[i].kind = "mode"}
<1>1. PICK e : ListsBy(p, a, ZoneLeft(o, h), ZoneTimes(a), e)
  BY ZoneNormalLists
<1>2. /\ ZoneLeft(o, h) \subseteq ZoneKeptOf(a) /\ ZoneKeptOf(a) \subseteq 1..Len(a)
      /\ \A j \in ZoneKeptOf(a) : a[j].kind # "quiet" => j \in ZoneLeft(o, h)
  BY ZoneNormalLists
<1>3. a \in Seq(ZoneAction) /\ p \in Seq(ZoneAction)
  BY DEF ZoneNormal
<1>4. DOMAIN p = 1..Len(p) /\ DOMAIN a = 1..Len(a) /\ Len(p) \in Nat
  BY <1>3
<1>5. /\ \A i \in 1..Len(p) : e[i] \in ZoneLeft(o, h) /\ p[i] = a[e[i]]
      /\ \A j \in ZoneLeft(o, h) : \E i \in 1..Len(p) : e[i] = j
      /\ \A i, k \in 1..Len(p) : i < k => e[k] \in ZoneTimes(a)[e[i]]
  BY <1>1 DEF ListsBy
<1>6. M(a) \subseteq ZoneLeft(o, h)
  BY <1>2 DEF ZoneKeptOf, Zone!Kept
<1>7. M(p) \in SUBSET (1..Len(p)) /\ M(a) \in SUBSET (1..Len(a))
  BY <1>4
<1>8. CarriesPlaces(M(p), e, M(a))
  <2>1. ASSUME NEW j \in M(a)
        PROVE  \E i \in M(p) : j = e[i]
    <3>1. PICK i \in 1..Len(p) : e[i] = j
      BY <1>5, <1>6
    <3> QED
      BY <1>4, <1>5, <3>1
  <2>2. ASSUME NEW i \in M(p)
        PROVE  e[i] \in M(a)
    <3>1. i \in 1..Len(p) /\ p[i].kind = "mode"
      BY <1>4
    <3>2. e[i] \in 1..Len(a) /\ p[i] = a[e[i]]
      BY <1>2, <1>5, <3>1
    <3> QED
      BY <1>4, <3>1, <3>2
  <2> QED
    BY <2>1, <2>2 DEF CarriesPlaces
<1> HIDE DEF M
<1>9. CarriesOrder(M(p), Places(p), e, ZoneTimes(a))
  <2> SUFFICES ASSUME NEW i \in M(p), NEW k \in M(p), k \in Places(p)[i]
               PROVE  e[k] \in ZoneTimes(a)[e[i]]
    BY DEF CarriesOrder
  <2>1. i \in DOMAIN p /\ i \in 1..Len(p) /\ k \in 1..Len(p)
    BY <1>4, <1>7
  <2>2. i < k
    BY <2>1, PlacesAre
  <2> QED
    BY <1>5, <2>1, <2>2
<1>10. PICK u \in Seq(ZoneAction) : u = Zone!Picked(p, M(p))
         /\ \E g : ListsBy(u, p, M(p), Places(p), g)
  BY <1>3, <1>7, ZonePickedIs
<1>11. PICK g : ListsBy(u, p, M(p), Places(p), g)
  BY <1>10
<1>12. \E d : ListsBy(u, a, M(a), ZoneTimes(a), d) /\ Follows(d, Len(u), e, g)
  BY <1>1, <1>7, <1>8, <1>9, <1>11, ListsThrough
<1>13. PICK v \in Seq(ZoneAction) : v = Zone!Ordered(Zone!Picked(a, M(a)))
         /\ \E d : ListsBy(v, a, M(a), ZoneTimes(a), d)
  BY <1>3, <1>7, ZoneOrderedPicked
<1>14. \A i, j \in M(a) : j \in ZoneTimes(a)[i] => i \notin ZoneTimes(a)[j]
  BY <1>3, <1>7, ZoneTimesOrder
<1>15. u = v
  <2>1. PICK d : ListsBy(u, a, M(a), ZoneTimes(a), d)
    BY <1>12
  <2>2. PICK c : ListsBy(v, a, M(a), ZoneTimes(a), c)
    BY <1>13
  <2> QED
    BY <1>14, <2>1, <2>2, ListsUnique
<1>16. Zone!Of(p, "mode") = u /\ Zone!Ordered(Zone!Of(a, "mode")) = v
  BY <1>10, <1>13 DEF M, Zone!Of
<1> QED
  BY <1>15, <1>16

\* The places of o that p lists come in their order.
LEMMA ZoneFreshOrder ==
  ASSUME NEW a, NEW o, NEW p, NEW h, NEW f, ZoneNormal(a, o, p, h, f)
  PROVE  /\ DOMAIN o = 1..Len(o) /\ DOMAIN p = 1..Len(p) /\ ZoneFresh(o) \subseteq 1..Len(o)
         /\ Len(o) \in Nat /\ Len(p) \in Nat
         /\ \A i \in 1..Len(p) : f[i] \in ZoneFresh(o) /\ p[i] = o[f[i]]
         /\ \A j \in ZoneFresh(o) : \E i \in 1..Len(p) : f[i] = j
         /\ \A i, k \in 1..Len(p) : i < k => f[i] < f[k]
<1>1. /\ o \in Seq(ZoneAction) /\ p \in Seq(ZoneAction)
      /\ ListsBy(p, o, ZoneFresh(o), Places(o), f)
  BY DEF ZoneNormal
<1>2. DOMAIN o = 1..Len(o) /\ ZoneFresh(o) \subseteq 1..Len(o) /\ DOMAIN p = 1..Len(p)
        /\ Len(o) \in Nat /\ Len(p) \in Nat
  BY <1>1, ZoneActionsAre DEF ZoneFresh
<1>3. /\ \A i \in 1..Len(p) : f[i] \in ZoneFresh(o) /\ p[i] = o[f[i]]
      /\ \A j \in ZoneFresh(o) : \E i \in 1..Len(p) : f[i] = j
      /\ \A i, k \in 1..Len(p) : i < k => f[k] \in Places(o)[f[i]]
  BY <1>1 DEF ListsBy
<1>4. ASSUME NEW i \in 1..Len(p), NEW k \in 1..Len(p), i < k
      PROVE  f[i] < f[k]
  <2>1. f[k] \in Places(o)[f[i]] /\ f[i] \in DOMAIN o
    BY <1>2, <1>3, <1>4
  <2> QED
    BY <2>1, PlacesAre
<1> QED
  BY <1>2, <1>3, <1>4

\* No quiet action that is left repeats the level there is.
LEMMA ZoneNothingRepeats ==
  ASSUME NEW a, NEW o, NEW p, NEW h, NEW f, ZoneNormal(a, o, p, h, f),
         NEW i \in DOMAIN p, p[i].kind = "quiet"
  PROVE  p[i].value # Zone!Level(p)[i - 1]
<1>1. /\ o \in Seq(ZoneAction) /\ p \in Seq(ZoneAction)
      /\ ListsBy(p, o, ZoneFresh(o), Places(o), f)
  BY DEF ZoneNormal
<1>2. /\ DOMAIN o = 1..Len(o) /\ DOMAIN p = 1..Len(p) /\ ZoneFresh(o) \subseteq 1..Len(o)
      /\ Len(o) \in Nat /\ Len(p) \in Nat
  BY ZoneFreshOrder
<1>3. /\ \A k \in 1..Len(p) : f[k] \in ZoneFresh(o) /\ p[k] = o[f[k]]
      /\ \A j \in ZoneFresh(o) : \E k \in 1..Len(p) : f[k] = j
      /\ \A k, j \in 1..Len(p) : k < j => f[k] < f[j]
  BY ZoneFreshOrder
<1>4. i \in 1..Len(p) /\ i - 1 \in 0..Len(p)
  BY <1>2
<1>5. PICK q \in 1..Len(o) : q = f[i] /\ q \in ZoneFresh(o) /\ p[i] = o[q]
  BY <1>2, <1>3, <1>4
<1>6. q - 1 \in 0..Len(o)
  BY <1>2
<1>7. o[q].value # Zone!Level(o)[q - 1]
  BY <1>5 DEF ZoneFresh
<1>8. PICK P : P = 1..(i - 1)
  OBVIOUS
<1>9. P \in SUBSET (1..Len(p)) /\ P = 1..(i - 1)
  BY <1>2, <1>4, <1>8
<1>10. PICK v : v = Zone!Level(p)[i - 1]
  OBVIOUS
<1>11. ZoneLastIs(p, P, v)
  BY <1>1, <1>4, <1>9, <1>10, ZoneLevelsAreLast
<1>12. ZoneLastIs(o, {f[k] : k \in P}, v)
  <2>1. PICK D : D = ZoneFresh(o)
    OBVIOUS
  <2>2. D \in SUBSET Int /\ D \subseteq DOMAIN o
    BY <1>2, <2>1
  <2>3. ListsBy(p, o, D, Places(o), f)
    BY <1>1, <2>1
  <2>4. P \in SUBSET (1..Len(p)) /\ Len(p) \in Nat
    BY <1>2, <1>9
  <2> QED
    BY <1>11, <2>2, <2>3, <2>4, ZoneLastOfList
<1>13. {f[k] : k \in P} = ZoneFresh(o) \cap (1..(q - 1))
  <2>1. ASSUME NEW k \in P
        PROVE  f[k] \in ZoneFresh(o) \cap (1..(q - 1))
    <3>1. k \in 1..Len(p) /\ k < i
      BY <1>4, <1>9
    <3>2. f[k] < q /\ f[k] \in ZoneFresh(o)
      BY <1>3, <1>4, <1>5, <3>1
    <3>3. f[k] \in 1..Len(o)
      BY <1>2, <3>2
    <3> QED
      BY <3>2, <3>3
  <2>2. ASSUME NEW j \in ZoneFresh(o) \cap (1..(q - 1))
        PROVE  \E k \in P : f[k] = j
    <3>1. PICK k \in 1..Len(p) : f[k] = j
      BY <1>3
    <3>2. j < q
      OBVIOUS
    <3>3. k < i
      <4>1. k # i
        BY <1>5, <3>1, <3>2
      <4>2. ~(i < k)
        <5> SUFFICES ASSUME i < k PROVE FALSE
          OBVIOUS
        <5>1. f[i] < f[k]
          BY <1>3, <1>4
        <5> QED
          BY <1>5, <3>1, <3>2, <5>1
      <4> QED
        BY <1>4, <4>1, <4>2
    <3>4. k \in P
      BY <1>4, <1>9, <3>3
    <3> QED
      BY <3>1, <3>4
  <2> QED
    BY <2>1, <2>2
<1>14. ZoneLastIs(o, ZoneFresh(o) \cap (1..(q - 1)), Zone!Level(o)[q - 1])
  BY <1>1, <1>6, ZoneLevelsAreLast
<1>15. v = Zone!Level(o)[q - 1]
  <2>1. ZoneFresh(o) \cap (1..(q - 1)) \in SUBSET Int
    OBVIOUS
  <2> QED
    BY <1>12, <1>13, <1>14, <2>1, ZoneLastIsOne
<1> QED
  BY <1>5, <1>7, <1>10, <1>15

\* What comes up to an instant is a prefix of what is in the order of time.
LEMMA ZonePrefixIs ==
  ASSUME NEW o \in Seq(ZoneAction), \A i, k \in 1..Len(o) : i < k
           => o[i].t <= o[k].t, NEW t \in Nat
  PROVE  \E n \in 0..Len(o) : \A j \in 1..Len(o) : j <= n <=> o[j].t <= t
<1> DEFINE later == {j \in 1..Len(o) : ~(o[j].t <= t)}
<1>1. Len(o) \in Nat /\ \A j \in 1..Len(o) : o[j].t \in Nat
  BY ZoneActionsAre
<1>2. CASE later = {}
  <2>1. Len(o) \in 0..Len(o) /\ \A j \in 1..Len(o) : j <= Len(o) /\ o[j].t <= t
    BY <1>1, <1>2
  <2> QED
    BY <2>1
<1>3. CASE later # {}
  <2>1. later \in SUBSET Nat
    OBVIOUS
  <2> HIDE DEF later
  <2>2. PICK m \in later : \A y \in later : m <= y
    BY <1>3, <2>1, ZoneLeastIs
  <2>3. m \in 1..Len(o) /\ ~(o[m].t <= t)
    BY DEF later
  <2>4. m - 1 \in 0..Len(o)
    BY <1>1, <2>3
  <2>5. ASSUME NEW j \in 1..Len(o)
        PROVE  j <= m - 1 <=> o[j].t <= t
    <3>1. CASE j <= m - 1
      <4>1. ~(m <= j)
        BY <2>3, <3>1
      <4>2. j \notin later
        BY <2>2, <4>1
      <4> QED
        BY <3>1, <4>2 DEF later
    <3>2. CASE ~(j <= m - 1)
      <4>1. j = m \/ m < j
        BY <2>3, <3>2
      <4>2. o[m].t <= o[j].t
        BY <1>1, <2>3, <4>1
      <4>3. o[m].t \in Nat /\ o[j].t \in Nat
        BY <1>1, <2>3
      <4>4. ~(o[j].t <= t)
        BY <2>3, <4>2, <4>3
      <4> QED
        BY <3>2, <4>4
    <3> QED
      BY <3>1, <3>2
  <2> QED
    BY <2>4, <2>5
<1> QED
  BY <1>2, <1>3

\* A greatest member is the maximum.
LEMMA ZoneGreatestIs ==
  ASSUME NEW S \in SUBSET Int, NEW v \in S, \A x \in S : x <= v
  PROVE  Zone!Max(S) = v
<1>1. \A x \in S : x \in Int
  OBVIOUS
<1>2. v >= v /\ \A x \in S : v >= x
  BY <1>1
<1>3. Zone!Max(S) \in S /\ \A y \in S : Zone!Max(S) >= y
  <2>1. \E x \in S : \A y \in S : x >= y
    BY <1>2
  <2> QED
    BY <2>1 DEF Zone!Max
<1>4. PICK m : m = Zone!Max(S)
  OBVIOUS
<1>5. m \in Int /\ v \in Int /\ m >= v /\ m <= v
  BY <1>1, <1>3, <1>4
<1> QED
  BY <1>4, <1>5

\* What o lists comes in the order of time.
LEMMA ZoneNormalTimes ==
  ASSUME NEW a, NEW o, NEW p, NEW h, NEW f, ZoneNormal(a, o, p, h, f)
  PROVE  /\ \A i, k \in 1..Len(o) : i < k => o[i].t <= o[k].t
         /\ \A i \in 1..Len(o) : h[i] \in ZoneKeptOf(a) /\ h[i] \in 1..Len(a) /\ o[i] = a[h[i]]
         /\ \A j \in ZoneKeptOf(a) : \E i \in 1..Len(o) : h[i] = j
<1>1. a \in Seq(ZoneAction) /\ ListsBy(o, a, ZoneKeptOf(a), ZoneTimes(a), h)
  BY DEF ZoneNormal
<1>2. /\ \A i \in 1..Len(o) : h[i] \in ZoneKeptOf(a) /\ o[i] = a[h[i]]
      /\ \A j \in ZoneKeptOf(a) : \E i \in 1..Len(o) : h[i] = j
      /\ \A i, k \in 1..Len(o) : i < k => h[k] \in ZoneTimes(a)[h[i]]
  BY <1>1 DEF ListsBy
<1>3. \A i \in 1..Len(o) : h[i] \in 1..Len(a)
  BY <1>1, <1>2, ZoneActionsAre DEF ZoneKeptOf
<1>4. ASSUME NEW i \in 1..Len(o), NEW k \in 1..Len(o), i < k
      PROVE  o[i].t <= o[k].t
  <2>1. PICK x \in 1..Len(a) : x = h[i]
    BY <1>3
  <2>2. PICK y \in 1..Len(a) : y = h[k]
    BY <1>3
  <2>3. y \in ZoneTimes(a)[x]
    BY <1>2, <1>4, <2>1, <2>2
  <2>4. a[x].t <= a[y].t
    BY <1>1, <2>3, ZoneTimesOrder
  <2>5. o[i] = a[x] /\ o[k] = a[y]
    BY <1>2, <2>1, <2>2
  <2> QED
    BY <2>4, <2>5
<1> QED
  BY <1>2, <1>3, <1>4

\* The level at an instant is the one of the last quiet action up to it, of all that are kept.
LEMMA ZoneLevelsAtLast ==
  ASSUME NEW a, NEW o, NEW p, NEW h, NEW f, ZoneNormal(a, o, p, h, f), NEW t \in Nat,
         NEW n \in 0..Len(o), \A j \in 1..Len(o) : j <= n <=> o[j].t <= t
  PROVE  ZoneLastIs(o, 1..n, Zone!LevelAt(p, t))
<1>1. /\ o \in Seq(ZoneAction) /\ p \in Seq(ZoneAction)
      /\ ListsBy(p, o, ZoneFresh(o), Places(o), f)
  BY DEF ZoneNormal
<1>2. /\ DOMAIN o = 1..Len(o) /\ DOMAIN p = 1..Len(p) /\ ZoneFresh(o) \subseteq 1..Len(o)
      /\ Len(o) \in Nat /\ Len(p) \in Nat
  BY ZoneFreshOrder
<1>3. /\ \A k \in 1..Len(p) : f[k] \in ZoneFresh(o) /\ p[k] = o[f[k]]
      /\ \A j \in ZoneFresh(o) : \E k \in 1..Len(p) : f[k] = j
      /\ \A k, j \in 1..Len(p) : k < j => f[k] < f[j]
  BY ZoneFreshOrder
<1>4. PICK K \in SUBSET (1..Len(p)) : K = {i \in DOMAIN p : p[i].t <= t}
  BY <1>2
<1>5. PICK u \in Seq(ZoneAction) : u = Zone!Picked(p, K)
        /\ \E g : ListsBy(u, p, K, Places(p), g)
  BY <1>1, ZonePickedIs
<1>6. PICK g : ListsBy(u, p, K, Places(p), g)
  BY <1>5
<1>7. PICK m : m = Len(u)
  OBVIOUS
<1>8. m \in Nat /\ m \in 0..Len(u)
  BY <1>7
<1>9. PICK v : v = Zone!Level(u)[m]
  OBVIOUS
<1>10. v = Zone!LevelAt(p, t)
  BY <1>4, <1>5, <1>7, <1>9 DEF Zone!LevelAt
<1>11. PICK P \in SUBSET (1..Len(u)) : P = 1..m
  BY <1>7
<1>12. ZoneLastIs(u, P, v)
  BY <1>8, <1>9, <1>11, ZoneLevelsAreLast
<1>13. ZoneLastIs(p, {g[i] : i \in P}, v)
  <2>1. K \in SUBSET Int /\ K \subseteq DOMAIN p /\ Len(u) \in Nat
    BY <1>2
  <2> QED
    BY <1>6, <1>12, <2>1, ZoneLastOfList
<1>14. {g[i] : i \in P} = K
  <2>1. /\ \A i \in 1..Len(u) : g[i] \in K
        /\ \A j \in K : \E i \in 1..Len(u) : g[i] = j
    BY <1>6 DEF ListsBy
  <2>2. P = 1..Len(u)
    BY <1>7, <1>11
  <2> QED
    BY <2>1, <2>2
<1>15. ZoneLastIs(o, {f[i] : i \in K}, v)
  <2>1. PICK D : D = ZoneFresh(o)
    OBVIOUS
  <2>2. D \in SUBSET Int /\ D \subseteq DOMAIN o /\ Len(p) \in Nat
    BY <1>2, <2>1
  <2>3. ListsBy(p, o, D, Places(o), f)
    BY <1>1, <2>1
  <2>4. ZoneLastIs(p, K, v)
    BY <1>13, <1>14
  <2>5. K \in SUBSET (1..Len(p))
    OBVIOUS
  <2> QED
    BY <2>2, <2>3, <2>4, <2>5, ZoneLastOfList
<1>16. {f[i] : i \in K} = ZoneFresh(o) \cap (1..n)
  <2>1. ASSUME NEW i \in K
        PROVE  f[i] \in ZoneFresh(o) \cap (1..n)
    <3>1. i \in 1..Len(p) /\ p[i].t <= t
      BY <1>4
    <3>2. f[i] \in ZoneFresh(o) /\ p[i] = o[f[i]] /\ f[i] \in 1..Len(o)
      BY <1>2, <1>3, <3>1
    <3>3. f[i] <= n
      BY <3>1, <3>2
    <3> QED
      BY <3>2, <3>3
  <2>2. ASSUME NEW j \in ZoneFresh(o) \cap (1..n)
        PROVE  \E i \in K : f[i] = j
    <3>1. PICK i \in 1..Len(p) : f[i] = j
      BY <1>3
    <3>2. j \in 1..Len(o) /\ j <= n
      BY <1>2
    <3>3. o[j].t <= t /\ p[i] = o[j]
      BY <1>3, <3>1, <3>2
    <3>4. i \in K
      BY <1>2, <1>4, <3>3
    <3> QED
      BY <3>1, <3>4
  <2> QED
    BY <2>1, <2>2
<1>17. ZoneLastIs(o, ZoneFresh(o) \cap (1..n), Zone!Level(o)[n])
         /\ ZoneLastIs(o, 1..n, Zone!Level(o)[n])
  BY <1>1, ZoneLevelsAreLast
<1>18. v = Zone!Level(o)[n]
  <2>1. ZoneFresh(o) \cap (1..n) \in SUBSET Int
    OBVIOUS
  <2> QED
    BY <1>15, <1>16, <1>17, <2>1, ZoneLastIsOne
<1> QED
  BY <1>10, <1>17, <1>18

\* What was asked for up to an instant, of quiet mode.
ZoneAsked(a, t) == {b \in Zone!Range(a) : b.kind = "quiet" /\ b.t <= t}

\* Of what was asked for at an instant the strongest is kept, and o has it.
LEMMA ZoneAskedIsKept ==
  ASSUME NEW a, NEW o, NEW p, NEW h, NEW f, ZoneNormal(a, o, p, h, f),
         \A i \in 1..Len(a) : a[i].kind = "quiet" => a[i].value \in Int,
         NEW t \in Nat, NEW b \in ZoneAsked(a, t)
  PROVE  \E i \in 1..Len(o) : o[i].kind = "quiet" /\ o[i].t = b.t
<1>1. a \in Seq(ZoneAction)
  BY DEF ZoneNormal
<1>2. PICK j \in 1..Len(a) : b = a[j] /\ a[j].kind = "quiet"
  BY <1>1 DEF ZoneAsked, Zone!Range
<1>3. PICK k \in 1..Len(a) : a[k].kind = "quiet" /\ a[k].t = a[j].t /\ Zone!Strongest(a, k)
  BY <1>1, <1>2, ZoneStrongestIs
<1>4. k \in ZoneKeptOf(a)
  BY <1>1, <1>3, ZoneActionsAre DEF ZoneKeptOf, Zone!Kept
<1>5. PICK i \in 1..Len(o) : h[i] = k
  BY <1>4, ZoneNormalTimes
<1>6. o[i] = a[k]
  BY <1>5, ZoneNormalTimes
<1> QED
  BY <1>2, <1>3, <1>6

\* The level at an instant is the strongest that was asked for last.
LEMMA ZoneLevelsAsked ==
  ASSUME NEW a, NEW o, NEW p, NEW h, NEW f, ZoneNormal(a, o, p, h, f),
         \A i \in 1..Len(a) : a[i].kind = "quiet" => a[i].value \in Int,
         NEW t \in Nat, a = zone_actions
  PROVE  Zone!LevelAt(p, t) = Zone!AskedLevel(t)
<1>1. /\ a \in Seq(ZoneAction) /\ o \in Seq(ZoneAction)
      /\ \A i \in 1..Len(o) : o[i].t \in Nat
      /\ Zone!Range(a) = {a[i] : i \in 1..Len(a)}
  BY ZoneActionsAre DEF ZoneNormal, Zone!Range
<1>2. /\ \A i, k \in 1..Len(o) : i < k => o[i].t <= o[k].t
      /\ \A i \in 1..Len(o) : h[i] \in ZoneKeptOf(a) /\ h[i] \in 1..Len(a) /\ o[i] = a[h[i]]
  BY ZoneNormalTimes
<1>3. PICK n \in 0..Len(o) : \A j \in 1..Len(o) : j <= n <=> o[j].t <= t
  BY <1>1, <1>2, ZonePrefixIs
<1>4. PICK v : v = Zone!LevelAt(p, t)
  OBVIOUS
<1>5. ZoneLastIs(o, 1..n, v)
  BY <1>3, <1>4, ZoneLevelsAtLast
<1>6. \A b \in ZoneAsked(a, t) : /\ b.kind = "quiet" /\ b.t <= t
                                 /\ \E i \in 1..Len(a) : b = a[i]
                                 /\ \E i \in 1..n : o[i].kind = "quiet" /\ o[i].t = b.t
  <2> SUFFICES ASSUME NEW b \in ZoneAsked(a, t)
               PROVE  /\ b.kind = "quiet" /\ b.t <= t
                      /\ \E i \in 1..Len(a) : b = a[i]
                      /\ \E i \in 1..n : o[i].kind = "quiet" /\ o[i].t = b.t
    OBVIOUS
  <2>1. b.kind = "quiet" /\ b.t <= t /\ \E i \in 1..Len(a) : b = a[i]
    BY <1>1 DEF ZoneAsked
  <2>2. PICK i \in 1..Len(o) : o[i].kind = "quiet" /\ o[i].t = b.t
    BY ZoneAskedIsKept
  <2>3. i <= n
    BY <1>3, <2>1, <2>2
  <2>4. i \in 1..n
    BY <2>3
  <2> QED
    BY <2>1, <2>2, <2>4
<1>7. CASE v = zone_trace.level /\ \A i \in 1..n : o[i].kind # "quiet"
  <2>1. ZoneAsked(a, t) = {}
    BY <1>6, <1>7
  <2> QED
    BY <1>4, <1>7, <2>1 DEF Zone!AskedLevel, ZoneAsked
<1>8. CASE \E i \in 1..n : o[i].kind = "quiet" /\ v = o[i].value
             /\ \A j \in 1..n : o[j].kind = "quiet" => j <= i
  <2>1. PICK k \in 1..n : o[k].kind = "quiet" /\ v = o[k].value
          /\ \A j \in 1..n : o[j].kind = "quiet" => j <= k
    BY <1>8
  <2>2. k \in 1..Len(o) /\ k <= n
    BY <1>3
  <2>3. PICK q \in 1..Len(a) : q = h[k] /\ q \in ZoneKeptOf(a) /\ o[k] = a[q]
    BY <1>2, <2>2
  <2>4. PICK T \in Nat : T = a[q].t
    BY <1>1, <2>2, <2>3
  <2>5. a[q].kind = "quiet" /\ v = a[q].value /\ v \in Int /\ o[k].t = T /\ T <= t
    BY <1>3, <2>1, <2>2, <2>3, <2>4
  <2>6. Zone!Strongest(a, q)
    BY <2>3, <2>5 DEF ZoneKeptOf, Zone!Kept
  <2>7. \A b \in ZoneAsked(a, t) : b.t <= T
    <3> SUFFICES ASSUME NEW b \in ZoneAsked(a, t)
                 PROVE  b.t <= T
      OBVIOUS
    <3>1. PICK i \in 1..n : o[i].kind = "quiet" /\ o[i].t = b.t
      BY <1>6
    <3>2. i <= k /\ i \in 1..Len(o)
      BY <1>3, <2>1, <3>1
    <3>3. o[i].t <= o[k].t
      <4>1. CASE i = k
        BY <1>1, <2>2, <4>1
      <4>2. CASE i < k
        BY <1>2, <2>2, <3>2, <4>2
      <4> QED
        BY <2>1, <3>2, <4>1, <4>2
    <3> QED
      BY <2>5, <3>1, <3>3
  <2>8. a[q] \in ZoneAsked(a, t)
    BY <1>1, <2>4, <2>5 DEF ZoneAsked
  <2> DEFINE last == {b \in ZoneAsked(a, t) : \A c \in ZoneAsked(a, t) : c.t <= b.t}
             S == {b.value : b \in last}
  <2>9. a[q] \in last
    BY <2>4, <2>7, <2>8
  <2>10. ASSUME NEW b \in last
         PROVE  b.value \in Int /\ b.value <= v
    <3>1. b \in ZoneAsked(a, t) /\ T <= b.t /\ b.t <= T
      BY <2>4, <2>7, <2>8
    <3>2. PICK i \in 1..Len(a) : b = a[i] /\ a[i].kind = "quiet"
      BY <1>6, <3>1
    <3>3. b.t \in Nat
      BY <1>1, <3>2, ZoneActionsAre
    <3>4. a[i].t = a[q].t
      BY <2>4, <3>1, <3>2, <3>3
    <3>5. a[i].value < a[q].value \/ a[i].value = a[q].value
      <4>1. i \in DOMAIN a
        BY <1>1, <3>2
      <4> QED
        BY <2>6, <3>2, <3>4, <4>1 DEF Zone!Strongest
    <3>6. a[i].value \in Int
      BY <3>2
    <3> QED
      BY <2>5, <3>2, <3>5, <3>6
  <2>11. v \in S /\ S \in SUBSET Int /\ \A x \in S : x <= v
    BY <2>5, <2>9, <2>10
  <2>12. Zone!Max(S) = v
    <3> HIDE DEF S
    <3> QED
      BY <2>11, ZoneGreatestIs
  <2>13. Zone!AskedLevel(t) = Zone!Max(S)
    BY <2>8 DEF Zone!AskedLevel, ZoneAsked
  <2> QED
    BY <1>4, <2>12, <2>13
<1> QED
  BY <1>5, <1>7, <1>8 DEF ZoneLastIs

\* What is normalised composes what was asked for.
LEMMA ZoneComposes ==
  ASSUME zone_actions \in Seq(ZoneAction),
         \A i \in 1..Len(zone_actions) : zone_actions[i].kind = "quiet"
           => zone_actions[i].value \in Int,
         \A j \in DOMAIN zone_actions : zone_actions[j].kind = "mode"
           => ~Zone!Owned(zone_actions, zone_actions[j].t),
         zone_plan = Zone!Collapsed(Zone!Ordered(Zone!Picked(zone_actions,
                                                            ZoneKeptOf(zone_actions))))
  PROVE  /\ \A i \in DOMAIN zone_plan : zone_plan[i].kind = "mode"
              => ~Zone!Owned(zone_plan, zone_plan[i].t)
         /\ Zone!Of(zone_plan, "mode") = Zone!Ordered(Zone!Of(zone_actions, "mode"))
         /\ \A t \in Zone!Instants : Zone!LevelAt(zone_plan, t) = Zone!AskedLevel(t)
         /\ \A i \in DOMAIN zone_plan : zone_plan[i].kind = "quiet"
              => zone_plan[i].value # Zone!Level(zone_plan)[i - 1]
<1>1. PICK a : a = zone_actions
  OBVIOUS
<1>2. PICK p : p = zone_plan
  OBVIOUS
<1>3. \E o, h, f : ZoneNormal(a, o, p, h, f)
  BY <1>1, <1>2, ZoneNormalIs
<1>4. PICK o, h, f : ZoneNormal(a, o, p, h, f)
  BY <1>3
<1>5. \A i \in DOMAIN p : p[i].kind = "mode" => ~Zone!Owned(p, p[i].t)
  BY <1>4, ZoneModesFree
<1>6. Zone!Of(p, "mode") = Zone!Ordered(Zone!Of(a, "mode"))
  <2>1. \A j \in DOMAIN a : a[j].kind = "mode" => ~Zone!Owned(a, a[j].t)
    BY <1>1
  <2> QED
    BY <1>4, <2>1, ZoneModesStay
<1>7. ASSUME NEW t \in Zone!Instants
      PROVE  Zone!LevelAt(p, t) = Zone!AskedLevel(t)
  <2>1. t \in Nat
    BY ZoneAssumption DEF Zone!Instants
  <2>2. \A i \in 1..Len(a) : a[i].kind = "quiet" => a[i].value \in Int
    BY <1>1
  <2> QED
    BY <1>1, <1>4, <2>1, <2>2, ZoneLevelsAsked
<1>8. \A i \in DOMAIN p : p[i].kind = "quiet" => p[i].value # Zone!Level(p)[i - 1]
  BY <1>4, ZoneNothingRepeats
<1> QED
  BY <1>1, <1>2, <1>5, <1>6, <1>7, <1>8

\* What the engine has read.
LEMMA ZoneTraceIs ==
  ASSUME zone_trace \in Zone!Traces
  PROVE  /\ \A h \in Zone!Slots : Zone!Price(h) \in Int
         /\ zone_trace.headroom \in Int /\ zone_trace.needed \in 0..zone_Day
         /\ zone_trace.night[1] \in 0..(zone_Day - 1)
              /\ zone_trace.night[2] \in 0..(zone_Day - 1)
<1>1. /\ zone_trace.price \in zone_PriceCurves /\ zone_trace.headroom \in zone_Headrooms
           /\ zone_trace.night \in zone_Nights
      /\ zone_trace.needed \in zone_Needs
  BY DEF Zone!Traces
<1>2. zone_trace.price \in [1..zone_Hours -> Int] /\ zone_Hours \in Nat
  BY <1>1, ZoneAssumption
<1>3. ASSUME NEW h \in Zone!Slots
      PROVE  Zone!Price(h) \in Int
  <2>1. h + 1 \in 1..zone_Hours
    BY <1>2 DEF Zone!Slots
  <2> QED
    BY <1>2, <2>1 DEF Zone!Price
<1>4. zone_trace.headroom \in Int /\ zone_trace.needed \in 0..zone_Day
  BY <1>1, ZoneAssumption
<1>5. zone_trace.night \in (0..(zone_Day - 1)) \X (0..(zone_Day - 1))
  BY <1>1, ZoneAssumption
<1> QED
  BY <1>3, <1>4, <1>5

\* The instants there are.
LEMMA ZoneInstantsAre ==
  /\ Zone!Slots \subseteq Zone!Instants /\ 0 \in Zone!Slots /\ Zone!Slots \subseteq Nat
  /\ \A h \in Zone!Slots : h + 1 \in Zone!Instants
  /\ \A d \in 0..(zone_Day - 1) : d \in Zone!Instants
  /\ \A h \in Zone!Slots, n \in 0..zone_Day : h + n \in Zone!Instants
  /\ zone_Day \in Nat \ {0} /\ zone_Hours \in Nat \ {0}
BY ZoneAssumption DEF Zone!Slots, Zone!Instants

\* The actions of the quiet rules, and those of the mode rule.
ZoneQuiets == [t : Zone!Instants, kind : {"quiet"}, value : Int, owner : {"none"}]
ZoneStatuses3 == {"eco", "normal", "comfort"}
ZoneFreeModes == {m \in [t : Zone!Slots, kind : {"mode"}, value : ZoneStatuses3,
                         owner : {"none"}] : ~Zone!Skipped(m.t)}

\* A switch of quiet mode.
LEMMA ZoneQuietIs ==
  ASSUME NEW t \in Zone!Instants, NEW v \in Int
  PROVE  Zone!Quiet(t, v) \in ZoneQuiets
BY DEF Zone!Quiet, ZoneQuiets

\* An hour of a peak switches quiet mode on and off.
LEMMA ZonePeakHourIs ==
  ASSUME NEW h \in Zone!Slots
  PROVE  Zone!PeakHour(h) \in Seq(ZoneQuiets)
<1>1. Zone!Quiet(h, 1) \in ZoneQuiets /\ Zone!Quiet(h + 1, 0) \in ZoneQuiets
  BY ZoneQuietIs, ZoneInstantsAre
<1> QED
  BY <1>1 DEF Zone!PeakHour

\* The peaks so far.
LEMMA ZonePeakHoursAre ==
  ASSUME zone_Hours \in Nat
  PROVE  /\ Zone!PeakHours \in [0..zone_Hours -> Seq(ZoneQuiets)]
         /\ Zone!PeakHours[0] = <<>>
         /\ \A n \in 1..zone_Hours : Zone!PeakHours[n]
              = Zone!PeakHours[n - 1] \o Zone!PeakHour(n - 1)
<1> DEFINE z == <<>>
           Then(s, n) == s \o Zone!PeakHour(n - 1)
           step == [n \in 1..zone_Hours |-> [s \in Seq(ZoneQuiets) |-> Then(s, n)]]
           All(g) == g = [n \in 0..zone_Hours |-> IF n = 0 THEN z ELSE Then(g[n - 1], n)]
<1>1. z \in Seq(ZoneQuiets)
  OBVIOUS
<1>2. ASSUME NEW n \in 1..zone_Hours, NEW s \in Seq(ZoneQuiets)
      PROVE  Then(s, n) \in Seq(ZoneQuiets)
  <2>1. n - 1 \in Zone!Slots
    BY ZoneAssumption DEF Zone!Slots
  <2>2. Zone!PeakHour(n - 1) \in Seq(ZoneQuiets)
    BY <2>1, ZonePeakHourIs
  <2> QED
    BY <2>2, ZoneRangesAre

<1>8. Zone!PeakHours = CHOOSE g : All(g)
  BY DEF Zone!PeakHours
<1> HIDE DEF z, Then
<1>3. step \in [1..zone_Hours -> [Seq(ZoneQuiets) -> Seq(ZoneQuiets)]]
  BY <1>2
<1>4. zone_Hours \in Nat
  BY ZoneAssumption
<1>5. PICK g \in [0..zone_Hours -> Seq(ZoneQuiets)] : g[0] = z
        /\ \A n \in 1..zone_Hours : g[n] = step[n][g[n - 1]]
  <2> HIDE DEF step
  <2>1. SUFFICES ASSUME NEW N \in Nat, N = zone_Hours, NEW T, T = Seq(ZoneQuiets)
                 PROVE  \E g \in [0..N -> T] : g[0] = z
                          /\ \A n \in 1..N : g[n] = step[n][g[n - 1]]
    BY <1>4
  <2>2. PICK y \in T : y = z
    BY <1>1, <2>1
  <2>3. PICK st \in [1..N -> [T -> T]] : st = step
    BY <1>3, <2>1
  <2>4. \E g \in [0..N -> T] : g[0] = y /\ \A n \in 1..N : g[n] = st[n][g[n - 1]]
    BY Repeated, SMTT(60)
  <2> QED
    BY <2>2, <2>3, <2>4
<1>6. \A n \in 1..zone_Hours : g[n] = Then(g[n - 1], n)
  <2> SUFFICES ASSUME NEW n \in 1..zone_Hours
               PROVE  g[n] = Then(g[n - 1], n)
    OBVIOUS
  <2>1. n - 1 \in 0..zone_Hours
    BY <1>4
  <2>2. g[n - 1] \in Seq(ZoneQuiets)
    BY <2>1
  <2> QED
    BY <1>5, <2>2
<1>7. All(g)
  <2>1. ASSUME NEW n \in 0..zone_Hours
        PROVE  g[n] = IF n = 0 THEN z ELSE Then(g[n - 1], n)
    BY <1>4, <1>5, <1>6
  <2> QED
    BY <2>1
<1>9. All(Zone!PeakHours)
  <2> HIDE DEF All
  <2> QED
    BY <1>7, <1>8
<1> DEFINE r == Zone!PeakHours
<1> HIDE DEF r
<1>10. r = [n \in 0..zone_Hours |-> IF n = 0 THEN z ELSE Then(r[n - 1], n)]
  BY <1>9 DEF r
<1>11. r[0] = z /\ \A n \in 1..zone_Hours : r[n] = Then(r[n - 1], n)
  BY <1>4, <1>10
<1> DEFINE X == {n \in 0..zone_Hours : r[n] \in Seq(ZoneQuiets)}
<1>12. 0..zone_Hours \subseteq X
  <2>1. 0 \in X
    BY <1>1, <1>4, <1>11
  <2>2. ASSUME NEW n \in 0..(zone_Hours - 1), n \in X PROVE n + 1 \in X
    <3>1. n + 1 \in 1..zone_Hours /\ (n + 1) - 1 = n /\ n + 1 \in 0..zone_Hours
      BY <1>4
    <3>2. r[n + 1] = Then(r[(n + 1) - 1], n + 1)
      BY <1>11, <3>1
    <3>3. r[(n + 1) - 1] \in Seq(ZoneQuiets)
      BY <2>2, <3>1
    <3> QED
      BY <1>2, <3>1, <3>2, <3>3
  <2> HIDE DEF X
  <2> QED
    BY <1>4, <2>1, <2>2, UpTo
<1>13. r \in [0..zone_Hours -> Seq(ZoneQuiets)]
  BY <1>10, <1>12
<1>14. \A n \in 1..zone_Hours : r[n] = r[n - 1] \o Zone!PeakHour(n - 1)
  BY <1>11 DEF Then
<1>15. r[0] = <<>>
  BY <1>11 DEF z
<1> QED
  BY <1>13, <1>14, <1>15, Zenon DEF r

\* The status that an hour wants.
LEMMA ZoneWantedIs ==
  ASSUME NEW h
  PROVE  Zone!Wanted(h) \in ZoneStatuses3
BY DEF Zone!Wanted, ZoneStatuses3

\* An hour writes a status only if no boost owns the zone.
LEMMA ZoneModeHourIs ==
  ASSUME NEW h \in Zone!Slots
  PROVE  Zone!ModeHour(h) \in Seq(ZoneFreeModes)
<1>1. CASE Zone!Writes(h, Zone!Status[h])
  <2>1. ~Zone!Skipped(h)
    BY <1>1 DEF Zone!Writes
  <2>2. PICK w \in ZoneStatuses3 : w = Zone!Wanted(h)
    BY ZoneWantedIs
  <2>3. Zone!Mode(h, w) \in [t : Zone!Slots, kind : {"mode"}, value : ZoneStatuses3,
                             owner : {"none"}] /\ Zone!Mode(h, w).t = h
    BY DEF Zone!Mode
  <2>4. Zone!Mode(h, w) \in ZoneFreeModes
    BY <2>1, <2>3 DEF ZoneFreeModes
  <2> HIDE DEF ZoneFreeModes
  <2>5. Zone!ModeHour(h) = <<Zone!Mode(h, w)>>
    BY <1>1, <2>2 DEF Zone!ModeHour
  <2> QED
    BY <2>4, <2>5
<1>2. CASE ~Zone!Writes(h, Zone!Status[h])
  BY <1>2 DEF Zone!ModeHour
<1> QED
  BY <1>1, <1>2

\* The statuses so far.
LEMMA ZoneModeHoursAre ==
  ASSUME zone_Hours \in Nat
  PROVE  /\ Zone!ModeHours \in [0..zone_Hours -> Seq(ZoneFreeModes)]
         /\ Zone!ModeHours[0] = <<>>
         /\ \A n \in 1..zone_Hours : Zone!ModeHours[n]
              = Zone!ModeHours[n - 1] \o Zone!ModeHour(n - 1)
<1> DEFINE z == <<>>
           Then(s, n) == s \o Zone!ModeHour(n - 1)
           step == [n \in 1..zone_Hours |-> [s \in Seq(ZoneFreeModes) |-> Then(s, n)]]
           All(g) == g = [n \in 0..zone_Hours |-> IF n = 0 THEN z ELSE Then(g[n - 1], n)]
<1>1. z \in Seq(ZoneFreeModes)
  OBVIOUS
<1>2. ASSUME NEW n \in 1..zone_Hours, NEW s \in Seq(ZoneFreeModes)
      PROVE  Then(s, n) \in Seq(ZoneFreeModes)
  <2>1. n - 1 \in Zone!Slots
    BY ZoneAssumption DEF Zone!Slots
  <2>2. Zone!ModeHour(n - 1) \in Seq(ZoneFreeModes)
    BY <2>1, ZoneModeHourIs
  <2> QED
    BY <2>2, ZoneRangesAre

<1>8. Zone!ModeHours = CHOOSE g : All(g)
  BY DEF Zone!ModeHours
<1> HIDE DEF z, Then
<1>3. step \in [1..zone_Hours -> [Seq(ZoneFreeModes) -> Seq(ZoneFreeModes)]]
  BY <1>2
<1>4. zone_Hours \in Nat
  BY ZoneAssumption
<1>5. PICK g \in [0..zone_Hours -> Seq(ZoneFreeModes)] : g[0] = z
        /\ \A n \in 1..zone_Hours : g[n] = step[n][g[n - 1]]
  <2> HIDE DEF step
  <2>1. SUFFICES ASSUME NEW N \in Nat, N = zone_Hours, NEW T, T = Seq(ZoneFreeModes)
                 PROVE  \E g \in [0..N -> T] : g[0] = z
                          /\ \A n \in 1..N : g[n] = step[n][g[n - 1]]
    BY <1>4
  <2>2. PICK y \in T : y = z
    BY <1>1, <2>1
  <2>3. PICK st \in [1..N -> [T -> T]] : st = step
    BY <1>3, <2>1
  <2>4. \E g \in [0..N -> T] : g[0] = y /\ \A n \in 1..N : g[n] = st[n][g[n - 1]]
    BY Repeated, SMTT(60)
  <2> QED
    BY <2>2, <2>3, <2>4
<1>6. \A n \in 1..zone_Hours : g[n] = Then(g[n - 1], n)
  <2> SUFFICES ASSUME NEW n \in 1..zone_Hours
               PROVE  g[n] = Then(g[n - 1], n)
    OBVIOUS
  <2>1. n - 1 \in 0..zone_Hours
    BY <1>4
  <2>2. g[n - 1] \in Seq(ZoneFreeModes)
    BY <2>1
  <2> QED
    BY <1>5, <2>2
<1>7. All(g)
  <2>1. ASSUME NEW n \in 0..zone_Hours
        PROVE  g[n] = IF n = 0 THEN z ELSE Then(g[n - 1], n)
    BY <1>4, <1>5, <1>6
  <2> QED
    BY <2>1
<1>9. All(Zone!ModeHours)
  <2> HIDE DEF All
  <2> QED
    BY <1>7, <1>8
<1> DEFINE r == Zone!ModeHours
<1> HIDE DEF r
<1>10. r = [n \in 0..zone_Hours |-> IF n = 0 THEN z ELSE Then(r[n - 1], n)]
  BY <1>9 DEF r
<1>11. r[0] = z /\ \A n \in 1..zone_Hours : r[n] = Then(r[n - 1], n)
  BY <1>4, <1>10
<1> DEFINE X == {n \in 0..zone_Hours : r[n] \in Seq(ZoneFreeModes)}
<1>12. 0..zone_Hours \subseteq X
  <2>1. 0 \in X
    BY <1>1, <1>4, <1>11
  <2>2. ASSUME NEW n \in 0..(zone_Hours - 1), n \in X PROVE n + 1 \in X
    <3>1. n + 1 \in 1..zone_Hours /\ (n + 1) - 1 = n /\ n + 1 \in 0..zone_Hours
      BY <1>4
    <3>2. r[n + 1] = Then(r[(n + 1) - 1], n + 1)
      BY <1>11, <3>1
    <3>3. r[(n + 1) - 1] \in Seq(ZoneFreeModes)
      BY <2>2, <3>1
    <3> QED
      BY <1>2, <3>1, <3>2, <3>3
  <2> HIDE DEF X
  <2> QED
    BY <1>4, <2>1, <2>2, UpTo
<1>13. r \in [0..zone_Hours -> Seq(ZoneFreeModes)]
  BY <1>10, <1>12
<1>14. \A n \in 1..zone_Hours : r[n] = r[n - 1] \o Zone!ModeHour(n - 1)
  BY <1>11 DEF Then
<1>15. r[0] = <<>>
  BY <1>11 DEF z
<1> QED
  BY <1>13, <1>14, <1>15, Zenon DEF r

\* The level to begin with and the switches of a day are quiet actions.
LEMMA ZoneNightsAre ==
  ASSUME zone_trace \in Zone!Traces
  PROVE  Zone!QuietNow \in Seq(ZoneQuiets) /\ Zone!Switches \in Seq(ZoneQuiets)
<1>1. 0 \in Zone!Instants /\ zone_trace.night[1] \in Zone!Instants
        /\ zone_trace.night[2] \in Zone!Instants
  BY ZoneTraceIs, ZoneInstantsAre
<1>2. /\ Zone!Quiet(0, 2) \in ZoneQuiets /\ Zone!Quiet(0, 0) \in ZoneQuiets
      /\ Zone!Quiet(zone_trace.night[1], 2) \in ZoneQuiets
           /\ Zone!Quiet(zone_trace.night[2], 0) \in ZoneQuiets
  BY <1>1, ZoneQuietIs
<1>3. Zone!QuietNow \in Seq(ZoneQuiets)
  BY <1>2 DEF Zone!QuietNow
<1>4. Zone!Switches \in Seq(ZoneQuiets)
  BY <1>2 DEF Zone!Switches
<1> QED
  BY <1>3, <1>4


\* What is asked of quiet mode is a level.
ZoneAsksLevels(s) == \A i \in 1..Len(s) : s[i].kind = "quiet" => s[i].value \in Int

\* A boost is followed by its restore, and no other has its owner.
ZoneRestores(s, i, j) == s[j].kind = "restore" /\ s[j].owner = s[i].owner /\ s[j].t > s[i].t
ZonePaired(s) ==
  /\ \A i \in 1..Len(s) : s[i].kind = "boost"
       => i + 1 \in 1..Len(s) /\ ZoneRestores(s, i, i + 1)
  /\ \A j \in 1..Len(s) : s[j].kind = "restore" =>
         j - 1 \in 1..Len(s) /\ s[j - 1].kind = "boost" /\ s[j - 1].owner = s[j].owner
  /\ \A i, j \in 1..Len(s) : s[i].kind = "boost" /\ s[j].kind = "boost"
       /\ s[i].owner = s[j].owner => i = j

\* The pump may heat when a boost starts, and the house is not too warm for it.
ZoneWorkable(s) == \A i \in 1..Len(s) : s[i].kind = "boost"
  => Zone!Allowed(s[i].t) /\ (Zone!Overheated => Zone!MinimumComfort)

ZoneSound(s) == s \in Seq(ZoneAction) /\ ZoneAsksLevels(s) /\ ZonePaired(s) /\ ZoneWorkable(s)

\* No kind of action but these, no owner of a boost but these.
ZoneKinds(s, K) == \A i \in 1..Len(s) : s[i].kind \in K
ZoneBoostsOf(s, W) == \A i \in 1..Len(s) : s[i].kind = "boost" => s[i].owner \in W

\* Nothing is asked for in the beginning.
LEMMA ZoneNothingSound ==
  ZoneSound(<<>>) /\ ZoneBoostsOf(<<>>, {}) /\ \A K : ZoneKinds(<<>>, K)
<1>1. <<>> \in Seq(ZoneAction) /\ 1..Len(<<>>) = {}
  OBVIOUS
<1> QED
  BY <1>1 DEF ZoneSound, ZoneAsksLevels, ZonePaired, ZoneWorkable, ZoneBoostsOf, ZoneKinds

\* The places of one list after another.
LEMMA ZonePlacesJoin ==
  ASSUME NEW S, NEW s \in Seq(S), NEW u \in Seq(S)
  PROVE  /\ s \o u \in Seq(S) /\ Len(s \o u) = Len(s) + Len(u) /\ Len(s) \in Nat
              /\ Len(u) \in Nat
         /\ \A i \in 1..Len(s) : (s \o u)[i] = s[i]
         /\ \A i \in 1..Len(s \o u) : ~(i <= Len(s))
              => i - Len(s) \in 1..Len(u) /\ (s \o u)[i] = u[i - Len(s)]
OBVIOUS

\* Rules that ask for no boost keep what is asked for sound.
LEMMA ZonePlainSound ==
  ASSUME NEW s, ZoneSound(s), NEW u \in Seq(ZoneAction), ZoneKinds(u, {"quiet", "mode"}),
         ZoneAsksLevels(u)
  PROVE  /\ ZoneSound(s \o u)
         /\ \A W : ZoneBoostsOf(s, W) => ZoneBoostsOf(s \o u, W)
<1> DEFINE r == s \o u
           m == Len(s)
<1>1. s \in Seq(ZoneAction) /\ ZoneAsksLevels(s) /\ ZonePaired(s) /\ ZoneWorkable(s)
  BY DEF ZoneSound
<1>2. /\ r \in Seq(ZoneAction) /\ Len(r) = m + Len(u) /\ m \in Nat /\ Len(u) \in Nat
      /\ \A i \in 1..m : r[i] = s[i]
      /\ \A i \in 1..Len(r) : ~(i <= m) => i - m \in 1..Len(u) /\ r[i] = u[i - m]
  BY <1>1, ZonePlacesJoin
<1> HIDE DEF r, m
<1>3. \A i \in 1..Len(r) : r[i].kind \notin {"quiet", "mode"} => i \in 1..m
  BY <1>2 DEF ZoneKinds
<1>4. \A i \in 1..m : i \in 1..Len(r) /\ i \in 1..Len(s) /\ r[i] = s[i]
  BY <1>2 DEF m
<1>5. ZoneAsksLevels(r)
  <2> SUFFICES ASSUME NEW i \in 1..Len(r), r[i].kind = "quiet"
               PROVE  r[i].value \in Int
    BY DEF ZoneAsksLevels
  <2>1. CASE i <= m
    <3>1. i \in 1..m
      BY <1>2, <2>1
    <3> QED
      BY <1>1, <1>4, <3>1 DEF ZoneAsksLevels
  <2>2. CASE ~(i <= m)
    BY <1>2, <2>2 DEF ZoneAsksLevels
  <2> QED
    BY <2>1, <2>2
<1>6. ZonePaired(r)
  <2>1. ASSUME NEW i \in 1..Len(r), r[i].kind = "boost"
        PROVE  i + 1 \in 1..Len(r) /\ ZoneRestores(r, i, i + 1)
    <3>1. i \in 1..m /\ r[i] = s[i]
      BY <1>3, <1>4, <2>1
    <3>2. i + 1 \in 1..Len(s) /\ ZoneRestores(s, i, i + 1)
      BY <1>1, <1>4, <2>1, <3>1 DEF ZonePaired
    <3>3. i + 1 \in 1..m
      BY <3>2 DEF m
    <3> QED
      BY <1>4, <3>1, <3>2, <3>3 DEF ZoneRestores
  <2>2. ASSUME NEW j \in 1..Len(r), r[j].kind = "restore"
        PROVE  j - 1 \in 1..Len(r) /\ r[j - 1].kind = "boost" /\ r[j - 1].owner = r[j].owner
    <3>1. j \in 1..m /\ r[j] = s[j]
      BY <1>3, <1>4, <2>2
    <3>2. j - 1 \in 1..Len(s) /\ s[j - 1].kind = "boost" /\ s[j - 1].owner = s[j].owner
      BY <1>1, <1>4, <2>2, <3>1 DEF ZonePaired
    <3>3. j - 1 \in 1..m
      BY <3>2 DEF m
    <3> QED
      BY <1>4, <3>1, <3>2, <3>3
  <2>3. ASSUME NEW i \in 1..Len(r), NEW j \in 1..Len(r), r[i].kind = "boost",
               r[j].kind = "boost", r[i].owner = r[j].owner
        PROVE  i = j
    <3>1. i \in 1..m /\ j \in 1..m
      BY <1>3, <2>3
    <3>2. i \in 1..Len(s) /\ j \in 1..Len(s) /\ s[i].kind = "boost" /\ s[j].kind = "boost"
            /\ s[i].owner = s[j].owner
      BY <1>4, <2>3, <3>1
    <3> QED
      BY <1>1, <3>2 DEF ZonePaired
  <2> QED
    BY <2>1, <2>2, <2>3 DEF ZonePaired
<1>7. ZoneWorkable(r)
  <2> SUFFICES ASSUME NEW i \in 1..Len(r), r[i].kind = "boost"
               PROVE  Zone!Allowed(r[i].t) /\ (Zone!Overheated => Zone!MinimumComfort)
    BY DEF ZoneWorkable
  <2>1. i \in 1..Len(s) /\ r[i] = s[i]
    BY <1>3, <1>4
  <2> QED
    BY <1>1, <2>1 DEF ZoneWorkable
<1>8. ASSUME NEW W, ZoneBoostsOf(s, W)
      PROVE  ZoneBoostsOf(r, W)
  BY <1>3, <1>4, <1>8 DEF ZoneBoostsOf
<1>9. ZoneSound(r)
  BY <1>2, <1>5, <1>6, <1>7 DEF ZoneSound
<1> QED
  BY <1>8, <1>9 DEF r

\* A boost with its restore.
LEMMA ZoneBoostIs ==
  ASSUME zone_trace \in Zone!Traces, NEW h \in Zone!Slots, NEW n, h + n \in Zone!Instants,
         NEW offset \in Int, NEW owner \in ZoneOwners
  PROVE  LET u == Zone!Boost(h, n, offset, owner)
         IN /\ u \in Seq(ZoneAction) /\ Len(u) = 2
            /\ u[1].kind = "boost" /\ u[1].t = h /\ u[1].owner = owner
            /\ u[2].kind = "restore" /\ u[2].t = h + n /\ u[2].owner = owner
<1>1. Zone!Min({offset, zone_trace.headroom}) \in Int
  BY ZoneTraceIs, ZoneMinIs
<1>2. PICK v \in Int : v = Zone!Min({offset, zone_trace.headroom})
  BY <1>1
<1>3. PICK k \in Zone!Instants : k = h + n
  OBVIOUS
<1>4. h \in Zone!Instants
  BY ZoneInstantsAre
<1>5. PICK b \in ZoneAction : b = [t |-> h, kind |-> "boost", value |-> v, owner |-> owner]
  BY <1>4 DEF ZoneAction, ZoneValues
<1>6. PICK r \in ZoneAction : r = [t |-> k, kind |-> "restore", value |-> 0, owner |-> owner]
  <2>1. 0 \in ZoneValues
    BY DEF ZoneValues
  <2> QED
    BY <2>1 DEF ZoneAction
<1>7. Zone!Boost(h, n, offset, owner) = <<b, r>>
  BY <1>2, <1>3, <1>5, <1>6 DEF Zone!Boost
<1>8. /\ b.kind = "boost" /\ b.t = h /\ b.owner = owner
      /\ r.kind = "restore" /\ r.t = k /\ r.owner = owner
  BY <1>5, <1>6
<1> QED
  BY <1>3, <1>7, <1>8

\* A rule that boosts once keeps what is asked for sound.
LEMMA ZoneBoostSound ==
  ASSUME zone_trace \in Zone!Traces, NEW s, ZoneSound(s), NEW h \in Zone!Slots,
         NEW n \in Nat \ {0}, h + n \in Zone!Instants,
         NEW offset \in Int, NEW owner \in ZoneOwners, Zone!Allowed(h), Zone!Overheated
           => Zone!MinimumComfort,
         NEW W, ZoneBoostsOf(s, W), owner \notin W
  PROVE  /\ ZoneSound(s \o Zone!Boost(h, n, offset, owner))
         /\ ZoneBoostsOf(s \o Zone!Boost(h, n, offset, owner), W \cup {owner})
         /\ ZoneKinds(Zone!Boost(h, n, offset, owner), {"boost", "restore"})
<1> DEFINE m == Len(s)
<1>1. s \in Seq(ZoneAction) /\ ZoneAsksLevels(s) /\ ZonePaired(s) /\ ZoneWorkable(s)
  BY DEF ZoneSound
<1>2. PICK u : u = Zone!Boost(h, n, offset, owner)
  OBVIOUS
<1>3. /\ u \in Seq(ZoneAction) /\ Len(u) = 2
      /\ u[1].kind = "boost" /\ u[1].t = h /\ u[1].owner = owner
      /\ u[2].kind = "restore" /\ u[2].t = h + n /\ u[2].owner = owner
  BY <1>2, ZoneBoostIs
<1>4. PICK r : r = s \o u
  OBVIOUS
<1>5. /\ r \in Seq(ZoneAction) /\ Len(r) = m + 2 /\ m \in Nat
      /\ \A i \in 1..m : r[i] = s[i]
      /\ \A i \in 1..Len(r) : ~(i <= m) => i - m \in 1..2 /\ r[i] = u[i - m]
  <2>1. /\ r \in Seq(ZoneAction) /\ Len(r) = m + Len(u) /\ m \in Nat
        /\ \A i \in 1..m : r[i] = s[i]
        /\ \A i \in 1..Len(r) : ~(i <= m) => i - m \in 1..Len(u) /\ r[i] = u[i - m]
    <3>1. s \in Seq(ZoneAction) /\ u \in Seq(ZoneAction)
      BY <1>1, <1>3
    <3>2. /\ s \o u \in Seq(ZoneAction) /\ Len(s \o u) = Len(s) + Len(u) /\ Len(s) \in Nat
          /\ \A i \in 1..Len(s) : (s \o u)[i] = s[i]
          /\ \A i \in 1..Len(s \o u) : ~(i <= Len(s))
               => i - Len(s) \in 1..Len(u) /\ (s \o u)[i] = u[i - Len(s)]
      BY ONLY <3>1
    <3> QED
      BY <1>4, <3>2, Zenon
  <2> QED
    BY <1>3, <2>1
<1> HIDE DEF m
<1>6. /\ \A i \in 1..m : i \in 1..Len(r) /\ i \in 1..Len(s) /\ r[i] = s[i]
      /\ \A i \in 1..Len(r) : i \in 1..m \/ i = m + 1 \/ i = m + 2
      /\ m + 1 \in 1..Len(r) /\ m + 2 \in 1..Len(r) /\ m + 1 \notin 1..m /\ m + 2 \notin 1..m
  BY <1>5 DEF m
<1>7. /\ r[m + 1].kind = "boost" /\ r[m + 1].t = h /\ r[m + 1].owner = owner
      /\ r[m + 2].kind = "restore" /\ r[m + 2].t = h + n /\ r[m + 2].owner = owner
  <2>1. r[m + 1] = u[1] /\ r[m + 2] = u[2]
    <3>1. ~(m + 1 <= m) /\ (m + 1) - m = 1 /\ ~(m + 2 <= m) /\ (m + 2) - m = 2
      BY <1>5
    <3> QED
      BY <1>5, <1>6, <3>1
  <2> QED
    BY <1>3, <2>1
<1>8. ZoneAsksLevels(r)
  <2> SUFFICES ASSUME NEW i \in 1..Len(r), r[i].kind = "quiet"
               PROVE  r[i].value \in Int
    BY DEF ZoneAsksLevels
  <2>1. i \in 1..m
    BY <1>6, <1>7
  <2> QED
    BY <1>1, <1>6, <2>1 DEF ZoneAsksLevels
<1>9. ZonePaired(r)
  <2>1. ASSUME NEW i \in 1..Len(r), r[i].kind = "boost"
        PROVE  i + 1 \in 1..Len(r) /\ ZoneRestores(r, i, i + 1)
    <3>1. CASE i \in 1..m
      <4>1. i + 1 \in 1..Len(s) /\ ZoneRestores(s, i, i + 1)
        BY <1>1, <1>6, <2>1, <3>1 DEF ZonePaired
      <4>2. i + 1 \in 1..m
        BY <4>1 DEF m
      <4> QED
        BY <1>6, <3>1, <4>1, <4>2 DEF ZoneRestores
    <3>2. CASE i = m + 1
      <4>1. (m + 1) + 1 = m + 2 /\ h + n > h
        BY <1>5, ZoneInstantsAre
      <4> QED
        BY <1>6, <1>7, <3>2, <4>1 DEF ZoneRestores
    <3> QED
      BY <1>6, <1>7, <2>1, <3>1, <3>2
  <2>2. ASSUME NEW j \in 1..Len(r), r[j].kind = "restore"
        PROVE  j - 1 \in 1..Len(r) /\ r[j - 1].kind = "boost" /\ r[j - 1].owner = r[j].owner
    <3>1. CASE j \in 1..m
      <4>1. j - 1 \in 1..Len(s) /\ s[j - 1].kind = "boost" /\ s[j - 1].owner = s[j].owner
        BY <1>1, <1>6, <2>2, <3>1 DEF ZonePaired
      <4>2. j - 1 \in 1..m
        BY <4>1 DEF m
      <4> QED
        BY <1>6, <3>1, <4>1, <4>2
    <3>2. CASE j = m + 2
      <4>1. (m + 2) - 1 = m + 1
        BY <1>5
      <4> QED
        BY <1>6, <1>7, <3>2, <4>1
    <3> QED
      BY <1>6, <1>7, <2>2, <3>1, <3>2
  <2>3. ASSUME NEW i \in 1..m, r[i].kind = "boost"
        PROVE  r[i].owner # owner
    BY <1>6, <2>3 DEF ZoneBoostsOf
  <2>4. ASSUME NEW i \in 1..Len(r), NEW j \in 1..Len(r), r[i].kind = "boost",
               r[j].kind = "boost", r[i].owner = r[j].owner
        PROVE  i = j
    <3>1. (i \in 1..m \/ i = m + 1) /\ (j \in 1..m \/ j = m + 1)
      BY <1>6, <1>7, <2>4
    <3>2. CASE i \in 1..m /\ j \in 1..m
      <4>1. i \in 1..Len(s) /\ j \in 1..Len(s) /\ s[i].kind = "boost" /\ s[j].kind = "boost"
              /\ s[i].owner = s[j].owner
        BY <1>6, <2>4, <3>2
      <4> QED
        BY <1>1, <4>1 DEF ZonePaired
    <3> QED
      BY <1>7, <2>3, <2>4, <3>1, <3>2
  <2> QED
    BY <2>1, <2>2, <2>4 DEF ZonePaired
<1>10. ZoneWorkable(r)
  <2> SUFFICES ASSUME NEW i \in 1..Len(r), r[i].kind = "boost"
               PROVE  Zone!Allowed(r[i].t) /\ (Zone!Overheated => Zone!MinimumComfort)
    BY DEF ZoneWorkable
  <2>1. CASE i \in 1..m
    BY <1>1, <1>6, <2>1 DEF ZoneWorkable
  <2>2. CASE i = m + 1
    BY <1>7, <2>2
  <2> QED
    BY <1>6, <1>7, <2>1, <2>2
<1>11. ZoneBoostsOf(r, W \cup {owner})
  BY <1>6, <1>7 DEF ZoneBoostsOf
<1>12. ZoneKinds(u, {"boost", "restore"})
  <2>1. \A i \in 1..2 : i = 1 \/ i = 2
    OBVIOUS
  <2> QED
    BY <1>3, <2>1 DEF ZoneKinds
<1>13. ZoneSound(r)
  BY <1>5, <1>8, <1>9, <1>10 DEF ZoneSound
<1> QED
  BY <1>2, <1>4, <1>11, <1>12, <1>13

\* A greatest of finitely many numbers.
LEMMA ZoneGreatestOf ==
  ASSUME NEW N \in Nat, NEW S \in SUBSET (0..N), S # {}, NEW v, \A k \in S : v[k] \in Int
  PROVE  \E h \in S : \A k \in S : v[k] < v[h] \/ (v[k] = v[h] /\ h <= k)
<1> DEFINE Tops(h, k) == v[k] < v[h] \/ (v[k] = v[h] /\ h <= k)
           X == {n \in 0..N : \/ \A h \in S : ~(h <= n)
                              \/ \E h \in S : h <= n /\ \A k \in S : k <= n => Tops(h, k)}
<1>1. \A h \in S : h \in Nat /\ h <= N
  OBVIOUS
<1>2. 0 \in X
  <2>1. CASE 0 \in S
    <3>1. \A k \in S : k <= 0 => k = 0
      BY <1>1
    <3>2. Tops(0, 0)
      BY <2>1
    <3>3. \A k \in S : k <= 0 => Tops(0, k)
      BY <3>1, <3>2
    <3> HIDE DEF Tops
    <3> QED
      BY <2>1, <3>3
  <2>2. CASE 0 \notin S
    <3>1. \A h \in S : ~(h <= 0)
      BY <1>1, <2>2
    <3> QED
      BY <3>1
  <2> QED
    BY <2>1, <2>2
<1>3. ASSUME NEW n \in 0..(N - 1), n \in X
      PROVE  n + 1 \in X
  <2>1. n + 1 \in 0..N /\ n \in Nat /\ \A h \in S : h <= n + 1 <=> h <= n \/ h = n + 1
    BY <1>1
  <2>2. CASE n + 1 \notin S
    <3>1. \A h \in S : h <= n + 1 <=> h <= n
      BY <2>1, <2>2
    <3> QED
      BY <1>3, <2>1, <3>1
  <2>3. CASE n + 1 \in S
    <3>1. PICK b \in Int : b = v[n + 1]
      BY <2>3
    <3>2. CASE \A h \in S : ~(h <= n)
      <4>1. \A k \in S : k <= n + 1 => k = n + 1
        BY <2>1, <3>2
      <4>2. Tops(n + 1, n + 1)
        BY <2>1, <3>1
      <4>3. \A k \in S : k <= n + 1 => Tops(n + 1, k)
        BY <4>1, <4>2
      <4>4. n + 1 <= n + 1
        BY <2>1
      <4> HIDE DEF Tops
      <4>5. \E h \in S : h <= n + 1 /\ \A k \in S : k <= n + 1 => Tops(h, k)
        BY <2>3, <4>3, <4>4
      <4> QED
        BY <2>1, <4>5
    <3>3. CASE \E h \in S : h <= n /\ \A k \in S : k <= n => Tops(h, k)
      <4>1. PICK h \in S : h <= n /\ \A k \in S : k <= n => Tops(h, k)
        BY <3>3
      <4>2. PICK a \in Int : a = v[h]
        OBVIOUS
      <4>3. CASE b <= a
        <5>1. Tops(h, n + 1)
          BY <1>1, <2>1, <3>1, <4>1, <4>2, <4>3
        <5>2. \A k \in S : k <= n + 1 => Tops(h, k)
          <6> HIDE DEF Tops
          <6> QED
            BY <2>1, <4>1, <5>1
        <5>3. h <= n + 1
          BY <2>1, <4>1
        <5> HIDE DEF Tops
        <5>4. \E x \in S : x <= n + 1 /\ \A k \in S : k <= n + 1 => Tops(x, k)
          BY <5>2, <5>3
        <5> QED
          BY <2>1, <5>4
      <4>4. CASE ~(b <= a)
        <5>1. ASSUME NEW k \in S, k <= n + 1
              PROVE  Tops(n + 1, k)
          <6>1. CASE k = n + 1
            BY <2>1, <3>1, <6>1
          <6>2. CASE k <= n
            <7>1. Tops(h, k)
              BY <4>1, <6>2
            <7>2. PICK c \in Int : c = v[k]
              OBVIOUS
            <7>3. c < a \/ c = a
              BY <4>2, <7>1, <7>2
            <7>4. c < b
              BY <3>1, <4>2, <4>4, <7>3
            <7> QED
              BY <3>1, <7>2, <7>4
          <6> QED
            BY <2>1, <5>1, <6>1, <6>2
        <5>2. n + 1 <= n + 1
          BY <2>1
        <5> HIDE DEF Tops
        <5>3. \E x \in S : x <= n + 1 /\ \A k \in S : k <= n + 1 => Tops(x, k)
          BY <2>3, <5>1, <5>2
        <5> QED
          BY <2>1, <5>3
      <4> QED
        BY <3>1, <4>2, <4>3, <4>4
    <3> QED
      BY <1>3, <3>2, <3>3
  <2> QED
    BY <2>2, <2>3
<1>4. N \in X
  <2> HIDE DEF X
  <2>1. 0..N \subseteq X
    BY <1>2, <1>3, UpTo
  <2> QED
    BY <2>1
<1>5. PICK h \in S : \A k \in S : Tops(h, k)
  BY <1>1, <1>4
<1> QED
  BY <1>5

\* What an hour costs, and what heat may be worth later.
LEMMA ZoneCostsAre ==
  ASSUME zone_trace \in Zone!Traces
  PROVE  /\ \A h \in Zone!Slots : Zone!Cost(h) \in Int
         /\ \A h \in Zone!Candidates : Zone!BestSpread(h) \in Int
<1>1. ASSUME NEW h \in Zone!Slots
      PROVE  Zone!Cost(h) \in Int
  <2>1. PICK p \in Int : p = Zone!Price(h)
    BY ZoneTraceIs
  <2>2. p * 4 \in Int /\ p * 3 \in Int
    OBVIOUS
  <2> QED
    BY <2>1, <2>2 DEF Zone!Cost
<1>2. ASSUME NEW h \in Zone!Candidates
      PROVE  Zone!BestSpread(h) \in Int
  <2> DEFINE e == Zone!Min({zone_Hours - 1, h + zone_Ahead})
             later == (h + 1)..e
             S == {Zone!Cost(k) - Zone!Cost(h) : k \in later}
  <2>1. h \in Zone!Slots /\ \E k \in later : TRUE
    BY DEF Zone!Candidates
  <2>2. zone_Hours - 1 \in Int /\ h + zone_Ahead \in Int /\ h \in Nat
          /\ zone_Hours \in Nat \ {0}
    BY <2>1, ZoneAssumption DEF Zone!Slots
  <2>3. e \in Int /\ e <= zone_Hours - 1
    <3>1. e = IF zone_Hours - 1 <= h + zone_Ahead THEN zone_Hours - 1 ELSE h + zone_Ahead
      BY <2>2, ZoneMinIs
    <3> HIDE DEF e
    <3> QED
      BY <2>2, <3>1
  <2> HIDE DEF e
  <2>4. later \subseteq Zone!Slots /\ later \in SUBSET (0..zone_Hours) /\ later # {}
    BY <2>1, <2>2, <2>3 DEF Zone!Slots
  <2> DEFINE v == [k \in later |-> Zone!Cost(k) - Zone!Cost(h)]
  <2> HIDE DEF later
  <2>5. \A k \in later : v[k] = Zone!Cost(k) - Zone!Cost(h) /\ v[k] \in Int
    <3>1. PICK x \in Int : x = Zone!Cost(h)
      BY <1>1, <2>1
    <3>2. ASSUME NEW k \in later
          PROVE  v[k] = Zone!Cost(k) - Zone!Cost(h) /\ v[k] \in Int
      <4>1. k \in Zone!Slots
        BY <2>4
      <4>2. PICK y \in Int : y = Zone!Cost(k)
        BY <1>1, <4>1
      <4>3. v[k] = y - x
        BY <3>1, <4>2
      <4> QED
        BY <3>1, <4>2, <4>3
    <3> QED
      BY <3>2
  <2>6. PICK b \in later : \A k \in later : v[k] < v[b] \/ (v[k] = v[b] /\ b <= k)
    <3> HIDE DEF v
    <3> QED
      BY <2>2, <2>4, <2>5, ZoneGreatestOf
  <2>7. PICK m \in Int : m = v[b]
    BY <2>5
  <2>8. m \in S /\ S \in SUBSET Int /\ \A x \in S : x <= m
    <3>1. m \in S
      BY <2>5, <2>7
    <3>2. ASSUME NEW x \in S
          PROVE  x \in Int /\ x <= m
      <4>1. PICK k \in later : x = v[k]
        BY <2>5
      <4>2. v[k] \in Int /\ (v[k] < v[b] \/ v[k] = v[b])
        BY <2>5, <2>6
      <4> QED
        BY <2>7, <4>1, <4>2
    <3> QED
      BY <3>1, <3>2
  <2>9. Zone!Max(S) = m
    <3> HIDE DEF S
    <3> QED
      BY <2>8, ZoneGreatestIs
  <2> QED
    BY <2>9 DEF Zone!BestSpread, e, later
<1> QED
  BY <1>1, <1>2

\* Of safe hours there is a best.
ZoneBest(h, k) == \/ Zone!Cost(h) < Zone!Cost(k)
                  \/ Zone!Cost(h) = Zone!Cost(k) /\ Zone!BestSpread(h) > Zone!BestSpread(k)
                  \/ Zone!Cost(h) = Zone!Cost(k) /\ Zone!BestSpread(h) = Zone!BestSpread(k)
                       /\ h <= k
LEMMA ZoneBestOne ==
  ASSUME zone_trace \in Zone!Traces, NEW S \in SUBSET Zone!Candidates, S # {}
  PROVE  \E h \in S : \A k \in S : ZoneBest(h, k)
<1>1. /\ S \in SUBSET (0..zone_Hours) /\ S \subseteq Zone!Slots /\ zone_Hours \in Nat
      /\ \A k \in S : Zone!Cost(k) \in Int /\ Zone!BestSpread(k) \in Int
  <2>1. S \subseteq Zone!Slots
    BY DEF Zone!Candidates
  <2>2. S \in SUBSET (0..zone_Hours) /\ zone_Hours \in Nat
    BY <2>1, ZoneAssumption DEF Zone!Slots
  <2> QED
    BY <2>1, <2>2, ZoneCostsAre
<1>2. PICK c : c = [k \in S |-> 0 - Zone!Cost(k)]
  OBVIOUS
<1>3. \A k \in S : c[k] = 0 - Zone!Cost(k) /\ c[k] \in Int
  BY <1>1, <1>2
<1>4. PICK a \in S : \A k \in S : c[k] < c[a] \/ (c[k] = c[a] /\ a <= k)
  BY <1>1, <1>3, ZoneGreatestOf
<1>5. PICK A \in SUBSET S : A = {k \in S : Zone!Cost(k) = Zone!Cost(a)}
  OBVIOUS
<1>6. \A k \in S : Zone!Cost(a) <= Zone!Cost(k)
  <2> SUFFICES ASSUME NEW k \in S
               PROVE  Zone!Cost(a) <= Zone!Cost(k)
    OBVIOUS
  <2>1. PICK x \in Int : x = Zone!Cost(a)
    BY <1>1
  <2>2. PICK y \in Int : y = Zone!Cost(k)
    BY <1>1
  <2>3. c[a] = 0 - x /\ c[k] = 0 - y
    BY <1>3, <2>1, <2>2
  <2>4. c[k] < c[a] \/ c[k] = c[a]
    BY <1>4
  <2> QED
    BY <2>1, <2>2, <2>3, <2>4
<1>7. PICK v : v = [k \in A |-> Zone!BestSpread(k)]
  OBVIOUS
<1>8. \A k \in A : v[k] = Zone!BestSpread(k) /\ v[k] \in Int
  BY <1>1, <1>7
<1>9. A \in SUBSET (0..zone_Hours) /\ A # {}
  BY <1>1, <1>5
<1>10. PICK h \in A : \A k \in A : v[k] < v[h] \/ (v[k] = v[h] /\ h <= k)
  BY <1>1, <1>8, <1>9, ZoneGreatestOf
<1>11. ASSUME NEW k \in S
       PROVE  ZoneBest(h, k)
  <2>1. Zone!Cost(h) = Zone!Cost(a) /\ Zone!Cost(a) \in Int /\ Zone!Cost(k) \in Int
          /\ Zone!Cost(a) <= Zone!Cost(k)
    BY <1>1, <1>5, <1>6
  <2>2. CASE k \in A
    <3>1. v[k] = Zone!BestSpread(k) /\ v[h] = Zone!BestSpread(h) /\ v[k] \in Int /\ v[h] \in Int
      BY <1>8, <2>2
    <3>2. v[k] < v[h] \/ (v[k] = v[h] /\ h <= k)
      BY <1>10, <2>2
    <3>3. Zone!BestSpread(h) > Zone!BestSpread(k)
            \/ (Zone!BestSpread(h) = Zone!BestSpread(k) /\ h <= k)
      BY <3>1, <3>2
    <3>4. Zone!Cost(h) = Zone!Cost(k)
      BY <1>5, <2>2
    <3> QED
      BY <3>3, <3>4 DEF ZoneBest
  <2>3. CASE k \notin A
    <3>1. Zone!Cost(k) # Zone!Cost(a)
      BY <1>5, <2>3
    <3>2. Zone!Cost(h) < Zone!Cost(k)
      BY <2>1, <3>1
    <3> QED
      BY <3>2 DEF ZoneBest
  <2> QED
    BY <2>2, <2>3
<1>12. h \in S
  BY <1>10
<1> QED
  BY <1>11, <1>12

\* Cheap heat is banked in an hour in which the pump may heat.
LEMMA ZoneBankedIs ==
  ASSUME zone_trace \in Zone!Traces
  PROVE  \/ Zone!Banked = <<>>
         \/ \E h \in Zone!Slots, offset \in {1, 2} : Zone!Allowed(h)
              /\ Zone!Banked = Zone!Boost(h, 1, offset, "battery")
<1> DEFINE offset == IF \E h \in Zone!Candidates : Zone!Safe(h, 2) THEN 2 ELSE 1
           safe == {h \in Zone!Candidates : Zone!Safe(h, offset)}
           h == CHOOSE x \in safe : \A k \in safe : ZoneBest(x, k)
<1>1. \/ Zone!Banked = <<>>
      \/ safe # {} /\ Zone!Banked = Zone!Boost(h, 1, offset, "battery")
  BY DEF Zone!Banked, ZoneBest
<1>2. offset \in {1, 2}
  OBVIOUS
<1>3. safe \in SUBSET Zone!Candidates
  OBVIOUS
<1> HIDE DEF safe, offset
<1>4. CASE safe # {} /\ Zone!Banked = Zone!Boost(h, 1, offset, "battery")
  <2>1. \E x \in safe : \A k \in safe : ZoneBest(x, k)
    BY <1>3, <1>4, ZoneBestOne
  <2>2. h \in safe
    BY <2>1
  <2> HIDE DEF h
  <2>3. h \in Zone!Slots /\ Zone!Allowed(h)
    BY <1>3, <2>2 DEF Zone!Candidates
  <2> QED
    BY <1>2, <1>4, <2>3
<1> QED
  BY <1>1, <1>4

\* How long a boost lasts.
LEMMA ZoneLongIs ==
  ASSUME zone_trace \in Zone!Traces
  PROVE  Zone!Long \in 0..zone_Day /\ Zone!Long >= 1 /\ Zone!Long \in Nat \ {0}
<1>1. zone_trace.needed \in Int /\ zone_trace.needed \in 0..zone_Day /\ zone_Day \in Nat \ {0}
  BY ZoneTraceIs, ZoneInstantsAre
<1>2. Zone!Long = IF 1 >= zone_trace.needed THEN 1 ELSE zone_trace.needed
  BY <1>1, ZoneMaxIs DEF Zone!Long
<1> QED
  BY <1>1, <1>2

\* The cheapest hours are some of those there are, and end within the horizon.
LEMMA ZoneCheapestIs ==
  ASSUME zone_trace \in Zone!Traces, NEW hours \in SUBSET Zone!Slots,
         Zone!Cheapest(Zone!Long, hours) # {}
  PROVE  /\ Zone!Min(Zone!Cheapest(Zone!Long, hours)) \in hours
         /\ Zone!Min(Zone!Cheapest(Zone!Long, hours)) + Zone!Long \in Zone!Instants
<1>1. PICK n \in Nat \ {0} : n = Zone!Long
  BY ZoneLongIs
<1>2. PICK C : C = Zone!Cheapest(n, hours)
  OBVIOUS
<1>3. C \subseteq hours /\ \A h \in C : h..(h + n - 1) \subseteq hours
  BY <1>2 DEF Zone!Cheapest
<1>4. C \in SUBSET Nat /\ C # {}
  BY <1>1, <1>2, <1>3, ZoneInstantsAre
<1>5. PICK h \in C : h = Zone!Min(C)
  BY <1>4, ZoneLeastIs
<1>6. h \in hours /\ h \in Nat
  BY <1>3, <1>4
<1>7. h + n - 1 \in h..(h + n - 1)
  BY <1>1, <1>6
<1>8. h + n - 1 \in Zone!Slots
  BY <1>3, <1>7
<1>9. h + n \in Zone!Instants
  BY <1>1, <1>6, <1>8, ZoneAssumption DEF Zone!Slots, Zone!Instants
<1> QED
  BY <1>1, <1>2, <1>5, <1>6, <1>9

\* The house is preheated in hours in which the pump may heat.
LEMMA ZonePreheatedIs ==
  ASSUME zone_trace \in Zone!Traces
  PROVE  \/ Zone!Preheated = <<>>
         \/ \E h \in Zone!Slots : /\ Zone!Allowed(h) /\ h + Zone!Long \in Zone!Instants
                                  /\ Zone!Preheated = Zone!Boost(h, Zone!Long, Zone!Long,
                                                            "preheat")
<1> DEFINE hours == {h \in Zone!Slots : /\ Zone!Min(Zone!ColdRisks) - Zone!Long - zone_PreheatBack <= h
                                        /\ h < Zone!Min(Zone!ColdRisks) /\ Zone!Allowed(h)}
           slot == Zone!Cheapest(Zone!Long, hours)
<1>1. Zone!Preheated = <<>>
        \/ (slot # {} /\ Zone!Preheated =
              Zone!Boost(Zone!Min(slot), Zone!Long, Zone!Long, "preheat"))
  BY DEF Zone!Preheated
<1>2. hours \in SUBSET Zone!Slots /\ \A h \in hours : Zone!Allowed(h)
  OBVIOUS
<1> HIDE DEF hours
<1>3. CASE slot # {} /\ Zone!Preheated =
             Zone!Boost(Zone!Min(slot), Zone!Long, Zone!Long, "preheat")
  <2>1. Zone!Min(slot) \in hours /\ Zone!Min(slot) + Zone!Long \in Zone!Instants
    BY <1>2, <1>3, ZoneCheapestIs
  <2> HIDE DEF slot
  <2> QED
    BY <1>2, <1>3, <2>1
<1> QED
  BY <1>1, <1>3

\* The guardrail boosts in hours in which the pump may heat.
LEMMA ZoneGuardedIs ==
  ASSUME zone_trace \in Zone!Traces, Zone!ColdComfort # {}
  PROVE  \E h \in Zone!Slots, offset \in {1, 2} : /\ Zone!Allowed(h)
                                                       /\ h + Zone!Long \in Zone!Instants
                                                  /\ Zone!Guarded = Zone!Boost(h, Zone!Long,
                                                            offset, "guardrail")
<1> DEFINE c == Zone!Min(Zone!ColdComfort)
           hours == {k \in Zone!Slots : c - Zone!Long - zone_GuardBack <= k /\ k <= c
                     /\ Zone!Allowed(k)}
           slot == Zone!Cheapest(Zone!Long, hours)
           offset == IF Zone!GuardTarget - Zone!GuardForecast(c) <= 5 THEN 1 ELSE 2
<1>1. Zone!Guarded = Zone!Boost(IF slot = {} THEN c ELSE Zone!Min(slot), Zone!Long, offset,
                                "guardrail")
  BY DEF Zone!Guarded
<1>2. hours \in SUBSET Zone!Slots /\ \A h \in hours : Zone!Allowed(h)
  OBVIOUS
<1>3. offset \in {1, 2}
  OBVIOUS
<1>4. c \in Zone!Slots /\ Zone!Allowed(c)
  <2>1. Zone!ColdComfort \in SUBSET Nat
    BY ZoneInstantsAre DEF Zone!ColdComfort
  <2>2. c \in Zone!ColdComfort
    BY <2>1, ZoneLeastIs
  <2> QED
    BY <2>2 DEF Zone!ColdComfort
<1> HIDE DEF c, hours, offset
<1>5. CASE slot = {}
  <2>1. c + Zone!Long \in Zone!Instants
    BY <1>4, ZoneLongIs, ZoneInstantsAre
  <2> QED
    BY <1>1, <1>3, <1>4, <1>5, <2>1
<1>6. CASE slot # {}
  <2>1. Zone!Min(slot) \in hours /\ Zone!Min(slot) + Zone!Long \in Zone!Instants
    BY <1>2, <1>6, ZoneCheapestIs
  <2>2. Zone!Guarded = Zone!Boost(Zone!Min(slot), Zone!Long, offset, "guardrail")
    BY <1>1, <1>6
  <2> HIDE DEF slot
  <2> QED
    BY <1>2, <1>3, <2>1, <2>2
<1> QED
  BY <1>5, <1>6

\* The modes are written while no boost owns the zone.
ZoneModesUnowned(s) == \A j \in DOMAIN s : s[j].kind = "mode" => ~Zone!Owned(s, s[j].t)

\* What the plan is made of.
ZoneNormalised(s) == Zone!Collapsed(Zone!Ordered(Zone!Picked(s, ZoneKeptOf(s))))

\* The inductive invariant.
ZoneIInv ==
  /\ zone_trace \in Zone!Traces
  /\ zone_at \in {"preheat", "peaks", "quiet", "guard", "modes", "normalise", "done"}
  /\ ZoneSound(zone_actions)
  /\ zone_at = "preheat" => zone_actions = <<>>
  /\ zone_at \in {"peaks", "quiet", "guard"}
       => ZoneBoostsOf(zone_actions, {"battery", "preheat"})
  /\ zone_at \in {"peaks", "quiet", "guard", "modes"}
       => ZoneKinds(zone_actions, {"boost", "restore", "quiet"})
  /\ zone_at \in {"normalise", "done"} => ZoneModesUnowned(zone_actions)
  /\ zone_at = "done" => zone_plan = ZoneNormalised(zone_actions)

\* Initially nothing is asked for.
LEMMA ZoneInvariantInitially ==
  ASSUME Zone!Init
  PROVE  ZoneIInv
<1>1. zone_trace \in Zone!Traces /\ zone_at = "preheat" /\ zone_actions = <<>>
  BY DEF Zone!Init
<1>2. ZoneSound(zone_actions)
  BY <1>1, ZoneNothingSound
<1> QED
  BY <1>1, <1>2 DEF ZoneIInv

\* What is sound stays so while the engine reads nothing new.
LEMMA ZoneSoundStill ==
  ASSUME zone_trace' = zone_trace, NEW s, ZoneSound(s), zone_actions' = s
  PROVE  ZoneSound(zone_actions)'
<1>1. s \in Seq(ZoneAction) /\ ZoneAsksLevels(s) /\ ZonePaired(s) /\ ZoneWorkable(s)
  BY DEF ZoneSound
<1>2. (zone_actions \in Seq(ZoneAction))'
  BY <1>1 DEF ZoneAction, Zone!Instants, ZoneValues, ZoneOwners
<1>3. ZoneAsksLevels(zone_actions)'
  BY <1>1 DEF ZoneAsksLevels
<1>4. ZonePaired(zone_actions)'
  BY <1>1, SMT DEF ZonePaired, ZoneRestores
<1>5. ZoneWorkable(zone_actions)'
  BY <1>1, SMT DEF ZoneWorkable, Zone!Allowed, Zone!Overheated, Zone!MinimumComfort
<1> QED
  BY <1>2, <1>3, <1>4, <1>5 DEF ZoneSound

\* So does what the plan is made of.
LEMMA ZoneNormalisedStill ==
  ASSUME zone_trace' = zone_trace, zone_actions' = zone_actions
  PROVE  ZoneNormalised(zone_actions)' = ZoneNormalised(zone_actions)
BY SMT DEF ZoneNormalised, ZoneKeptOf, Zone!Kept, Zone!Strongest, Zone!Owned,
   Zone!Collapsed, Zone!Level, Zone!Ordered, Zone!Ordering, Zone!Picked, Zone!Picking,
   Zone!Chosen

\* The quiet rules add levels only.
LEMMA ZoneQuietsPlain ==
  ASSUME NEW u \in Seq(ZoneQuiets)
  PROVE  u \in Seq(ZoneAction) /\ ZoneKinds(u, {"quiet"}) /\ ZoneKinds(u, {"quiet", "mode"})
           /\ ZoneAsksLevels(u)
<1>1. \A i \in 1..Len(u) : u[i] \in ZoneQuiets
  OBVIOUS
<1>2. \A b \in ZoneQuiets : b \in ZoneAction /\ b.kind = "quiet" /\ b.value \in Int
  BY DEF ZoneQuiets, ZoneAction, ZoneValues, ZoneOwners
<1>3. u \in Seq(ZoneAction)
  <2>1. ZoneQuiets \subseteq ZoneAction
    BY <1>2
  <2> QED
    BY <2>1
<1> QED
  BY <1>1, <1>2, <1>3 DEF ZoneKinds, ZoneAsksLevels

\* The modes that are added are written while no boost owns the zone.
LEMMA ZoneModesPlain ==
  ASSUME NEW u \in Seq(ZoneFreeModes)
  PROVE  /\ u \in Seq(ZoneAction) /\ ZoneKinds(u, {"mode"}) /\ ZoneKinds(u, {"quiet", "mode"})
              /\ ZoneAsksLevels(u)
         /\ \A i \in 1..Len(u) : ~Zone!Owned(zone_actions, u[i].t)
<1>1. \A i \in 1..Len(u) : u[i] \in ZoneFreeModes
  OBVIOUS
<1>2. ASSUME NEW m \in ZoneFreeModes
      PROVE  m \in ZoneAction /\ m.kind = "mode" /\ ~Zone!Owned(zone_actions, m.t)
  <2>1. m \in [t : Zone!Slots, kind : {"mode"}, value : ZoneStatuses3, owner : {"none"}]
          /\ ~Zone!Skipped(m.t)
    BY DEF ZoneFreeModes
  <2>2. m \in ZoneAction
    BY <2>1, ZoneInstantsAre DEF ZoneAction, ZoneValues, ZoneOwners, ZoneStatuses3
  <2> QED
    BY <2>1, <2>2 DEF Zone!Skipped
<1>3. u \in Seq(ZoneAction)
  <2>1. ZoneFreeModes \subseteq ZoneAction
    BY <1>2
  <2> QED
    BY <2>1
<1> QED
  BY <1>1, <1>2, <1>3 DEF ZoneKinds, ZoneAsksLevels

\* The kinds of one list after another.
LEMMA ZoneKindsJoin ==
  ASSUME NEW s \in Seq(ZoneAction), NEW u \in Seq(ZoneAction), NEW K, ZoneKinds(s, K), NEW L,
         ZoneKinds(u, L)
  PROVE  ZoneKinds(s \o u, K \cup L)
<1>1. PICK r : r = s \o u
  OBVIOUS
<1>2. /\ Len(s) \in Nat /\ \A i \in 1..Len(s) : r[i] = s[i]
      /\ \A i \in 1..Len(r) : ~(i <= Len(s)) => i - Len(s) \in 1..Len(u) /\ r[i] = u[i - Len(s)]
  BY <1>1, ZonePlacesJoin
<1>3. ASSUME NEW i \in 1..Len(r)
      PROVE  r[i].kind \in K \cup L
  <2>1. CASE i <= Len(s)
    <3>1. i \in 1..Len(s)
      BY <1>2, <2>1
    <3> QED
      BY <1>2, <3>1 DEF ZoneKinds
  <2>2. CASE ~(i <= Len(s))
    BY <1>2, <2>2 DEF ZoneKinds
  <2> QED
    BY <2>1, <2>2
<1> QED
  BY <1>1, <1>3 DEF ZoneKinds

\* The same boosts own the zone after the modes are asked for.
LEMMA ZoneOwnedStill ==
  ASSUME NEW s \in Seq(ZoneAction), NEW u \in Seq(ZoneAction), ZoneKinds(u, {"mode"}), NEW t
  PROVE  Zone!Owned(s \o u, t) <=> Zone!Owned(s, t)
<1>1. PICK r : r = s \o u
  OBVIOUS
<1>2. /\ Len(s) \in Nat /\ Len(r) = Len(s) + Len(u) /\ Len(u) \in Nat /\ r \in Seq(ZoneAction)
      /\ \A i \in 1..Len(s) : r[i] = s[i]
      /\ \A i \in 1..Len(r) : ~(i <= Len(s)) => i - Len(s) \in 1..Len(u) /\ r[i] = u[i - Len(s)]
  BY <1>1, ZonePlacesJoin
<1>3. DOMAIN s = 1..Len(s) /\ DOMAIN r = 1..Len(r)
  BY <1>2
<1>4. /\ \A i \in DOMAIN s : i \in DOMAIN r /\ r[i] = s[i]
      /\ \A i \in DOMAIN r : r[i].kind # "mode" => i \in DOMAIN s
  <2>1. ASSUME NEW i \in DOMAIN r, r[i].kind # "mode"
        PROVE  i \in DOMAIN s
    <3>1. i <= Len(s)
      BY <1>2, <1>3, <2>1 DEF ZoneKinds
    <3> QED
      BY <1>2, <1>3, <3>1
  <2> QED
    BY <1>2, <1>3, <2>1
<1>5. {i \in DOMAIN r : r[i].kind = "boost" /\ r[i].t <= t} =
        {i \in DOMAIN s : s[i].kind = "boost" /\ s[i].t <= t}
  BY <1>4
<1>6. {i \in DOMAIN r : r[i].kind = "restore" /\ r[i].t < t} =
        {i \in DOMAIN s : s[i].kind = "restore" /\ s[i].t < t}
  BY <1>4
<1> QED
  BY <1>1, <1>5, <1>6 DEF Zone!Owned

\* The mode rule leaves its modes unowned.
LEMMA ZoneModesAdded ==
  ASSUME zone_actions \in Seq(ZoneAction), NEW K, ZoneKinds(zone_actions, K), "mode" \notin K,
         NEW u \in Seq(ZoneFreeModes)
  PROVE  ZoneModesUnowned(zone_actions \o u)
<1>1. PICK r : r = zone_actions \o u
  OBVIOUS
<1>2. u \in Seq(ZoneAction) /\ ZoneKinds(u, {"mode"})
        /\ \A i \in 1..Len(u) : ~Zone!Owned(zone_actions, u[i].t)
  BY ZoneModesPlain
<1>3. /\ Len(zone_actions) \in Nat /\ Len(r) = Len(zone_actions) + Len(u) /\ Len(u) \in Nat
           /\ r \in Seq(ZoneAction)
      /\ \A i \in 1..Len(zone_actions) : r[i] = zone_actions[i]
      /\ \A i \in 1..Len(r) : ~(i <= Len(zone_actions))
           => i - Len(zone_actions) \in 1..Len(u) /\ r[i] = u[i - Len(zone_actions)]
  BY <1>1, <1>2, ZonePlacesJoin
<1>4. ASSUME NEW j \in DOMAIN r, r[j].kind = "mode"
      PROVE  ~Zone!Owned(r, r[j].t)
  <2>1. j \in 1..Len(r)
    BY <1>3
  <2>2. ~(j <= Len(zone_actions))
    <3> SUFFICES ASSUME j <= Len(zone_actions) PROVE FALSE
      OBVIOUS
    <3>1. j \in 1..Len(zone_actions)
      BY <1>3, <2>1
    <3> QED
      BY <1>3, <1>4, <3>1 DEF ZoneKinds
  <2>3. ~Zone!Owned(zone_actions, r[j].t)
    BY <1>2, <1>3, <2>1, <2>2
  <2> QED
    BY <1>1, <1>2, <2>3, ZoneOwnedStill
<1> QED
  BY <1>1, <1>4 DEF ZoneModesUnowned

\* Before the guardrail, at most one rule has boosted.
ZoneEarly == {"battery", "preheat"}
ZoneCalm == {"boost", "restore", "quiet"}

\* A rule that boosts leaves what is asked for sound, and asks for nothing else.
LEMMA ZoneBoostAdded ==
  ASSUME zone_trace \in Zone!Traces, ZoneSound(zone_actions), NEW h \in Zone!Slots,
         NEW n \in Nat \ {0}, h + n \in Zone!Instants,
         NEW offset \in Int, NEW owner \in ZoneOwners, Zone!Allowed(h), Zone!Overheated
           => Zone!MinimumComfort,
         NEW W, ZoneBoostsOf(zone_actions, W), owner \notin W, ZoneKinds(zone_actions, ZoneCalm)
  PROVE  /\ ZoneSound(zone_actions \o Zone!Boost(h, n, offset, owner))
         /\ ZoneBoostsOf(zone_actions \o Zone!Boost(h, n, offset, owner), W \cup {owner})
         /\ ZoneKinds(zone_actions \o Zone!Boost(h, n, offset, owner), ZoneCalm)
<1>1. PICK u : u = Zone!Boost(h, n, offset, owner)
  OBVIOUS
<1>2. u \in Seq(ZoneAction) /\ zone_actions \in Seq(ZoneAction)
  BY <1>1, ZoneBoostIs DEF ZoneSound
<1>3. ZoneSound(zone_actions \o u) /\ ZoneBoostsOf(zone_actions \o u, W \cup {owner})
        /\ ZoneKinds(u, {"boost", "restore"})
  BY <1>1, ZoneBoostSound
<1>4. ZoneKinds(zone_actions \o u, ZoneCalm \cup {"boost", "restore"})
  BY <1>2, <1>3, ZoneKindsJoin
<1>5. ZoneCalm \cup {"boost", "restore"} = ZoneCalm
  BY DEF ZoneCalm
<1> QED
  BY <1>1, <1>3, <1>4, <1>5

\* Preheating or banking keeps the invariant.
LEMMA ZonePreheatKept ==
  ASSUME ZoneIInv, Zone!Preheat
  PROVE  ZoneIInv'
<1>1. zone_trace \in Zone!Traces /\ zone_actions = <<>> /\ ZoneSound(zone_actions)
        /\ zone_at' = "peaks" /\ zone_trace' = zone_trace
  BY DEF ZoneIInv, Zone!Preheat
<1>2. PICK s : s = zone_actions'
  OBVIOUS
<1>3. SUFFICES ZoneSound(s) /\ ZoneBoostsOf(s, ZoneEarly) /\ ZoneKinds(s, ZoneCalm)
  <2>1. ASSUME ZoneSound(s) PROVE ZoneSound(zone_actions)'
    BY <1>1, <1>2, <2>1, ZoneSoundStill
  <2>2. ASSUME ZoneBoostsOf(s, ZoneEarly), ZoneKinds(s, ZoneCalm)
        PROVE  ZoneBoostsOf(zone_actions, ZoneEarly)' /\ ZoneKinds(zone_actions, ZoneCalm)'
    BY <1>2, <2>2 DEF ZoneBoostsOf, ZoneKinds, ZoneEarly, ZoneCalm
  <2>3. (zone_trace \in Zone!Traces)'
    BY <1>1 DEF Zone!Traces
  <2> QED
    BY <1>1, <2>1, <2>2, <2>3 DEF ZoneIInv, ZoneEarly, ZoneCalm
<1>4. /\ ZoneBoostsOf(zone_actions, {}) /\ ZoneKinds(zone_actions, ZoneCalm)
           /\ zone_actions \in Seq(ZoneAction)
      /\ ZoneBoostsOf(zone_actions, ZoneEarly)
  BY <1>1, ZoneNothingSound DEF ZoneBoostsOf, ZoneSound
<1>5. CASE s = zone_actions
  BY <1>1, <1>4, <1>5
<1>6. CASE \E h \in Zone!Slots, offset \in {1, 2} : Zone!Allowed(h)
             /\ s = zone_actions \o Zone!Boost(h, 1, offset, "battery")
             /\ zone_trace.zone = "usable"
  <2>1. PICK h \in Zone!Slots, offset \in {1, 2} : Zone!Allowed(h)
          /\ s = zone_actions \o Zone!Boost(h, 1, offset, "battery")
          /\ zone_trace.zone = "usable"
    BY <1>6
  <2>2. h + 1 \in Zone!Instants /\ 1 \in Nat \ {0} /\ offset \in Int
          /\ "battery" \in ZoneOwners /\ "battery" \notin {}
    BY ZoneInstantsAre DEF ZoneOwners
  <2>3. Zone!Overheated => Zone!MinimumComfort
    BY <2>1 DEF Zone!Overheated
  <2>4. ZoneSound(s) /\ ZoneBoostsOf(s, {} \cup {"battery"}) /\ ZoneKinds(s, ZoneCalm)
    BY <1>1, <1>4, <2>1, <2>2, <2>3, ZoneBoostAdded
  <2>5. ZoneBoostsOf(s, ZoneEarly)
    BY <2>4 DEF ZoneBoostsOf, ZoneEarly
  <2> QED
    BY <2>4, <2>5
<1>7. CASE \E h \in Zone!Slots : /\ Zone!Allowed(h) /\ h + Zone!Long \in Zone!Instants
                                 /\ s = zone_actions \o Zone!Boost(h, Zone!Long, Zone!Long,
                                                            "preheat") /\ zone_trace.zone =
                                                              "usable"
  <2>1. PICK h \in Zone!Slots : /\ Zone!Allowed(h) /\ h + Zone!Long \in Zone!Instants
                                /\ s = zone_actions \o Zone!Boost(h, Zone!Long, Zone!Long,
                                                            "preheat") /\ zone_trace.zone =
                                                              "usable"
    BY <1>7
  <2>2. PICK n \in Nat \ {0} : n = Zone!Long
    BY <1>1, ZoneLongIs
  <2>3. h + n \in Zone!Instants /\ n \in Int /\ "preheat" \in ZoneOwners /\ "preheat" \notin {}
    BY <2>1, <2>2 DEF ZoneOwners
  <2>4. Zone!Overheated => Zone!MinimumComfort
    BY <2>1 DEF Zone!Overheated
  <2>5. s = zone_actions \o Zone!Boost(h, n, n, "preheat")
    BY <2>1, <2>2
  <2>6. ZoneSound(s) /\ ZoneBoostsOf(s, {} \cup {"preheat"}) /\ ZoneKinds(s, ZoneCalm)
    BY <1>1, <1>4, <2>1, <2>3, <2>4, <2>5, ZoneBoostAdded
  <2>7. ZoneBoostsOf(s, ZoneEarly)
    BY <2>6 DEF ZoneBoostsOf, ZoneEarly
  <2> QED
    BY <2>6, <2>7
<1>8. s = zone_actions \/ (zone_trace.zone = "usable"
                           /\ (s = zone_actions \o Zone!Banked
                               \/ s = zone_actions \o Zone!Preheated))
  BY <1>2 DEF Zone!Preheat
<1>9. zone_actions \o <<>> = zone_actions
  BY <1>4
<1>10. CASE zone_trace.zone = "usable" /\ s = zone_actions \o Zone!Banked
  <2>1. CASE Zone!Banked = <<>>
    BY <1>5, <1>9, <1>10, <2>1
  <2>2. CASE \E h \in Zone!Slots, offset \in {1, 2} : Zone!Allowed(h)
               /\ Zone!Banked = Zone!Boost(h, 1, offset, "battery")
    BY <1>6, <1>10, <2>2
  <2> QED
    BY <1>1, <2>1, <2>2, ZoneBankedIs
<1>11. CASE zone_trace.zone = "usable" /\ s = zone_actions \o Zone!Preheated
  <2>1. CASE Zone!Preheated = <<>>
    BY <1>5, <1>9, <1>11, <2>1
  <2>2. CASE \E h \in Zone!Slots : /\ Zone!Allowed(h) /\ h + Zone!Long \in Zone!Instants
                                   /\ Zone!Preheated = Zone!Boost(h, Zone!Long, Zone!Long,
                                                            "preheat")
    BY <1>7, <1>11, <2>2
  <2> QED
    BY <1>1, <2>1, <2>2, ZonePreheatedIs
<1> QED
  BY <1>5, <1>8, <1>10, <1>11

\* The quiet rules ask for no boost.
LEMMA ZoneQuietKept ==
  ASSUME ZoneIInv, Zone!AvoidPeaks \/ Zone!QuietNights
  PROVE  ZoneIInv'
<1>1. /\ zone_trace \in Zone!Traces /\ ZoneSound(zone_actions) /\ zone_trace' = zone_trace
           /\ zone_at' \in {"quiet", "guard"}
      /\ ZoneBoostsOf(zone_actions, ZoneEarly) /\ ZoneKinds(zone_actions, ZoneCalm)
  BY DEF ZoneIInv, Zone!AvoidPeaks, Zone!QuietNights, ZoneEarly, ZoneCalm
<1>2. zone_actions \in Seq(ZoneAction)
  BY <1>1 DEF ZoneSound
<1>3. PICK u \in Seq(ZoneQuiets) : zone_actions' = zone_actions \o u
  <2>1. CASE Zone!AvoidPeaks
    <3>1. zone_Hours \in Nat /\ zone_Hours \in 0..zone_Hours
      BY ZoneAssumption
    <3>2. Zone!PeakHours[zone_Hours] \in Seq(ZoneQuiets)
      BY <3>1, ZonePeakHoursAre
    <3> QED
      BY <2>1, <3>2 DEF Zone!AvoidPeaks
  <2>2. CASE Zone!QuietNights
    <3>1. PICK v \in Seq(ZoneQuiets), w \in Seq(ZoneQuiets) : v = Zone!QuietNow
            /\ w = Zone!Switches
      BY <1>1, ZoneNightsAre
    <3>2. zone_actions' = (zone_actions \o v) \o w
      BY <2>2, <3>1 DEF Zone!QuietNights
    <3>3. v \in Seq(ZoneAction) /\ w \in Seq(ZoneAction)
      BY ZoneQuietsPlain
    <3>4. (zone_actions \o v) \o w = zone_actions \o (v \o w)
      BY <1>2, <3>3, ConcatAssociative
    <3>5. v \o w \in Seq(ZoneQuiets)
      BY ZoneRangesAre
    <3> QED
      BY <3>2, <3>4, <3>5
  <2> QED
    BY <2>1, <2>2
<1>4. PICK s : s = zone_actions'
  OBVIOUS
<1>5. u \in Seq(ZoneAction) /\ ZoneKinds(u, {"quiet"}) /\ ZoneKinds(u, {"quiet", "mode"})
        /\ ZoneAsksLevels(u)
  BY ZoneQuietsPlain
<1>6. ZoneSound(s) /\ ZoneBoostsOf(s, ZoneEarly)
  BY <1>1, <1>3, <1>4, <1>5, ZonePlainSound
<1>7. ZoneKinds(s, ZoneCalm)
  <2>1. ZoneKinds(s, ZoneCalm \cup {"quiet"})
    BY <1>1, <1>2, <1>3, <1>4, <1>5, ZoneKindsJoin
  <2>2. ZoneCalm \cup {"quiet"} = ZoneCalm
    BY DEF ZoneCalm
  <2> QED
    BY <2>1, <2>2
<1>8. ZoneSound(zone_actions)'
  BY <1>1, <1>4, <1>6, ZoneSoundStill
<1>9. ZoneBoostsOf(zone_actions, ZoneEarly)' /\ ZoneKinds(zone_actions, ZoneCalm)'
  BY <1>4, <1>6, <1>7 DEF ZoneBoostsOf, ZoneKinds, ZoneEarly, ZoneCalm
<1>10. (zone_trace \in Zone!Traces)'
  BY <1>1 DEF Zone!Traces
<1> QED
  BY <1>1, <1>8, <1>9, <1>10 DEF ZoneIInv, ZoneEarly, ZoneCalm

\* The guardrail boosts once more.
LEMMA ZoneGuardKept ==
  ASSUME ZoneIInv, Zone!Guard
  PROVE  ZoneIInv'
<1>1. /\ zone_trace \in Zone!Traces /\ ZoneSound(zone_actions) /\ zone_trace' = zone_trace
           /\ zone_at' = "modes"
      /\ ZoneBoostsOf(zone_actions, ZoneEarly) /\ ZoneKinds(zone_actions, ZoneCalm)
  BY DEF ZoneIInv, Zone!Guard, ZoneEarly, ZoneCalm
<1>2. PICK s : s = zone_actions'
  OBVIOUS
<1>3. SUFFICES ZoneSound(s) /\ ZoneKinds(s, ZoneCalm)
  <2>1. ASSUME ZoneSound(s) PROVE ZoneSound(zone_actions)'
    BY <1>1, <1>2, <2>1, ZoneSoundStill
  <2>2. ASSUME ZoneKinds(s, ZoneCalm) PROVE ZoneKinds(zone_actions, ZoneCalm)'
    BY <1>2, <2>2 DEF ZoneKinds, ZoneCalm
  <2>3. (zone_trace \in Zone!Traces)'
    BY <1>1 DEF Zone!Traces
  <2> QED
    BY <1>1, <2>1, <2>2, <2>3 DEF ZoneIInv, ZoneCalm
<1>4. zone_actions \in Seq(ZoneAction)
  BY <1>1 DEF ZoneSound
<1>5. CASE s = zone_actions
  BY <1>1, <1>5
<1>6. zone_trace.zone = "usable" \/ Zone!MinimumComfort
        => (Zone!Overheated => Zone!MinimumComfort)
  BY DEF Zone!Overheated
<1>7. \/ s = zone_actions
      \/ /\ Zone!Overheated => Zone!MinimumComfort
         /\ \/ Zone!ColdComfort # {} /\ s = zone_actions \o Zone!Guarded
            \/ Zone!CoolsNow /\ s = zone_actions \o Zone!Boost(0, 1, 2, "cooling")
  <2>1. zone_actions \o <<>> = zone_actions
    BY <1>4
  <2> HIDE DEF Zone!Overheated, Zone!MinimumComfort
  <2> QED
    BY <1>2, <1>6, <2>1 DEF Zone!Guard
<1>8. CASE (Zone!Overheated => Zone!MinimumComfort) /\ Zone!ColdComfort # {}
             /\ s = zone_actions \o Zone!Guarded
  <2>1. PICK h \in Zone!Slots, offset \in {1, 2} : /\ Zone!Allowed(h)
                                                        /\ h + Zone!Long \in Zone!Instants
                                                   /\ Zone!Guarded = Zone!Boost(h, Zone!Long,
                                                            offset, "guardrail")
    BY <1>1, <1>8, ZoneGuardedIs
  <2>2. PICK n \in Nat \ {0} : n = Zone!Long
    BY <1>1, ZoneLongIs
  <2>3. h + n \in Zone!Instants /\ offset \in Int /\ "guardrail" \in ZoneOwners
          /\ "guardrail" \notin ZoneEarly
    BY <2>1, <2>2 DEF ZoneOwners, ZoneEarly
  <2>4. s = zone_actions \o Zone!Boost(h, n, offset, "guardrail")
    BY <1>8, <2>1, <2>2
  <2> QED
    BY <1>1, <1>8, <2>1, <2>3, <2>4, ZoneBoostAdded
<1>9. CASE (Zone!Overheated => Zone!MinimumComfort) /\ Zone!CoolsNow
             /\ s = zone_actions \o Zone!Boost(0, 1, 2, "cooling")
  <2>1. PICK h \in Zone!Slots : h = 0
    BY ZoneInstantsAre
  <2>2. h + 1 \in Zone!Instants /\ 1 \in Nat \ {0} /\ 2 \in Int /\ "cooling" \in ZoneOwners
          /\ "cooling" \notin ZoneEarly
    BY ZoneInstantsAre DEF ZoneOwners, ZoneEarly
  <2>3. Zone!Allowed(h) /\ s = zone_actions \o Zone!Boost(h, 1, 2, "cooling")
    BY <1>9, <2>1 DEF Zone!CoolsNow
  <2> QED
    BY <1>1, <1>9, <2>2, <2>3, ZoneBoostAdded
<1> QED
  BY <1>5, <1>7, <1>8, <1>9

\* The mode rule writes while no boost owns the zone.
LEMMA ZoneModesKept ==
  ASSUME ZoneIInv, Zone!Modes
  PROVE  ZoneIInv'
<1>1. /\ zone_trace \in Zone!Traces /\ ZoneSound(zone_actions) /\ zone_trace' = zone_trace
           /\ zone_at' = "normalise"
      /\ ZoneKinds(zone_actions, ZoneCalm)
  BY DEF ZoneIInv, Zone!Modes, ZoneCalm
<1>2. zone_actions \in Seq(ZoneAction)
  BY <1>1 DEF ZoneSound
<1>3. PICK u \in Seq(ZoneFreeModes) : zone_actions' = zone_actions \o u
  <2>1. zone_Hours \in Nat /\ zone_Hours \in 0..zone_Hours
    BY ZoneAssumption
  <2>2. Zone!ModeHours[zone_Hours] \in Seq(ZoneFreeModes)
    BY <2>1, ZoneModeHoursAre
  <2>3. <<>> \in Seq(ZoneFreeModes) /\ zone_actions \o <<>> = zone_actions
    BY <1>2
  <2>4. zone_actions' = zone_actions \o Zone!ModeHours[zone_Hours]
          \/ zone_actions' = zone_actions
    BY DEF Zone!Modes
  <2> QED
    BY <2>2, <2>3, <2>4
<1>4. PICK s : s = zone_actions'
  OBVIOUS
<1>5. u \in Seq(ZoneAction) /\ ZoneKinds(u, {"quiet", "mode"}) /\ ZoneAsksLevels(u)
  BY ZoneModesPlain
<1>6. ZoneSound(s)
  BY <1>1, <1>3, <1>4, <1>5, ZonePlainSound
<1>7. ZoneModesUnowned(s)
  <2>1. "mode" \notin ZoneCalm
    BY DEF ZoneCalm
  <2> QED
    BY <1>1, <1>2, <1>3, <1>4, <2>1, ZoneModesAdded
<1>8. ZoneSound(zone_actions)'
  BY <1>1, <1>4, <1>6, ZoneSoundStill
<1>9. ZoneModesUnowned(zone_actions)'
  BY <1>4, <1>7 DEF ZoneModesUnowned, Zone!Owned
<1>10. (zone_trace \in Zone!Traces)'
  BY <1>1 DEF Zone!Traces
<1> QED
  BY <1>1, <1>8, <1>9, <1>10 DEF ZoneIInv

\* Normalisation plans what was asked for.
LEMMA ZoneNormaliseKept ==
  ASSUME ZoneIInv, Zone!Normalise
  PROVE  ZoneIInv'
<1>1. /\ zone_trace \in Zone!Traces /\ ZoneSound(zone_actions) /\ zone_trace' = zone_trace
           /\ zone_at' = "done"
      /\ zone_actions' = zone_actions /\ zone_plan' = ZoneNormalised(zone_actions)
           /\ ZoneModesUnowned(zone_actions)
  BY DEF ZoneIInv, Zone!Normalise, ZoneNormalised, ZoneKeptOf
<1>2. ZoneSound(zone_actions)'
  BY <1>1, ZoneSoundStill
<1>3. ZoneModesUnowned(zone_actions)'
  BY <1>1 DEF ZoneModesUnowned, Zone!Owned
<1>4. (zone_trace \in Zone!Traces)'
  BY <1>1 DEF Zone!Traces
<1>5. zone_plan' = ZoneNormalised(zone_actions)'
  BY <1>1, ZoneNormalisedStill
<1> QED
  BY <1>1, <1>2, <1>3, <1>4, <1>5 DEF ZoneIInv

\* No step leaves the invariant.
LEMMA ZoneInvariantKept ==
  ASSUME ZoneIInv, [Zone!Next]_zoneVars
  PROVE  ZoneIInv'
<1>1. CASE UNCHANGED zoneVars
  <2>1. zone_trace' = zone_trace /\ zone_at' = zone_at /\ zone_actions' = zone_actions
          /\ zone_plan' = zone_plan
    BY <1>1 DEF zoneVars
  <2>2. /\ zone_trace \in Zone!Traces /\ ZoneSound(zone_actions)
        /\ zone_at \in {"preheat", "peaks", "quiet", "guard", "modes", "normalise", "done"}
    BY DEF ZoneIInv
  <2>3. ZoneSound(zone_actions)'
    BY <2>1, <2>2, ZoneSoundStill
  <2>4. (zone_trace \in Zone!Traces)'
    BY <2>1, <2>2 DEF Zone!Traces
  <2>5. ZoneModesUnowned(zone_actions)' <=> ZoneModesUnowned(zone_actions)
    BY <2>1 DEF ZoneModesUnowned, Zone!Owned
  <2>6. \A W : ZoneBoostsOf(zone_actions, W)' <=> ZoneBoostsOf(zone_actions, W)
    BY <2>1 DEF ZoneBoostsOf
  <2>7. \A K : ZoneKinds(zone_actions, K)' <=> ZoneKinds(zone_actions, K)
    BY <2>1 DEF ZoneKinds
  <2>8. ZoneNormalised(zone_actions)' = ZoneNormalised(zone_actions)
    BY <2>1, ZoneNormalisedStill
  <2>9. zone_at' = "preheat" => zone_actions' = <<>>
    BY <2>1 DEF ZoneIInv
  <2>10. zone_at' \in {"peaks", "quiet", "guard"}
           => ZoneBoostsOf(zone_actions, {"battery", "preheat"})'
    BY <2>1, <2>6 DEF ZoneIInv
  <2>11. zone_at' \in {"peaks", "quiet", "guard", "modes"}
           => ZoneKinds(zone_actions, {"boost", "restore", "quiet"})'
    BY <2>1, <2>7 DEF ZoneIInv
  <2>12. zone_at' \in {"normalise", "done"} => ZoneModesUnowned(zone_actions)'
    BY <2>1, <2>5 DEF ZoneIInv
  <2>13. zone_at' = "done" => zone_plan' = ZoneNormalised(zone_actions)'
    BY <2>1, <2>8 DEF ZoneIInv
  <2> QED
    BY <2>1, <2>2, <2>3, <2>4, <2>9, <2>10, <2>11, <2>12, <2>13 DEF ZoneIInv
<1> QED
  BY <1>1, ZonePreheatKept, ZoneQuietKept, ZoneGuardKept, ZoneModesKept,
     ZoneNormaliseKept DEF Zone!Next

\* What is sound takes each boost back once.
LEMMA ZoneSoundWorks ==
  ASSUME ZoneSound(zone_actions)
  PROVE  Zone!BoostsCanWork
<1>1. /\ zone_actions \in Seq(ZoneAction) /\ ZonePaired(zone_actions)
           /\ ZoneWorkable(zone_actions)
      /\ DOMAIN zone_actions = 1..Len(zone_actions)
  BY DEF ZoneSound
<1>2. SUFFICES ASSUME NEW i \in 1..Len(zone_actions), zone_actions[i].kind = "boost"
               PROVE  Cardinality({j \in 1..Len(zone_actions) :
                                     ZoneRestores(zone_actions, i, j)}) = 1
  BY <1>1, ZoneCardinalityIs DEF Zone!BoostsCanWork, ZoneWorkable, ZoneRestores
<1>3. i + 1 \in 1..Len(zone_actions) /\ ZoneRestores(zone_actions, i, i + 1)
  BY <1>1, <1>2 DEF ZonePaired
<1>4. ASSUME NEW j \in 1..Len(zone_actions), ZoneRestores(zone_actions, i, j)
      PROVE  j = i + 1
  <2>1. zone_actions[j].kind = "restore" /\ zone_actions[j].owner = zone_actions[i].owner
    BY <1>4 DEF ZoneRestores
  <2>2. j - 1 \in 1..Len(zone_actions) /\ zone_actions[j - 1].kind = "boost"
          /\ zone_actions[j - 1].owner = zone_actions[j].owner
    BY <1>1, <2>1 DEF ZonePaired
  <2>3. j - 1 = i
    BY <1>1, <1>2, <2>1, <2>2 DEF ZonePaired
  <2> QED
    BY <2>3
<1>5. {j \in 1..Len(zone_actions) : ZoneRestores(zone_actions, i, j)} = {i + 1}
  BY <1>3, <1>4
<1> QED
  BY <1>5, FS_Singleton

\* The invariant is what the rules promise.
LEMMA ZoneInvariantWorks ==
  ASSUME ZoneIInv
  PROVE  Zone!RulesCompose /\ Zone!BoostsCanWork
<1>1. ZoneSound(zone_actions)
  BY DEF ZoneIInv
<1>2. zone_actions \in Seq(ZoneAction)
        /\ \A i \in 1..Len(zone_actions) : zone_actions[i].kind = "quiet"
             => zone_actions[i].value \in Int
  BY <1>1 DEF ZoneSound, ZoneAsksLevels
<1>3. Zone!RulesCompose
  <2> SUFFICES ASSUME zone_at = "done" PROVE Zone!RulesCompose
    BY DEF Zone!RulesCompose
  <2>1. /\ \A j \in DOMAIN zone_actions : zone_actions[j].kind = "mode"
             => ~Zone!Owned(zone_actions, zone_actions[j].t)
        /\ zone_plan = Zone!Collapsed(Zone!Ordered(Zone!Picked(zone_actions,
                                                            ZoneKeptOf(zone_actions))))
    BY DEF ZoneIInv, ZoneModesUnowned, ZoneNormalised
  <2>2. /\ \A i \in DOMAIN zone_plan : zone_plan[i].kind = "mode"
             => ~Zone!Owned(zone_plan, zone_plan[i].t)
        /\ Zone!Of(zone_plan, "mode") = Zone!Ordered(Zone!Of(zone_actions, "mode"))
        /\ \A t \in Zone!Instants : Zone!LevelAt(zone_plan, t) = Zone!AskedLevel(t)
        /\ \A i \in DOMAIN zone_plan : zone_plan[i].kind = "quiet"
             => zone_plan[i].value # Zone!Level(zone_plan)[i - 1]
    BY <1>2, <2>1, ZoneComposes
  <2> QED
    BY <2>2 DEF Zone!RulesCompose
<1> QED
  BY <1>1, <1>3, ZoneSoundWorks


\* The invariant of this service, whenever it is the one that acts.
LEMMA ZoneInvariant == CustodySpec => [](custody = "zone" => ZoneIInv)
<1>1. CustodyInit => (custody = "zone" => ZoneIInv)
  BY ZoneInvariantInitially DEF CustodyInit
<1>2. (custody = "zone" => ZoneIInv) /\ [CustodyNext]_custodyVars
        => (custody = "zone" => ZoneIInv)'
  BY ZoneInvariantKept DEF CustodyNext, custodyVars
<1> QED
  BY <1>1, <1>2, PTL DEF CustodySpec

-----------------------------------------------------------------------------
(***************************************************************************)
(* The service that acts keeps the types of its state.                     *)
(***************************************************************************)
THEOREM CustodyTypes ==
  CustodySpec => [](/\ custody = "backup" => Backup!TypeOK
                    /\ custody = "cutover" => Cutover!TypeOK
                    /\ custody = "files" => Artifacts!TypeOK
                    /\ custody = "shutdown" => Shutdown!TypeOK)
<1>1. (custody = "shutdown" => ShutdownIInv) => (custody = "shutdown" => Shutdown!TypeOK)
  BY DEF ShutdownIInv
<1>2. (custody = "backup" => BackupIInv) => (custody = "backup" => Backup!TypeOK)
  BY DEF BackupIInv
<1>3. (custody = "cutover" => CutoverIInv) => (custody = "cutover" => Cutover!TypeOK)
  BY DEF CutoverIInv
<1>4. (custody = "files" => ArtifactsIInv) => (custody = "files" => Artifacts!TypeOK)
  BY DEF ArtifactsIInv
<1> QED
  BY <1>1, <1>2, <1>3, <1>4, ShutdownInvariant, BackupInvariant, CutoverInvariant,
     ArtifactsInvariant, PTL

(***************************************************************************)
(* The client and the engine of a service outlive its jobs, their threads, *)
(* what they undo and the writer of its logs, however often the service is *)
(* cancelled meanwhile (runtime_ownership.py, scheduling.py).              *)
(***************************************************************************)
THEOREM NothingIsCut == CustodySpec => []NothingIsCutOff
<1>1. (custody = "shutdown" => ShutdownIInv) => NothingIsCutOff
  BY ShutdownNothingIsCut DEF NothingIsCutOff
<1> QED
  BY <1>1, ShutdownInvariant, PTL

(***************************************************************************)
(* What is recorded as kept is there in full: the archives of the last     *)
(* success and of the last drill, with one dump at a time (backup_db.sh,   *)
(* backup_status.sql); a complete database through a restore, however it   *)
(* ends (restore_archive.sh); and the file of every committed model, which *)
(* only damage retires (safe_persistence.py, lifecycle.py).                *)
(***************************************************************************)
THEOREM CopiesAreKept == CustodySpec => []VerifiedCopiesAreKept
<1>1. (custody = "backup" => BackupIInv)
        => (custody = "backup" => Backup!RecordedIsKept /\ Backup!OneDump)
  BY BackupKeptArchives, BackupOneIsServed
<1>2. (custody = "cutover" => CutoverIInv) => (custody = "cutover" => Cutover!OriginalIsKept)
  BY CutoverKeptOriginals
<1>3. (custody = "files" => ArtifactsIInv)
        => (custody = "files" => Artifacts!ReferencedFilesStay /\ Artifacts!OnlyDamageRetires)
  BY DEF ArtifactsIInv
<1>4. /\ custody = "backup" => BackupIInv
      /\ custody = "cutover" => CutoverIInv
      /\ custody = "files" => ArtifactsIInv
      => VerifiedCopiesAreKept
  BY <1>1, <1>2, <1>3 DEF VerifiedCopiesAreKept
<1> QED
  BY <1>4, BackupInvariant, CutoverInvariant, ArtifactsInvariant, PTL

(***************************************************************************)
(* A plan that is kept can be carried out: its replay keeps the house as   *)
(* every strategy must, what is forced is released once, and what the      *)
(* solver promises is what the replay finds (represented_strategy.py,      *)
(* milp.py); the five room rules compose, and a boost is placed where the  *)
(* pump may heat and is restored once (rule_mixins.py).                    *)
(***************************************************************************)
THEOREM PlansCanBeCarriedOut == CustodySpec => []PlansAreWorkable
<1>1. (custody = "tank" => TankIInv)
        => (custody = "tank" => Tank!KeptPlansWork /\ Tank!SolverAndReplayAgree)
  BY TankInvariantWorks
<1>2. (custody = "zone" => ZoneIInv)
        => (custody = "zone" => Zone!RulesCompose /\ Zone!BoostsCanWork)
  BY ZoneInvariantWorks
<1>3. (custody = "tank" => TankIInv) /\ (custody = "zone" => ZoneIInv) => PlansAreWorkable
  BY <1>1, <1>2 DEF PlansAreWorkable
<1> QED
  BY <1>3, TankInvariant, ZoneInvariant, PTL

=============================================================================
