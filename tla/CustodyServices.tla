------------------------- MODULE CustodyServices --------------------------
(***************************************************************************)
(* The services that keep, replace and dispose of what others rely on: the *)
(* backups, the cutover of a restored database, the files of the models,   *)
(* the teardown of the services that use them, and the planners, which     *)
(* keep a plan or refuse it. As in AccountServices a behaviour is one of   *)
(* them, which "custody" names.                                            *)
(***************************************************************************)
EXTENDS Integers, FiniteSets

CONSTANTS
  backup_Destinations, backup_Drills, backup_MaxDrills, backup_MaxArchives,
  backup_Horizon, backup_Interval, backup_Timeout, backup_Retention,
  backup_Freshness, cutover_Runs, cutover_Absent, files_Workers, files_Files,
  files_Attempts, files_Grace, files_Retention, files_Longest, files_MaxFits,
  files_MaxFaults, files_Horizon, files_None, shutdown_Jobs, shutdown_Fit,
  shutdown_MaxSignals, shutdown_MaxRuns, tank_Hours, tank_Midnight,
  tank_Prices, tank_Tanks, tank_Rooms, tank_Rates, tank_Natives,
  tank_Comforts, zone_PriceCurves, zone_Weathers, zone_Gates, zone_Forecasts,
  zone_Lows, zone_Rooms, zone_Comforts, zone_Zones, zone_Headrooms,
  zone_Statuses, zone_Nights, zone_Levels, zone_Needs, zone_Hours, zone_Day,
  zone_PreheatBack, zone_GuardBack, zone_Ahead, zone_None

VARIABLE custody  \* the service that acts, or "none"
VARIABLES backup_now, backup_row, backup_made, backup_disk, backup_job,
          backup_sessions, backup_drill, backup_drills, backup_restored
VARIABLES cutover_databases, cutover_restoring, cutover_step, cutover_known,
          cutover_writers, cutover_told
VARIABLES files_now, files_mounted, files_disk, files_durable, files_written,
          files_rows, files_issues, files_checks, files_lease, files_worker,
          files_faults, files_hurt, files_retired
VARIABLES shutdown_kind, shutdown_main, shutdown_cleanup, shutdown_job,
          shutdown_thread, shutdown_closing, shutdown_pending,
          shutdown_wrapper, shutdown_engine, shutdown_logs, shutdown_writing,
          shutdown_runs, shutdown_signals
VARIABLES tank_trace, tank_engine, tank_at, tank_done, tank_commands
VARIABLES zone_trace, zone_at, zone_actions, zone_plan

backupVars ==
  <<backup_now, backup_row, backup_made, backup_disk, backup_job,
    backup_sessions, backup_drill, backup_drills, backup_restored>>
Backup == INSTANCE BackupArchive WITH
  now <- backup_now, row <- backup_row, made <- backup_made,
  disk <- backup_disk, job <- backup_job, sessions <- backup_sessions,
  drill <- backup_drill, drills <- backup_drills, restored <- backup_restored,
  Destinations <- backup_Destinations, Drills <- backup_Drills,
  MaxDrills <- backup_MaxDrills, MaxArchives <- backup_MaxArchives,
  Horizon <- backup_Horizon, Interval <- backup_Interval,
  Timeout <- backup_Timeout, Retention <- backup_Retention,
  Freshness <- backup_Freshness

ASSUME BackupAssumption ==
  /\ backup_Interval \in Nat /\ backup_Timeout \in Nat /\ backup_Retention \in Nat
  /\ backup_Freshness \in Nat /\ backup_MaxArchives \in Nat
  /\ backup_MaxDrills \in Nat /\ backup_Horizon \in Nat

cutoverVars ==
  <<cutover_databases, cutover_restoring, cutover_step, cutover_known,
    cutover_writers, cutover_told>>
Cutover == INSTANCE DatabaseCutover WITH
  databases <- cutover_databases, restoring <- cutover_restoring,
  step <- cutover_step, known <- cutover_known, writers <- cutover_writers,
  told <- cutover_told, Runs <- cutover_Runs, Absent <- cutover_Absent

\* Runs are numbered from one, and no database is the absence of one.
ASSUME CutoverAssumption ==
  cutover_Runs \subseteq Nat \ {0} /\ cutover_Absent \notin Cutover!Database

filesVars ==
  <<files_now, files_mounted, files_disk, files_durable, files_written,
    files_rows, files_issues, files_checks, files_lease, files_worker,
    files_faults, files_hurt, files_retired>>
Artifacts == INSTANCE ArtifactStore WITH
  now <- files_now, mounted <- files_mounted, disk <- files_disk,
  durable <- files_durable, written <- files_written, rows <- files_rows,
  issues <- files_issues, checks <- files_checks, lease <- files_lease,
  worker <- files_worker, faults <- files_faults, hurt <- files_hurt,
  retired <- files_retired, Workers <- files_Workers, Files <- files_Files,
  Attempts <- files_Attempts, Grace <- files_Grace,
  Retention <- files_Retention, Longest <- files_Longest,
  MaxFits <- files_MaxFits, MaxFaults <- files_MaxFaults,
  Horizon <- files_Horizon, None <- files_None

ASSUME ArtifactsAssumption ==
  /\ files_Attempts \in Nat /\ files_Attempts >= 1
  /\ files_Grace \in Nat /\ files_Retention \in Nat /\ files_Longest \in Nat
  /\ files_MaxFits \in Nat /\ files_MaxFaults \in Nat /\ files_Horizon \in Nat

shutdownVars ==
  <<shutdown_kind, shutdown_main, shutdown_cleanup, shutdown_job,
    shutdown_thread, shutdown_closing, shutdown_pending, shutdown_wrapper,
    shutdown_engine, shutdown_logs, shutdown_writing, shutdown_runs,
    shutdown_signals>>
Shutdown == INSTANCE ServiceShutdown WITH
  kind <- shutdown_kind, main <- shutdown_main, cleanup <- shutdown_cleanup,
  job <- shutdown_job, thread <- shutdown_thread, closing <- shutdown_closing,
  pending <- shutdown_pending, wrapper <- shutdown_wrapper,
  engine <- shutdown_engine, logs <- shutdown_logs,
  writing <- shutdown_writing, runs <- shutdown_runs,
  signals <- shutdown_signals, Jobs <- shutdown_Jobs, Fit <- shutdown_Fit,
  MaxSignals <- shutdown_MaxSignals, MaxRuns <- shutdown_MaxRuns

ASSUME ShutdownAssumption == shutdown_MaxSignals \in Nat /\ shutdown_MaxRuns \in Nat

tankVars ==
  <<tank_trace, tank_engine, tank_at, tank_done, tank_commands>>
Tank == INSTANCE TankPlan WITH
  trace <- tank_trace, engine <- tank_engine, at <- tank_at,
  done <- tank_done, commands <- tank_commands, Hours <- tank_Hours,
  Midnight <- tank_Midnight, Prices <- tank_Prices, Tanks <- tank_Tanks,
  Rooms <- tank_Rooms, Rates <- tank_Rates, Natives <- tank_Natives,
  Comforts <- tank_Comforts

ASSUME TankAssumption ==
  /\ tank_Hours \in Nat \ {0}
  /\ tank_Tanks \subseteq Int /\ tank_Rooms \subseteq Int
  /\ tank_Rates \subseteq Nat \ {0}

zoneVars ==
  <<zone_trace, zone_at, zone_actions, zone_plan>>
Zone == INSTANCE ZonePlan WITH
  trace <- zone_trace, at <- zone_at, actions <- zone_actions,
  plan <- zone_plan, PriceCurves <- zone_PriceCurves,
  Weathers <- zone_Weathers, Gates <- zone_Gates, Forecasts <- zone_Forecasts,
  Lows <- zone_Lows, Rooms <- zone_Rooms, Comforts <- zone_Comforts,
  Zones <- zone_Zones, Headrooms <- zone_Headrooms, Statuses <- zone_Statuses,
  Nights <- zone_Nights, Levels <- zone_Levels, Needs <- zone_Needs,
  Hours <- zone_Hours, Day <- zone_Day, PreheatBack <- zone_PreheatBack,
  GuardBack <- zone_GuardBack, Ahead <- zone_Ahead, None <- zone_None

\* A night begins and ends within a day, and no boost lasts longer than one.
ASSUME ZoneAssumption ==
  /\ zone_Hours \in Nat \ {0} /\ zone_Day \in Nat \ {0}
  /\ zone_PriceCurves \subseteq [1..zone_Hours -> Int]
  /\ zone_Headrooms \subseteq Int
  /\ zone_Nights \subseteq (0..(zone_Day - 1)) \X (0..(zone_Day - 1))
  /\ zone_Needs \subseteq 0..zone_Day /\ zone_Ahead \in Nat

custodyVars == <<custody,
                 backupVars, cutoverVars, filesVars, shutdownVars, tankVars, zoneVars>>

CustodySubjects == {"none", "backup", "cutover", "files", "shutdown", "tank", "zone"}

CustodyInit ==
  /\ custody \in CustodySubjects
  /\ IF custody = "backup" THEN Backup!Init
     ELSE backup_now = "absent" /\ backup_row = "absent" /\
          backup_made = "absent" /\ backup_disk = "absent" /\
          backup_job = "absent" /\ backup_sessions = "absent" /\
          backup_drill = "absent" /\ backup_drills = "absent" /\
          backup_restored = "absent"
  /\ IF custody = "cutover" THEN Cutover!Init
     ELSE cutover_databases = "absent" /\ cutover_restoring = "absent" /\
          cutover_step = "absent" /\ cutover_known = "absent" /\
          cutover_writers = "absent" /\ cutover_told = "absent"
  /\ IF custody = "files" THEN Artifacts!Init
     ELSE files_now = "absent" /\ files_mounted = "absent" /\
          files_disk = "absent" /\ files_durable = "absent" /\
          files_written = "absent" /\ files_rows = "absent" /\
          files_issues = "absent" /\ files_checks = "absent" /\
          files_lease = "absent" /\ files_worker = "absent" /\
          files_faults = "absent" /\ files_hurt = "absent" /\
          files_retired = "absent"
  /\ IF custody = "shutdown" THEN Shutdown!Init
     ELSE shutdown_kind = "absent" /\ shutdown_main = "absent" /\
          shutdown_cleanup = "absent" /\ shutdown_job = "absent" /\
          shutdown_thread = "absent" /\ shutdown_closing = "absent" /\
          shutdown_pending = "absent" /\ shutdown_wrapper = "absent" /\
          shutdown_engine = "absent" /\ shutdown_logs = "absent" /\
          shutdown_writing = "absent" /\ shutdown_runs = "absent" /\
          shutdown_signals = "absent"
  /\ IF custody = "tank" THEN Tank!Init
     ELSE tank_trace = "absent" /\ tank_engine = "absent" /\ tank_at = "absent" /\
          tank_done = "absent" /\ tank_commands = "absent"
  /\ IF custody = "zone" THEN Zone!Init
     ELSE zone_trace = "absent" /\ zone_at = "absent" /\ zone_actions = "absent" /\
          zone_plan = "absent"

CustodyNext ==
  /\ UNCHANGED custody
  /\ IF custody = "backup" THEN Backup!Next ELSE UNCHANGED backupVars
  /\ IF custody = "cutover" THEN Cutover!Next ELSE UNCHANGED cutoverVars
  /\ IF custody = "files" THEN Artifacts!Next ELSE UNCHANGED filesVars
  /\ IF custody = "shutdown" THEN Shutdown!Next ELSE UNCHANGED shutdownVars
  /\ IF custody = "tank" THEN Tank!Next ELSE UNCHANGED tankVars
  /\ IF custody = "zone" THEN Zone!Next ELSE UNCHANGED zoneVars

CustodySpec == CustodyInit /\ [][CustodyNext]_custodyVars

-----------------------------------------------------------------------------
(***************************************************************************)
(* What is recorded as kept is there in full: the archives of the last     *)
(* success and of the last drill, with one dump at a time (backup_db.sh,   *)
(* backup_status.sql); a complete database through a restore               *)
(* (restore_archive.sh); and the file of every committed model, which only *)
(* damage retires (safe_persistence.py, lifecycle.py).                     *)
(***************************************************************************)
VerifiedCopiesAreKept ==
  /\ custody = "backup" => Backup!RecordedIsKept /\ Backup!OneDump
  /\ custody = "cutover" => Cutover!OriginalIsKept
  /\ custody = "files" => Artifacts!ReferencedFilesStay /\ Artifacts!OnlyDamageRetires

(***************************************************************************)
(* A plan that is kept can be carried out: the house stays as required,    *)
(* what is forced is released, and the solver agrees with the replay of    *)
(* its commands (represented_strategy.py, milp.py); the five room rules do *)
(* not undo one another and a boost is placed where the pump may heat      *)
(* (rule_mixins.py).                                                       *)
(***************************************************************************)
PlansAreWorkable ==
  /\ custody = "tank" => Tank!KeptPlansWork /\ Tank!SolverAndReplayAgree
  /\ custody = "zone" => Zone!RulesCompose /\ Zone!BoostsCanWork

(***************************************************************************)
(* The client, the log sink and the database engine of a service outlive   *)
(* every job, thread and cleanup that uses them, however often the service *)
(* is told to end (runtime_ownership.py, scheduling.py).                   *)
(***************************************************************************)
NothingIsCutOff ==
  custody = "shutdown" => Shutdown!DisposedWhenUnused

=============================================================================
