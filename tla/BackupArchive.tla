---------------------------- MODULE BackupArchive ----------------------------
(***************************************************************************)
(* Backups of the database (scripts/backup_db.sh), the one row that        *)
(* records them (scripts/backup_status.sql), the drills that restore an    *)
(* archive elsewhere (scripts/restore_drill.py, scripts/stage_backup.sh)   *)
(* and the health that is reported (core/backup_health.py).  One worker    *)
(* per destination, serialised by its lock file; destinations share the    *)
(* row.  A tick is long against the five minutes between attempts.         *)
(***************************************************************************)
EXTENDS Naturals, Sequences, FiniteSets

CONSTANTS Destinations,
          Drills,       \* coordinators of a drill
          Interval,     \* ticks from a success to the next attempt
          Timeout,      \* ticks an attempt may last
          Retention,    \* ticks an archive is kept at least
          Freshness,    \* ticks after which a success is stale
          MaxArchives,  \* bound: attempts that started
          MaxDrills,    \* bound: drills that started
          Horizon       \* bound: ticks

VARIABLES now,
          row,          \* ServiceHeartbeatRecord "backup"
          made,         \* the attempts: when each started, and where
          disk,         \* the files of each attempt's archive
          job,          \* the worker of each destination: [at, id, seen]
          sessions,     \* attempts whose pg_dump is still served
          drill,        \* each coordinator: [at, id, archive]
          drills,       \* drills so far
          restored      \* history: archives restored in full by a drill

files == <<made, disk, job, sessions>>
drilling == <<drill, drills, restored>>
backupVars == <<now, row, made, disk, job, sessions, drill, drills, restored>>

NoId == 0
NoAttempt == [id |-> NoId, status |-> "none", blocked |-> FALSE]
NoCheck == [id |-> NoId, archive |-> NoId, status |-> "none"]
NoRow == [attempt |-> NoAttempt, success |-> NoId, check |-> NoCheck, verified |-> NoId]
Idle == [at |-> "idle", id |-> NoId, seen |-> NoRow]
NoDrill == [at |-> "idle", id |-> NoId, archive |-> NoId]

Contents == {"none", "partial", "published", "whole", "torn"}
Outcomes == {"none", "running", "succeeded", "failed"}
Attempt == [id : Nat, status : Outcomes, blocked : BOOLEAN]
Check == [id : Nat, archive : Nat, status : Outcomes]
Row == [attempt : Attempt, success : Nat, check : Check, verified : Nat]
Job == [at : {"idle", "ready", "started", "dumping", "published", "succeeded", "told", "failing",
              "retaining"},
        id : Nat, seen : Row]
Drill == [at : {"idle", "selected", "started", "staged", "restored", "failed"},
          id : Nat, archive : Nat]

TypeOK == /\ now \in Nat
          /\ row \in Row
          /\ made \in Seq([at : Nat, by : Destinations])
          /\ disk \in [DOMAIN made -> Contents]
          /\ job \in [Destinations -> Job]
          /\ drill \in [Drills -> Drill] /\ drills \in Nat

Init == /\ now = 0
        /\ row = NoRow
        /\ made = <<>>
        /\ disk = <<>>
        /\ job = [d \in Destinations |-> Idle]
        /\ sessions = {}
        /\ drill = [c \in Drills |-> NoDrill]
        /\ drills = 0
        /\ restored = {}

Goes(d, phase) == job' = [job EXCEPT ![d].at = phase]
Rests(d) == job' = [job EXCEPT ![d] = Idle]

-----------------------------------------------------------------------------
\* due, and again the guard of backup_start: the interval since the last
\* success, and no attempt that may still run.
Due ==
    /\ row.success # NoId => made[row.success].at + Interval <= now
    /\ row.attempt.status = "running" => made[row.attempt.id].at + Timeout < now

\* Under the destination's lock: policy, due, fingerprint of the row.
Prepare(d) ==
    /\ job[d].at = "idle"
    /\ Due
    /\ Len(made) < MaxArchives
    /\ job' = [job EXCEPT ![d] = [at |-> "ready", id |-> NoId, seen |-> row]]
    /\ UNCHANGED <<now, row, made, disk, sessions, drilling>>

\* record_status start: the row is as fingerprinted, and the dump of the
\* attempt before has left the server.  The answer may be lost: the row is
\* read again, or the attempt is left running.
Start(d) ==
    /\ job[d].at = "ready"
    /\ IF row = job[d].seen /\ Due /\ Len(made) < MaxArchives
          /\ row.attempt.id \notin sessions
       THEN /\ row' = [row EXCEPT !.attempt =
                         [id |-> Len(made) + 1, status |-> "running", blocked |-> FALSE]]
            /\ made' = Append(made, [at |-> now, by |-> d])
            /\ disk' = Append(disk, "none")
            /\ job' \in {[job EXCEPT ![d] = j] :
                           j \in {[at |-> "started", id |-> Len(made) + 1, seen |-> NoRow], Idle}}
       ELSE Rests(d) /\ UNCHANGED <<row, made, disk>>
    /\ UNCHANGED <<now, sessions, drilling>>

DumpBegins(d) ==
    /\ job[d].at = "started"
    /\ sessions' = sessions \cup {job[d].id}
    /\ disk' = [disk EXCEPT ![job[d].id] = "partial"]
    /\ Goes(d, "dumping")
    /\ UNCHANGED <<now, row, made, drilling>>

\* The archive is listed, its source is unchanged; it is published, then its
\* checksum.
Publish(d) ==
    /\ job[d].at = "dumping"
    /\ sessions' = sessions \ {job[d].id}
    /\ disk' = [disk EXCEPT ![job[d].id] = "published"]
    /\ Goes(d, "published")
    /\ UNCHANGED <<now, row, made, drilling>>

\* After the replica, where one is required; the manifest is published last.
PublishManifest(d) ==
    /\ job[d].at = "published"
    /\ disk' = [disk EXCEPT ![job[d].id] = "whole"]
    /\ Goes(d, "succeeded")
    /\ UNCHANGED <<now, row, made, sessions, drilling>>

MayFinish(id) == row.attempt.id = id /\ row.attempt.status = "running"

Succeeded(id) ==
    [row EXCEPT !.attempt.status = "succeeded", !.success = id]

\* record_status finish, sent twice at most.  Where no answer came the row may
\* have it or not, and the worker says nothing more of the attempt.
Finish(d) ==
    /\ job[d].at = "succeeded"
    /\ \/ /\ MayFinish(job[d].id)
          /\ row' = Succeeded(job[d].id)
          /\ job' \in {[job EXCEPT ![d].at = "told"], [job EXCEPT ![d] = Idle]}
       \/ UNCHANGED row /\ Rests(d)
    /\ UNCHANGED <<now, made, disk, sessions, drilling>>

\* Any step of an attempt fails or exceeds its time.
Fail(d) ==
    /\ job[d].at \in {"started", "dumping", "published"}
    /\ Goes(d, "failing")
    /\ UNCHANGED <<now, row, made, disk, sessions, drilling>>

\* settle_source, the report of the failure, cleanup_scratch.  A session that
\* does not end leaves the attempt running.
Settle(d) ==
    /\ job[d].at = "failing"
    /\ LET id == job[d].id IN
         /\ \/ /\ sessions' = sessions \ {id}
               /\ row' \in {row, IF MayFinish(id) THEN [row EXCEPT !.attempt.status = "failed"]
                                 ELSE row}
            \/ id \in sessions /\ UNCHANGED <<row, sessions>>
         /\ disk' = [disk EXCEPT ![id] = IF @ = "partial" THEN "none" ELSE @]
    /\ Rests(d)
    /\ UNCHANGED <<now, made, drilling>>

Crash(d) ==
    /\ job[d].at \notin {"idle", "ready"}
    /\ Rests(d)
    /\ UNCHANGED <<now, row, made, disk, sessions, drilling>>

\* The server ends the query of a client that is gone.
SessionEnds(id) ==
    /\ id \in sessions
    /\ \A d \in Destinations : job[d].at \in {"dumping", "failing"} => job[d].id # id
    /\ sessions' = sessions \ {id}
    /\ UNCHANGED <<now, row, made, disk, job, drilling>>

-----------------------------------------------------------------------------
At(d) == {id \in DOMAIN made : made[id].by = d}
Whole(id) == id \in DOMAIN disk /\ disk[id] = "whole"

\* retain's query and inventory: both bindings are proven and present, and
\* nothing else looks like an archive.
Proven(d) ==
    /\ row.verified # NoId
    /\ row.check.status = "succeeded" /\ row.check.archive = row.verified
    /\ {row.success, row.verified} \subseteq {id \in At(d) : Whole(id)}
    /\ \A id \in At(d) : disk[id] \notin {"published", "torn"}

\* A blocked retention is a diagnostic on the attempt; preserve mode skips it.
Prove(d) ==
    /\ job[d].at = "told"
    /\ \/ Proven(d) /\ job' = [job EXCEPT ![d].at = "retaining", ![d].seen = row] /\ UNCHANGED row
       \/ /\ ~Proven(d)
          /\ row' = IF row.attempt.id = job[d].id THEN [row EXCEPT !.attempt.blocked = TRUE]
                    ELSE row
          /\ Rests(d)
       \/ Rests(d) /\ UNCHANGED row
    /\ UNCHANGED <<now, made, disk, sessions, drilling>>

Newest(d) == CHOOSE id \in {i \in At(d) : Whole(i)} :
                 \A other \in {i \in At(d) : Whole(i)} : made[id].at >= made[other].at

Expired(d) == {id \in At(d) : Whole(id) /\ made[id].at + Retention < now}

\* retain's loop, which a failed rm or a crash may leave early.
RemoveAll(d, keep) ==
    /\ job[d].at = "retaining"
    /\ \E gone \in SUBSET (Expired(d) \ keep), torn \in BOOLEAN :
         /\ Cardinality({id \in At(d) : Whole(id)}) - Cardinality(gone) >= 2
         /\ disk' = [id \in DOMAIN disk |->
                       IF id \notin gone THEN disk[id]
                       ELSE IF torn /\ \A other \in gone : other <= id THEN "torn" ELSE "none"]
    /\ Rests(d)
    /\ UNCHANGED <<now, row, made, sessions, drilling>>

RemoveVerified(d) == RemoveAll(d, {job[d].seen.success, Newest(d)})

Remove(d) == RemoveAll(d, {job[d].seen.success, job[d].seen.verified, Newest(d)})

-----------------------------------------------------------------------------
\* Coordinator.execute: the last success is read, the start is reported.
Select(c) ==
    /\ drill[c].at = "idle"
    /\ row.success # NoId
    /\ drills < MaxDrills
    /\ drills' = drills + 1
    /\ drill' = [drill EXCEPT ![c] =
                   [at |-> "selected", id |-> drills + 1, archive |-> row.success]]
    /\ UNCHANGED <<now, row, files, restored>>

ReportStart(c) ==
    /\ drill[c].at = "selected"
    /\ row' = [row EXCEPT !.check = [id |-> drill[c].id, archive |-> drill[c].archive,
                                     status |-> "running"]]
    /\ drill' \in {[drill EXCEPT ![c].at = "started"], [drill EXCEPT ![c] = NoDrill]}
    /\ UNCHANGED <<now, files, drills, restored>>

\* stage_backup.sh: under the destination's lock the last success is selected
\* again, checked and copied; another archive than the reported one fails.
Stage(c, d) ==
    /\ drill[c].at = "started"
    /\ job[d].at = "idle"
    /\ drill' = [drill EXCEPT ![c].at =
                   IF row.success = drill[c].archive /\ row.success \in At(d) /\ Whole(row.success)
                   THEN "staged" ELSE "failed"]
    /\ UNCHANGED <<now, row, files, drills, restored>>

Restore(c) ==
    /\ drill[c].at = "staged"
    /\ \/ /\ drill' = [drill EXCEPT ![c].at = "restored"]
          /\ restored' = restored \cup {drill[c].archive}
       \/ drill' = [drill EXCEPT ![c].at = "failed"] /\ UNCHANGED restored
    /\ UNCHANGED <<now, row, files, drills>>

\* After cleanup, which may fail and then fails the drill; the report of a
\* drill that is not the recorded one is rejected, and any may be lost.
Report(c) ==
    /\ drill[c].at \in {"restored", "failed"}
    /\ drill' = [drill EXCEPT ![c] = NoDrill]
    /\ \/ UNCHANGED row
       \/ /\ row.check.id = drill[c].id
          /\ \/ /\ drill[c].at = "restored"
                /\ row' = [row EXCEPT !.check.status = "succeeded", !.verified = drill[c].archive]
             \/ row' = [row EXCEPT !.check.status = "failed"]
    /\ UNCHANGED <<now, files, drills, restored>>

\* The bounds of an attempt, and of what it reports, hold a worker to its time.
Tick ==
    /\ now < Horizon
    /\ \A d \in Destinations :
         job[d].id # NoId => now < made[job[d].id].at + Timeout
    /\ now' = now + 1
    /\ UNCHANGED <<row, files, drilling>>

Next == \/ \E d \in Destinations :
             \/ Prepare(d) \/ Start(d) \/ DumpBegins(d) \/ Publish(d) \/ PublishManifest(d)
             \/ Finish(d) \/ Fail(d) \/ Settle(d) \/ Crash(d) \/ Prove(d) \/ Remove(d)
        \/ \E id \in sessions : SessionEnds(id)
        \/ \E c \in Drills : \/ Select(c) \/ ReportStart(c) \/ Restore(c) \/ Report(c)
                             \/ \E d \in Destinations : Stage(c, d)
        \/ Tick

Spec == Init /\ [][Next]_backupVars

-----------------------------------------------------------------------------
\* project_backup_health: nothing but an optional replica's failure is left.
Ready ==
    /\ row.success # NoId /\ now - made[row.success].at < Freshness
    /\ \/ row.attempt.status = "succeeded"
       \/ row.attempt.status = "running" /\ now <= made[row.attempt.id].at + Timeout
    /\ ~row.attempt.blocked
    /\ row.verified # NoId /\ row.check.status = "succeeded"
    /\ row.check.archive = row.verified

(***************************************************************************)
(* The archives that the row calls the last success and the last verified  *)
(* are on disk in full: neither retention with an old reading of the row,  *)
(* nor a lost answer, nor a drill that ends late breaks this.  Reported    *)
(* health therefore means a recent archive, and one that a drill restored. *)
(***************************************************************************)
RecordedIsKept ==
    /\ \A id \in {row.success, row.verified} \ {NoId} : Whole(id)
    /\ row.verified # NoId => row.verified \in restored
    /\ Ready => \E id \in DOMAIN made : Whole(id) /\ now - made[id].at < Freshness

(***************************************************************************)
(* The database serves one dump at a time, whatever was killed, lost or    *)
(* started at another destination (backup_status.sql:173, "Old server-side *)
(* dump activity must have settled, even across destinations").            *)
(***************************************************************************)
OneDump == Cardinality(sessions) <= 1
=============================================================================
