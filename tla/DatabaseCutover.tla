--------------------------- MODULE DatabaseCutover ---------------------------
(***************************************************************************)
(* Replacing the live database by one restored from an archive             *)
(* (scripts/restore_db.sh, scripts/restore_archive.sh): a candidate is     *)
(* created, restored, migrated and verified; the live database is renamed  *)
(* and kept, and the candidate takes its name.  A rename may commit and    *)
(* its answer be lost, any command may fail, and the script may be killed. *)
(* The operator starts the writers, and takes a killed run's lock away.    *)
(***************************************************************************)
EXTENDS Naturals

CONSTANTS Runs,         \* runs of restore_db.sh, and rollbacks: numbers from 1
          Absent        \* no database of a name

VARIABLES databases,    \* name |-> what it holds
          restoring,    \* restore_lock: the run that made the directory, or 0
          step,         \* the step of each run
          known,        \* live_renamed, replacement_renamed of each run
          writers,      \* the writers run
          told          \* the operator has been told to rename by hand

cutoverVars == <<databases, restoring, step, known, writers, told>>

Live == <<"live", 0>>
New(r) == <<"new", r>>
Old(r) == <<"old", r>>
Names == {Live} \cup {New(r) : r \in Runs} \cup {Old(r) : r \in Runs}

Holding(what, whole, active) == [of |-> what, whole |-> whole, active |-> active]

Init == /\ databases = [n \in Names |-> IF n = Live THEN Holding(0, TRUE, TRUE) ELSE Absent]
        /\ restoring = 0
        /\ step = [r \in Runs |-> "idle"]
        /\ known = [r \in Runs |-> {}]
        /\ writers = TRUE
        /\ told = FALSE

Steps == {"idle", "locked", "created", "restored", "migrated", "suspended", "vacant", "swapped",
          "swapfailing", "failing", "ended", "done", "killed"}
Database == [of : Runs \cup {0}, whole : BOOLEAN, active : BOOLEAN]

TypeOK == /\ databases \in [Names -> Database \cup {Absent}]
          /\ restoring \in Runs \cup {0}
          /\ step \in [Runs -> Steps]
          /\ known \in [Runs -> SUBSET {"live", "replacement"}]
          /\ writers \in BOOLEAN /\ told \in BOOLEAN

Exists(n) == databases[n] # Absent
Goes(r, to) == step' = [step EXCEPT ![r] = to]

-----------------------------------------------------------------------------
\* The archive is listed and the operator confirms; one run holds the lock,
\* and a running writer ends it.
Begin(r) ==
    /\ step[r] = "idle"
    /\ restoring = 0
    /\ restoring' = r
    /\ Goes(r, IF writers THEN "failing" ELSE "locked")
    /\ UNCHANGED <<databases, known, writers, told>>

\* createdb, the extension, timescaledb_pre_restore.
Create(r) ==
    /\ step[r] = "locked"
    /\ databases' = [databases EXCEPT ![New(r)] = Holding(r, FALSE, TRUE)]
    /\ Goes(r, "created")
    /\ UNCHANGED <<restoring, known, writers, told>>

RestoreAll(r, exact) ==
    /\ step[r] = "created"
    /\ \/ /\ databases' \in {[databases EXCEPT ![New(r)].whole = w] : w \in {TRUE, exact}}
          /\ Goes(r, "restored")
       \/ databases' = [databases EXCEPT ![New(r)] = Absent] /\ Goes(r, "failing")
    /\ UNCHANGED <<restoring, known, writers, told>>

\* pg_restore --exit-on-error, post_restore, verify_database; finish_restore
\* drops the candidate of a failed restore.
Restore(r) == RestoreAll(r, TRUE)

\* The migration to head, its verification, and the writers once more.
Migrate(r) ==
    /\ step[r] = "restored"
    /\ Goes(r, IF writers THEN "failing" ELSE "migrated")
    /\ UNCHANGED <<databases, restoring, known, writers, told>>

\* suspend_workers of both, and every connection is ended.
Suspend(r) ==
    /\ step[r] = "migrated"
    /\ Exists(Live)
    /\ databases' = [databases EXCEPT ![Live].active = FALSE, ![New(r)].active = FALSE]
    /\ Goes(r, "suspended")
    /\ UNCHANGED <<restoring, known, writers, told>>

\* ALTER DATABASE ... RENAME: refused where the name is taken or missing.
Renamed(from, to) ==
    /\ Exists(from) /\ ~Exists(to)
    /\ databases' = [databases EXCEPT ![to] = databases[from], ![from] = Absent]

\* A rename that commits is known to the script unless its answer is lost.
RenameStep(r, from, to, fact, next) ==
    \/ /\ Renamed(from, to)
       /\ \/ known' = [known EXCEPT ![r] = @ \cup {fact}] /\ Goes(r, next)
          \/ UNCHANGED known /\ Goes(r, "swapfailing")
    \/ UNCHANGED <<databases, known>> /\ Goes(r, "swapfailing")

RenameLive(r) ==
    /\ step[r] = "suspended"
    /\ RenameStep(r, Live, Old(r), "live", "vacant")
    /\ UNCHANGED <<restoring, writers, told>>

RenameCandidate(r) ==
    /\ step[r] = "vacant"
    /\ RenameStep(r, New(r), Live, "replacement", "swapped")
    /\ UNCHANGED <<restoring, writers, told>>

\* resume_workers of the live database only; the old one stays suspended.
Resume(r) ==
    /\ step[r] = "swapped"
    /\ \/ databases' = [databases EXCEPT ![Live].active = TRUE] /\ Goes(r, "ended")
       \/ UNCHANGED databases /\ Goes(r, "failing")
    /\ UNCHANGED <<known, writers, told, restoring>>

\* finish_swap: a first rename without the second is undone where that works.
FinishSwap(r) ==
    /\ step[r] = "swapfailing"
    /\ \/ /\ "live" \in known[r]
          /\ Renamed(Old(r), Live)
          /\ UNCHANGED told
       \/ UNCHANGED databases /\ told' = TRUE
    /\ Goes(r, "failing")
    /\ UNCHANGED <<restoring, known, writers>>

\* finish_production_restore: what carries the candidate's name is dropped,
\* the writers are stopped, the lock is released.
Finish(r) ==
    /\ step[r] \in {"failing", "ended"}
    /\ databases' = IF step[r] = "failing" THEN [databases EXCEPT ![New(r)] = Absent]
                    ELSE databases
    /\ writers' = FALSE
    /\ restoring' = 0
    /\ Goes(r, "done")
    /\ UNCHANGED <<known, told>>

Fail(r) ==
    /\ step[r] \in {"locked", "restored", "migrated", "suspended"}
    /\ Goes(r, "failing")
    /\ UNCHANGED <<databases, restoring, known, writers, told>>

\* Killed: nothing is undone, and the directory stays.
Kill(r) ==
    /\ step[r] \notin {"idle", "done", "killed"}
    /\ Goes(r, "killed")
    /\ told' = TRUE
    /\ UNCHANGED <<databases, restoring, known, writers>>

-----------------------------------------------------------------------------
\* The operator, by the runbook: the lock of a killed run is taken away when
\* the names are right, and they are put right by hand.
RemoveLock ==
    /\ restoring # 0 /\ step[restoring] = "killed"
    /\ Exists(Live)
    /\ restoring' = 0
    /\ UNCHANGED <<databases, step, known, writers, told>>

RenameByHand(r) ==
    /\ told /\ ~Exists(Live) /\ step[r] \in {"done", "killed"}
    /\ Renamed(Old(r), Live)
    /\ UNCHANGED <<restoring, step, known, writers, told>>

Writers ==
    /\ \/ writers /\ writers' = FALSE
       \/ ~writers /\ Exists(Live) /\ writers' = TRUE
    /\ UNCHANGED <<databases, restoring, step, known, told>>

Next == \/ \E r \in Runs :
             \/ Begin(r) \/ Create(r) \/ Restore(r) \/ Migrate(r) \/ Suspend(r)
             \/ RenameLive(r) \/ RenameCandidate(r) \/ Resume(r) \/ FinishSwap(r)
             \/ Finish(r) \/ Fail(r) \/ Kill(r) \/ RenameByHand(r)
        \/ RemoveLock \/ Writers

Spec == Init /\ [][Next]_cutoverVars

(***************************************************************************)
(* Replacing the database never costs one: the original is always there,   *)
(* under the live name or a kept one; what has the live name is whole; the *)
(* live name is vacant only between the two renames or once the operator   *)
(* has been told; and the workers of a kept database never run beside the  *)
(* live one's (README.md:235, "never restart its workers while the new     *)
(* live database is active").                                              *)
(***************************************************************************)
OriginalIsKept ==
    /\ \E n \in Names \ {New(r) : r \in Runs} : Exists(n) /\ databases[n].of = 0
    /\ Exists(Live) => databases[Live].whole
    /\ Exists(Live) \/ told \/ \E r \in Runs : step[r] \in {"vacant", "swapfailing"}
    /\ \A r \in Runs : Exists(Old(r)) => ~databases[Old(r)].active
=============================================================================
