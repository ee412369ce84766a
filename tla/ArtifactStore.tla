----------------------------- MODULE ArtifactStore -----------------------------
(***************************************************************************)
(* The files of fitted models (ml/safe_persistence.py) and the lifecycle   *)
(* rows and forecast issues that refer to them (ml/lifecycle.py): how a    *)
(* file is made durable before a row may name it, what pruning may delete, *)
(* and when a file that cannot be read is given up as missing or damaged.  *)
(* One component.  A file is named by the hash of its bytes, so that one   *)
(* whose bytes are not its own reads as torn.                              *)
(***************************************************************************)
EXTENDS Integers, FiniteSets

CONSTANTS Workers,   \* maintenance runners, one per process
          Files,     \* hashes of the artifacts that are fitted
          Attempts,  \* ARTIFACT_UNAVAILABLE_ATTEMPTS
          Grace,     \* ORPHAN_GRACE
          Retention, \* EVIDENCE_RETENTION
          Longest,   \* ARTIFACT_RETRY_MAX
          MaxFits,   \* bound: artifacts fitted
          MaxFaults, \* bound: outages, damage and losses of power
          Horizon,   \* bound: time, in cadences of the maintenance
          None       \* no worker, no file

VARIABLES now,
          mounted, \* the storage answers
          disk,    \* what a running system finds under each name
          durable, \* what a loss of power leaves under each name
          written, \* when each file was written
          rows,    \* MLArtifactRecord: the role of each file, and since when
          issues,  \* MLForecastIssueRecord: when each file last forecast, if it has
          checks,  \* checkpoints "availability:" of the state row
          lease,   \* the worker that holds the lease
          worker,  \* what each worker is doing
          faults,  \* outages, damages and losses of power
          hurt,    \* history: files damaged from outside and not restored
          retired  \* history: what was under a name given up as missing or damaged

storage == <<mounted, disk, durable, written>>
history == <<faults, hurt, retired>>
records == <<rows, issues, checks>>
artifactVars == <<now, storage, records, lease, worker, history>>

Never == 0 - 1 - Retention \* before any time there is
NoRow == [role |-> "none", created |-> 0]
Sound == [status |-> "available", attempts |-> 0, retry |-> 0]
Idle == [at |-> "idle", file |-> None, missing |-> FALSE, entry |-> "none"]
Protected == {"candidate", "incumbent", "rollback", "retained"}

Contents == {"none", "whole", "torn"}
Record == [role : Protected \cup {"none", "unreferenced"}, created : Nat]
Task == [at : {"idle", "written", "renamed", "signed", "unavailable", "missing", "damaged",
               "retire missing", "retire damaged"},
         file : Files \cup {None}, missing : BOOLEAN,
         entry : Contents \cup {"unknown"}]

\* When a check is due again is 2 ^ n: a time, whatever it is.
TypeOK == /\ now \in Nat /\ mounted \in BOOLEAN
          /\ disk \in [Files -> Contents] /\ durable \in [Files -> Contents]
          /\ written \in [Files -> Nat]
          /\ rows \in [Files -> Record]
          /\ issues \in [Files -> Nat \cup {Never}]
          /\ \A f \in Files : /\ checks[f].status \in {"available", "unavailable", "missing"}
                              /\ checks[f].attempts \in 0..Attempts
          /\ lease \in Workers \cup {None}
          /\ worker \in [Workers -> Task]
          /\ faults \in Nat /\ hurt \subseteq Files
          /\ retired \in [Files -> Contents \cup {"no", "unknown"}]

Init == /\ now = 0
        /\ mounted = TRUE
        /\ disk = [f \in Files |-> "none"]
        /\ durable = disk
        /\ written = [f \in Files |-> 0]
        /\ rows = [f \in Files |-> NoRow]
        /\ issues = [f \in Files |-> Never]
        /\ checks = [f \in Files |-> Sound]
        /\ lease = None
        /\ worker = [w \in Workers |-> Idle]
        /\ faults = 0
        /\ hurt = {}
        /\ retired = [f \in Files |-> "no"]

Goes(w, at) == worker' = [worker EXCEPT ![w].at = at]
Rests(w) == worker' = [worker EXCEPT ![w] = Idle]

\* A transaction finds the lease as the worker left it, and holds its row.
Locked(w) == lease = w

Holding(role) == {f \in Files : rows[f].role = role}

-----------------------------------------------------------------------------
(* The file: written and flushed under another name, renamed, and its      *)
(* directory flushed.                                                      *)

\* A fit never made before: its bytes carry an identity of their own.
Write(w, f) ==
    /\ worker[w] = Idle /\ Locked(w)
    /\ mounted /\ disk[f] = "none" /\ written[f] = 0 /\ rows[f] = NoRow /\ f \notin hurt
    /\ Cardinality({g \in Files : written[g] > 0}) < MaxFits
    /\ worker' = [worker EXCEPT ![w] = [Idle EXCEPT !.at = "written", !.file = f]]
    /\ written' = [written EXCEPT ![f] = now + 1]
    /\ UNCHANGED <<now, mounted, disk, durable, records, lease, history>>

Rename(w) ==
    /\ worker[w].at = "written"
    /\ IF mounted THEN /\ disk' = [disk EXCEPT ![worker[w].file] = "whole"]
                       /\ Goes(w, "renamed")
                  ELSE disk' = disk /\ Rests(w)
    /\ UNCHANGED <<now, mounted, durable, written, records, lease, history>>

Flushed(f) == durable' = [durable EXCEPT ![f] = disk[f]]

\* What is read back is checked against its name and its signature.
Verified(f) == mounted /\ disk[f] = "whole"

SyncDirectory(w) ==
    /\ worker[w].at = "renamed"
    /\ IF mounted THEN Flushed(worker[w].file) ELSE UNCHANGED durable
    /\ IF Verified(worker[w].file) THEN Goes(w, "signed") ELSE Rests(w)
    /\ UNCHANGED <<now, mounted, disk, written, records, lease, history>>

-----------------------------------------------------------------------------
(* The row.  The file is flushed and read once more in the transaction     *)
(* that commits a reference to it.                                         *)

Certified(f) == Flushed(f) /\ Verified(f)

Publish(w) ==
    LET f == worker[w].file
    IN /\ worker[w].at = "signed"
       /\ IF Locked(w) /\ Holding("candidate") = {} /\ Verified(f)
          THEN /\ Certified(f)
               /\ rows' = [rows EXCEPT ![f] = [role |-> "candidate", created |-> now]]
          ELSE UNCHANGED <<durable, rows>>
       /\ Rests(w)
       /\ UNCHANGED <<now, mounted, disk, written, issues, checks, lease, history>>

\* The candidate has earned it; the incumbent stays as its way back.
Promote(w, f) ==
    /\ worker[w] = Idle /\ Locked(w)
    /\ f \in Holding("candidate") /\ issues[f] # Never
    /\ Certified(f)
    /\ rows' = [g \in Files |->
                    IF g = f THEN [rows[g] EXCEPT !.role = "incumbent"]
                    ELSE IF rows[g].role = "incumbent" THEN [rows[g] EXCEPT !.role = "rollback"]
                    ELSE rows[g]]
    /\ UNCHANGED <<now, mounted, disk, written, issues, checks, lease, worker, history>>

\* Forecasts are issued under the candidate, or under the incumbent alone.
Issue(w, f) ==
    /\ worker[w] = Idle /\ Locked(w)
    /\ rows[f].role \in {"candidate", "incumbent"} /\ Verified(f)
    /\ issues[f] < now
    /\ issues' = [issues EXCEPT ![f] = now]
    /\ UNCHANGED <<now, storage, rows, checks, lease, worker, history>>

-----------------------------------------------------------------------------
(* Retention, at the end of a maintenance run.                             *)

\* Evidence under a protected file is kept with it.
PruneEvidence(w) ==
    LET expired == {f \in Files : /\ issues[f] # Never /\ issues[f] < now - Retention
                                  /\ rows[f].role \notin Protected}
    IN /\ worker[w] = Idle /\ Locked(w) /\ expired # {}
       /\ issues' = [f \in Files |-> IF f \in expired THEN Never ELSE issues[f]]
       /\ UNCHANGED <<now, storage, rows, checks, lease, worker, history>>

Spared(f) == \/ rows[f].role \in Protected
             \/ rows[f] # NoRow /\ rows[f].created >= now - Grace
             \/ issues[f] # Never

\* The file goes first; a worker that dies before it commits leaves the row.
PruneFile(w, f) ==
    /\ worker[w] = Idle /\ Locked(w)
    /\ mounted /\ disk[f] # "none"
    /\ written[f] - 1 < now - Grace
    /\ ~Spared(f)
    /\ disk' = [disk EXCEPT ![f] = "none"]
    /\ durable' = [durable EXCEPT ![f] = "none"]
    /\ \/ rows' = [rows EXCEPT ![f] = NoRow] /\ lease' = lease
       \/ rows' = rows /\ lease' = None
    /\ UNCHANGED <<now, mounted, written, issues, checks, worker, history>>

-----------------------------------------------------------------------------
(* A file that cannot be read.                                             *)

RetryDue(f) == checks[f].status # "unavailable" \/ now >= checks[f].retry

\* A review reads the file.  Without the storage it is missing, or fails to be read.
Review(w, f) ==
    /\ worker[w] = Idle /\ Locked(w)
    /\ rows[f].role \in {"candidate", "incumbent"} /\ RetryDue(f)
    /\ \/ /\ Verified(f) /\ checks[f].status = "unavailable"
          /\ checks' = [checks EXCEPT ![f] = Sound]
          /\ UNCHANGED worker
       \/ /\ ~Verified(f) /\ (mounted => disk[f] = "none")
          /\ \E missing \in BOOLEAN :
                /\ mounted => missing
                /\ worker' = [worker EXCEPT ![w] = [Idle EXCEPT !.at = "unavailable",
                                                                !.file = f, !.missing = missing]]
          /\ UNCHANGED checks
       \/ /\ mounted /\ disk[f] = "torn"
          /\ worker' = [worker EXCEPT ![w] = [Idle EXCEPT !.at = "damaged", !.file = f]]
          /\ UNCHANGED checks
    /\ UNCHANGED <<now, storage, rows, issues, lease, history>>

\* The directory can be listed and the name is not in it.
ConfirmedMissing(f) == mounted /\ disk[f] = "none"

Least(a, b) == IF a <= b THEN a ELSE b

RecordUnavailable(w) ==
    LET f == worker[w].file
        tried == Least(checks[f].attempts + 1, Attempts)
        confirmed == worker[w].missing /\ tried = Attempts /\ ConfirmedMissing(f)
    IN /\ worker[w].at = "unavailable"
       /\ IF Locked(w) /\ rows[f].role \in Protected /\ RetryDue(f)
          THEN /\ checks' = [checks EXCEPT ![f] =
                                [status |-> IF confirmed THEN "missing" ELSE "unavailable",
                                 attempts |-> tried,
                                 retry |-> now + Least(2 ^ (tried - 1), Longest)]]
               /\ IF confirmed THEN Goes(w, "missing") ELSE Rests(w)
          ELSE UNCHANGED checks /\ Rests(w)
       /\ UNCHANGED <<now, storage, rows, issues, lease, history>>

\* The entry as it is before the transaction, which the transaction compares.
Entry(f) == IF mounted THEN disk[f] ELSE "unknown"

LookBefore(w) ==
    /\ worker[w].at \in {"missing", "damaged"}
    /\ worker' = [worker EXCEPT ![w].at = IF worker[w].at = "missing" THEN "retire missing"
                                                                      ELSE "retire damaged",
                                ![w].entry = Entry(worker[w].file)]
    /\ UNCHANGED <<now, storage, records, lease, history>>

Confirmed(w) ==
    LET f == worker[w].file
    IN /\ worker[w].entry = Entry(f)
       /\ IF worker[w].at = "retire missing" THEN ConfirmedMissing(f)
          ELSE mounted /\ disk[f] = "torn"

\* A candidate is kept for its evidence, an incumbent loses its qualification;
\* the candidate that was measured against it goes too.
Retire(w) ==
    LET f == worker[w].file
    IN /\ worker[w].at \in {"retire missing", "retire damaged"}
       /\ IF Locked(w) /\ rows[f].role \in Protected /\ Confirmed(w)
          THEN /\ rows' = [g \in Files |-> IF rows[g].role = "candidate"
                                           THEN [rows[g] EXCEPT !.role = "retained"] ELSE rows[g]]
               /\ retired' = [retired EXCEPT ![f] = Entry(f)]
               /\ lease' = lease
          ELSE /\ UNCHANGED <<rows, retired>>
               /\ lease' = IF lease = w THEN None ELSE lease
       /\ Rests(w)
       /\ UNCHANGED <<now, storage, issues, checks, faults, hurt>>

-----------------------------------------------------------------------------

\* The holder's lease has run out, or it has given it back.
Acquire(w) ==
    /\ worker[w] = Idle /\ lease # w
    /\ lease' = w
    /\ UNCHANGED <<now, storage, records, worker, history>>

\* The operator resets what was learned; nothing is deleted yet.
Reset ==
    /\ \E f \in Files : rows[f].role \in Protected
    /\ rows' = [f \in Files |-> IF rows[f] = NoRow THEN NoRow
                                ELSE [rows[f] EXCEPT !.role = "unreferenced"]]
    /\ checks' = [f \in Files |-> Sound]
    /\ lease' = None
    /\ UNCHANGED <<now, storage, issues, worker, history>>

Kill(w) ==
    /\ worker[w] # Idle
    /\ Rests(w)
    /\ UNCHANGED <<now, storage, records, lease, history>>

Fault == faults < MaxFaults /\ faults' = faults + 1

\* A name that was not flushed may be there afterwards, or not.
PowerLoss ==
    /\ Fault
    /\ \E after \in [Files -> {"none", "whole", "torn"}] :
          /\ \A f \in Files : after[f] \in {disk[f], durable[f]}
          /\ disk' = after /\ durable' = after
    /\ worker' = [w \in Workers |-> Idle]
    /\ lease' = None
    /\ UNCHANGED <<now, mounted, written, records, hurt, retired>>

Unmount ==
    /\ Fault
    /\ mounted /\ mounted' = FALSE
    /\ UNCHANGED <<now, disk, durable, written, records, lease, worker, hurt, retired>>

Mount ==
    /\ ~mounted /\ mounted' = TRUE
    /\ UNCHANGED <<now, disk, durable, written, records, lease, worker, history>>

Damage(f) ==
    /\ Fault
    /\ mounted /\ disk[f] = "whole"
    /\ \E left \in {"none", "torn"} :
          disk' = [disk EXCEPT ![f] = left] /\ durable' = [durable EXCEPT ![f] = left]
    /\ hurt' = hurt \cup {f}
    /\ UNCHANGED <<now, mounted, written, records, lease, worker, retired>>

Restore(f) ==
    /\ f \in hurt /\ mounted /\ disk[f] # "whole"
    /\ disk' = [disk EXCEPT ![f] = "whole"]
    /\ durable' = [durable EXCEPT ![f] = "whole"]
    /\ hurt' = hurt \ {f}
    /\ UNCHANGED <<now, mounted, written, records, lease, worker, faults, retired>>

Tick ==
    /\ now < Horizon
    /\ now' = now + 1
    /\ UNCHANGED <<storage, records, lease, worker, history>>

Next == \/ \E w \in Workers :
              \/ Rename(w) \/ SyncDirectory(w) \/ Publish(w) \/ PruneEvidence(w)
              \/ RecordUnavailable(w) \/ LookBefore(w) \/ Retire(w) \/ Acquire(w) \/ Kill(w)
              \/ \E f \in Files : \/ Write(w, f) \/ Promote(w, f) \/ Issue(w, f)
                                  \/ PruneFile(w, f) \/ Review(w, f)
        \/ \E f \in Files : Damage(f) \/ Restore(f)
        \/ Reset \/ PowerLoss \/ Unmount \/ Mount \/ Tick

Spec == Init /\ [][Next]_artifactVars

-----------------------------------------------------------------------------

(***************************************************************************)
(* Every file a committed row of a protected role names, or that evidence  *)
(* was issued under, is there whole and stays so through a loss of power,  *)
(* unless it was damaged from outside: no reference is committed before    *)
(* its file is durable, and no pruning takes a file that is still needed,  *)
(* in whatever order publication, pruning, resets and crashes come.        *)
(***************************************************************************)
ReferencedFilesStay ==
    \A f \in Files : (rows[f].role \in Protected \/ issues[f] # Never) /\ f \notin hurt =>
        disk[f] = "whole" /\ durable[f] = "whole"

(***************************************************************************)
(* A model is given up as missing or damaged only if, at that moment, the  *)
(* storage answered and its file really was gone or was not its bytes: an  *)
(* outage, or a file that came back meanwhile, never costs a model.        *)
(***************************************************************************)
OnlyDamageRetires == \A f \in Files : retired[f] \in {"no", "none", "torn"}
=============================================================================
