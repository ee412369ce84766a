---------------------------- MODULE OperatorReset ----------------------------
(***************************************************************************)
(* The operator's data reset (core/data_reset.py, core/reset_operator.py): *)
(* it retires one old restore obligation, proves that on disk, and only    *)
(* then wipes the history.  Two database transactions with receipts        *)
(* between them, run by hand, so that a run may die anywhere, be repeated  *)
(* with the same or an altered manifest, and meet another run or workers   *)
(* that somebody has started.                                              *)
(***************************************************************************)
EXTENDS Naturals

CONSTANTS Runs,       \* command-line runs of "apply"
          Operations, \* operation UUIDs
          MaxDrift,   \* bound: changes to the obligation
          MaxFaults,  \* bound: crashes and commits that are lost
          Nothing,    \* no file, no manifest
          Torn        \* a file whose writer died

VARIABLES target,     \* [state, print] of the restore, its source and its event
          epoch,      \* MLLifecycleStateRecord.epoch
          history,    \* whose history the tables hold: old, fresh or none
          audit,      \* AuditLogRecord rows of the two reset actions
          manifests,  \* manifests that were planned, and may be approved
          file,       \* the receipt of each operation and stage
          run,        \* what each run is doing
          working,    \* application workers hold database sessions
          troubles    \* faults so far

resetVars == <<target, epoch, history, audit, manifests, file, run, working, troubles>>

Stages == {"prepared", "retired", "reset"}
Resting == [at |-> "rest", man |-> Nothing, done |-> FALSE]

Init == /\ target = [state |-> "pending", print |-> 0]
        /\ epoch = 0
        /\ history = "old"
        /\ audit = {}
        /\ manifests = {}
        /\ file = [o \in Operations |-> [s \in Stages |-> Nothing]]
        /\ run = [r \in Runs |-> Resting]
        /\ working = FALSE
        /\ troubles = 0

Recorded(action, m) == [action |-> action, man |-> m] \in audit
RecordedOp(action, o) == \E a \in audit : a.action = action /\ a.man.op = o

At(r, at) == run[r].at = at
Goes(r, at) == run' = [run EXCEPT ![r].at = at]
Refuses(r) == run' = [run EXCEPT ![r] = Resting]

\* _guard: no other session, no owner, no work in flight.
Guard == ~working

\* plan: the exact tuple, while it is still pending, under a guard.
Plan(o) ==
    /\ Guard
    /\ target.state = "pending"
    /\ manifests' = manifests \cup {[op |-> o, print |-> target.print, epoch |-> epoch]}
    /\ UNCHANGED <<target, epoch, history, audit, file, run, working, troubles>>

Begin(r, m) ==
    /\ At(r, "rest")
    /\ run' = [run EXCEPT ![r] = [at |-> "prepare", man |-> m, done |-> FALSE]]
    /\ UNCHANGED <<target, epoch, history, audit, manifests, file, working, troubles>>

(***************************************************************************)
(* ReceiptStore.persist: a file is created once.  One that exists must     *)
(* hold the same bytes, else the run is refused; a run that dies while it  *)
(* writes leaves a torn file behind.                                       *)
(***************************************************************************)
Persists(r, stage, next) ==
    LET m == run[r].man
        f == file[m.op][stage] IN
    \/ /\ f \in {Nothing, m}
       /\ file' = [file EXCEPT ![m.op][stage] = m]
       /\ IF next = "rest" THEN Refuses(r) ELSE Goes(r, next)
       /\ UNCHANGED troubles
    \/ /\ f \notin {Nothing, m}
       /\ Refuses(r)
       /\ UNCHANGED <<file, troubles>>
    \/ /\ f = Nothing
       /\ troubles < MaxFaults
       /\ troubles' = troubles + 1
       /\ file' = [file EXCEPT ![m.op][stage] = Torn]
       /\ Refuses(r)

PersistPrepared(r) ==
    /\ At(r, "prepare")
    /\ Persists(r, "prepared", "settle")
    /\ UNCHANGED <<target, epoch, history, audit, manifests, working>>

(***************************************************************************)
(* The first transaction.  An operation that is complete, or retired       *)
(* already, is replayed if its manifest is the same and nothing drifted;   *)
(* otherwise the obligation must be exactly the approved one.  The commit  *)
(* may be reported and yet be lost.                                        *)
(***************************************************************************)
Settle(r) ==
    LET m == run[r].man IN
    /\ At(r, "settle")
    /\ Guard
    /\ \/ /\ Recorded("reset", m)
          /\ run' = [run EXCEPT ![r].at = "read", ![r].done = TRUE]
          /\ UNCHANGED <<target, audit, troubles>>
       \/ /\ ~RecordedOp("reset", m.op)
          /\ Recorded("retire", m)
          /\ target.state = "retired"
          /\ epoch = m.epoch
          /\ Goes(r, "read")
          /\ UNCHANGED <<target, audit, troubles>>
       \/ /\ ~RecordedOp("reset", m.op)
          /\ ~RecordedOp("retire", m.op)
          /\ target = [state |-> "pending", print |-> m.print]
          /\ epoch = m.epoch
          /\ Goes(r, "read")
          /\ \/ /\ target' = [target EXCEPT !.state = "retired"]
                /\ audit' = audit \cup {[action |-> "retire", man |-> m]}
                /\ UNCHANGED troubles
             \/ /\ troubles < MaxFaults
                /\ troubles' = troubles + 1
                /\ UNCHANGED <<target, audit>>
    /\ UNCHANGED <<epoch, history, manifests, file, working>>

\* The committed audit is read back before anything irreversible.
ReadBack(r) ==
    LET m == run[r].man IN
    /\ At(r, "read")
    /\ IF Recorded(IF run[r].done THEN "reset" ELSE "retire", m)
       THEN Goes(r, IF run[r].done THEN "finish" ELSE "prove")
       ELSE Refuses(r)
    /\ UNCHANGED <<target, epoch, history, audit, manifests, file, working, troubles>>

PersistRetired(r) ==
    /\ At(r, "prove")
    /\ Persists(r, "retired", "wipe")
    /\ UNCHANGED <<target, epoch, history, audit, manifests, working>>

WipeUnchecked(r) ==
    /\ At(r, "wipe")
    /\ Guard
    /\ Goes(r, "check")
    /\ target' = [target EXCEPT !.state = "gone"]
    /\ history' = "none"
    /\ epoch' = 1
    /\ audit' = {[action |-> a, man |-> run[r].man] : a \in {"retire", "reset"}}
    /\ UNCHANGED <<manifests, file, working, troubles>>

(***************************************************************************)
(* The second transaction: the guards and the retired tuple once more,     *)
(* then everything but the retained tables goes, and the two audit rows    *)
(* and a fresh lifecycle row are all that is left of it.                   *)
(***************************************************************************)
Wipe(r) ==
    LET m == run[r].man IN
    /\ At(r, "wipe")
    /\ Guard
    /\ target.state = "retired"
    /\ epoch = m.epoch
    /\ Goes(r, "check")
    /\ \/ /\ target' = [target EXCEPT !.state = "gone"]
          /\ history' = "none"
          /\ epoch' = epoch + 1
          /\ audit' = {[action |-> a, man |-> m] : a \in {"retire", "reset"}}
          /\ UNCHANGED troubles
       \/ /\ troubles < MaxFaults
          /\ troubles' = troubles + 1
          /\ UNCHANGED <<target, history, epoch, audit>>
    /\ UNCHANGED <<manifests, file, working>>

CheckWiped(r) ==
    /\ At(r, "check")
    /\ IF Recorded("reset", run[r].man) THEN Goes(r, "finish") ELSE Refuses(r)
    /\ UNCHANGED <<target, epoch, history, audit, manifests, file, working, troubles>>

PersistReset(r) ==
    /\ At(r, "finish")
    /\ Persists(r, "reset", "rest")
    /\ UNCHANGED <<target, epoch, history, audit, manifests, working>>

\* A guard fails, a statement times out, a commit is not acknowledged, the
\* run is killed: it ends where it is, and what it committed stays.
Ends(r) ==
    /\ ~At(r, "rest")
    /\ Refuses(r)
    /\ UNCHANGED <<target, epoch, history, audit, manifests, file, working, troubles>>

\* Somebody starts the application, which changes the pending restore and
\* collects history, and stops it again.
Work ==
    \/ /\ working' = ~working
       /\ UNCHANGED <<target, history>>
    \/ /\ working
       /\ target.state = "pending"
       /\ target.print < MaxDrift
       /\ target' = [target EXCEPT !.print = @ + 1]
       /\ UNCHANGED <<history, working>>
    \/ /\ working
       /\ history = "none"
       /\ history' = "fresh"
       /\ UNCHANGED <<target, working>>

Outside == Work /\ UNCHANGED <<epoch, audit, manifests, file, run, troubles>>

Next == \/ \E o \in Operations : Plan(o)
        \/ \E r \in Runs : \E m \in manifests : Begin(r, m)
        \/ \E r \in Runs : \/ PersistPrepared(r) \/ Settle(r) \/ ReadBack(r)
                           \/ PersistRetired(r) \/ Wipe(r) \/ CheckWiped(r)
                           \/ PersistReset(r) \/ Ends(r)
        \/ Outside

Spec == Init /\ [][Next]_resetVars

(***************************************************************************)
(* The types of the obligation, its history, the files and the runs.       *)
(***************************************************************************)
Manifests == [op : Operations, print : 0..MaxDrift, epoch : Nat]
RunStates == [at : {"rest", "prepare", "settle", "read", "prove", "wipe", "check", "finish"},
              man : Manifests \cup {Nothing}, done : BOOLEAN]

TypeOK ==
    /\ target \in [state : {"pending", "retired", "gone"}, print : 0..MaxDrift]
    /\ epoch \in Nat
    /\ history \in {"old", "fresh", "none"}
    /\ audit \subseteq [action : {"retire", "reset"}, man : Manifests]
    /\ manifests \subseteq Manifests
    /\ file \in [Operations -> [Stages -> Manifests \cup {Nothing, Torn}]]
    /\ run \in [Runs -> RunStates]
    /\ \A r \in Runs : ~At(r, "rest") => run[r].man \in manifests
    /\ working \in BOOLEAN
    /\ troubles \in 0..MaxFaults

(***************************************************************************)
(* What a receipt on disk says has been committed: a retired receipt names *)
(* a retirement, a reset receipt a wipe, of the very manifest, whatever    *)
(* crashes, lost commits and repeated runs came before                     *)
(* (docs/settings-preserving-reset.md:184, data_reset.py:612-625).         *)
(***************************************************************************)
ReceiptsAreTrue ==
    \A m \in manifests :
        /\ file[m.op]["retired"] = m => Recorded("retire", m)
        /\ file[m.op]["reset"] = m => Recorded("reset", m)

(***************************************************************************)
(* History is wiped only when the approved retirement of the same          *)
(* operation is committed and its receipt is on disk, and what the         *)
(* application collects after a reset is never wiped by a repeated run.    *)
(***************************************************************************)
WipeOnlyProven ==
    history' = "none" /\ history # "none" =>
        /\ history = "old"
        /\ \E m \in manifests : /\ Recorded("retire", m)
                                /\ file[m.op]["retired"] = m
                                /\ m.print = target.print
=============================================================================
