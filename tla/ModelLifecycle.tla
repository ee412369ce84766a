--------------------------- MODULE ModelLifecycle ---------------------------
(***************************************************************************)
(* The life of one model component (demand, comfort or thermal) in         *)
(* packages/ml/lifecycle.py: maintenance cycles under a database lease     *)
(* train a candidate, freeze it, look at its prospective evidence at fixed *)
(* checkpoints, and promote or retire it.                                  *)
(*                                                                         *)
(* A step is one database transaction of a runner, or one thing that       *)
(* happens around it: a lease running out, the gate, a reset, a crash.     *)
(* Fence and revision numbers come from one sequence and are only ever     *)
(* compared for equality, so the model keeps, for every number that is     *)
(* held, whether it is still the one in the row: "fenced" for a fence,     *)
(* "unmoved" for a revision.  The evidence itself (issues, outcomes,       *)
(* scans, scores) is a choice of the decision it leads to.                 *)
(***************************************************************************)
EXTENDS Naturals, FiniteSets

CONSTANTS
  Worker,          \* runners, each a process of the poller
  Request,         \* maintenance requests of the component
  Artifact,        \* fitted artifacts, named by their hash
  None,            \* no worker, no request, no artifact
  Looks,           \* decision checkpoints of the policy (71 in the code)
  MaxFaults        \* bound on crashes, revocations and failures together

ASSUME LifecycleAssumption ==
  /\ None \notin Worker \cup Request \cup Artifact
  /\ Looks \in Nat \ {0} /\ MaxFaults \in Nat

VARIABLES
  setting,         \* the setting ml_maintenance_enabled
  gate,            \* maintenance_enabled of the lifecycle row
  holder,          \* lease_owner
  expired,         \* the lease has run out
  due,             \* next_maintenance_at has passed
  request,         \* rows of ml_maintenance_requests
  artifact,        \* rows of ml_artifacts
  look,            \* the decision:<hash>:<n> checkpoints
  files,           \* the artifacts whose signed file is in MODEL_DIR/lifecycle
  age,             \* checkpoints whose time has come since an artifact was frozen
  worker,          \* the runners
  faults,          \* how much of MaxFaults is used
  outdated,        \* history: artifacts fitted to data read before the last reset
  scored           \* history: how often the evidence was scored for each checkpoint

rows == <<setting, gate, holder, expired, due, request, artifact, look>>
vars == <<rows, files, age, worker, faults, outdated, scored>>

-----------------------------------------------------------------------------
Protected == {"incumbent", "candidate", "rollback", "retained"}

\* "none": no row.  comparator: the incumbent it was frozen against, if qualified.
ArtifactRow == [role : Protected \cup {"unreferenced", "none"}, qualified : BOOLEAN,
                comparator : Artifact \cup {None}]

RequestRow == [status : {"none", "queued", "running", "succeeded", "failed", "cancelled"},
               fenced : BOOLEAN]

LookRow == [status : {"open", "consumed", "evaluated"}, fenced : BOOLEAN]

\* A runner: where run() is; its lease's fence; the revision and incumbent it
\* read; the request it claimed; the artifact it reviews, fits or publishes;
\* the checkpoint it claimed; where a review returns to; whether its last
\* publication was committed.
WorkerState ==
  [at : {"idle", "acquire", "begin", "enqueue", "incumbent", "candidate", "review", "score",
         "read", "publish", "readback", "retire", "damaged", "claim", "fit", "sign", "finish",
         "prune", "release"},
   fenced : BOOLEAN, unmoved : BOOLEAN, incumbent : Artifact \cup {None},
   request : Request \cup {None}, artifact : Artifact \cup {None}, look : 0..Looks,
   then : {"candidate", "prune", "finish"}, committed : BOOLEAN]

NoRow == [role |-> "none", qualified |-> FALSE, comparator |-> None]
NoRequest == [status |-> "none", fenced |-> FALSE]
NoLooks == [n \in 1..Looks |-> [status |-> "open", fenced |-> FALSE]]
NeverScored == [n \in 1..Looks |-> 0]
Idle == [at |-> "idle", fenced |-> FALSE, unmoved |-> FALSE, incumbent |-> None, request |-> None,
         artifact |-> None, look |-> 0, then |-> "prune", committed |-> FALSE]

TypeOK ==
  /\ setting \in BOOLEAN /\ gate \in BOOLEAN /\ expired \in BOOLEAN /\ due \in BOOLEAN
  /\ holder \in Worker \cup {None}
  /\ request \in [Request -> RequestRow]
  /\ artifact \in [Artifact -> ArtifactRow]
  /\ look \in [Artifact -> [1..Looks -> LookRow]]
  /\ files \subseteq Artifact
  /\ age \in [Artifact -> 0..(Looks + 1)]
  /\ worker \in [Worker -> WorkerState]
  /\ faults \in 0..MaxFaults
  /\ outdated \subseteq Artifact
  /\ scored \in [Artifact -> [1..Looks -> Nat]]

Init ==
  /\ setting \in BOOLEAN /\ gate = FALSE /\ holder = None /\ expired = FALSE /\ due = TRUE
  /\ request = [r \in Request |-> NoRequest]
  /\ artifact = [a \in Artifact |-> NoRow]
  /\ look = [a \in Artifact |-> NoLooks]
  /\ files = {}
  /\ age = [a \in Artifact |-> 0]
  /\ worker = [w \in Worker |-> Idle]
  /\ faults = 0
  /\ outdated = {}
  /\ scored = [a \in Artifact |-> NeverScored]

-----------------------------------------------------------------------------
(* The lease and the two numbers.                                          *)

\* _lease_conditions: the lease is this run's, has not run out, and the gate is on.
Live(w) == gate /\ holder = w /\ worker[w].fenced /\ ~expired

HasRole(a, role) == artifact[a].role = role

\* LifecycleSnapshot.reference
TheOne(role) == IF \E a \in Artifact : HasRole(a, role)
                THEN CHOOSE a \in Artifact : HasRole(a, role) ELSE None

\* The row gets a new revision: none that was read before is still the current one.
Moved(ws) == [v \in Worker |-> [ws[v] EXCEPT !.unmoved = FALSE]]

\* The row gets a new fence and a new revision.
Fenced(ws) == [v \in Worker |-> [ws[v] EXCEPT !.fenced = FALSE, !.unmoved = FALSE]]
Unfenced(rs) == [r \in DOMAIN rs |-> [rs[r] EXCEPT !.fenced = FALSE]]
LooksUnfenced == [a \in Artifact |-> Unfenced(look[a])]

Goto(w, at) == [worker EXCEPT ![w].at = at]

\* A review is over: run() goes on where it called it.
Return(ws, w) ==
  [ws EXCEPT ![w].at = ws[w].then, ![w].artifact = None, ![w].look = 0, ![w].then = "prune",
             ![w].incumbent = None, ![w].unmoved = FALSE]

\* A run goes on without its request.
Forget(ws, w, at) ==
  [ws EXCEPT ![w] = [Idle EXCEPT !.at = at, !.fenced = ws[w].fenced]]
-----------------------------------------------------------------------------
(* A maintenance run, up to its reviews.                                   *)

\* prepare_maintenance, for a run that found the setting on: the gate follows it.
Prepare(w) ==
  /\ worker[w].at = "idle" /\ setting
  /\ gate' = TRUE
  /\ IF gate
     THEN /\ worker' = Goto(w, "acquire")
          /\ UNCHANGED <<holder, expired, request, look>>
     ELSE /\ holder' = None /\ expired' = FALSE
          /\ worker' = Fenced(Goto(w, "acquire"))
          /\ request' = Unfenced(request) /\ look' = LooksUnfenced
  /\ UNCHANGED <<setting, due, artifact, files, age, faults, outdated, scored>>

Acquire(w) ==
  /\ worker[w].at = "acquire"
  /\ IF gate /\ (holder = None \/ expired)
     THEN /\ holder' = w /\ expired' = FALSE
          /\ worker' = [Fenced(Goto(w, "begin")) EXCEPT ![w].fenced = TRUE]
          /\ request' = Unfenced(request) /\ look' = LooksUnfenced
     ELSE /\ worker' = [worker EXCEPT ![w] = Idle]
          /\ UNCHANGED <<holder, expired, request, look>>
  /\ UNCHANGED <<setting, gate, due, artifact, files, age, faults, outdated, scored>>

\* Mutant: requests left running stay so.
BeginWithoutRequeue(w) ==
  /\ worker[w].at = "begin" /\ Live(w)
  /\ due' = FALSE
  /\ worker' = Goto(w, IF due THEN "enqueue" ELSE "release")
  /\ UNCHANGED <<setting, gate, holder, expired, request, artifact, look, files, age, faults,
                  outdated, scored>>

\* One cycle in six hours; it puts back what an earlier lease left running.
BeginCycle(w) ==
  /\ worker[w].at = "begin" /\ Live(w)
  /\ due' = FALSE
  /\ IF due
     THEN /\ request' = [r \in Request |->
                          IF request[r].status = "running" /\ ~request[r].fenced
                          THEN [status |-> "queued", fenced |-> FALSE] ELSE request[r]]
          /\ worker' = Goto(w, "enqueue")
     ELSE worker' = Goto(w, "release") /\ UNCHANGED request
  /\ UNCHANGED <<setting, gate, holder, expired, artifact, look, files, age, faults, outdated, scored>>

\* The scheduled request of this slot, unless the slot already has one.
EnqueueScheduled(w) ==
  /\ worker[w].at = "enqueue" /\ Live(w)
  /\ \/ UNCHANGED request
     \/ \E r \in Request : /\ request[r].status = "none"
                            /\ request' = [request EXCEPT ![r].status = "queued"]
  /\ worker' = Goto(w, "incumbent")
  /\ UNCHANGED <<setting, gate, holder, expired, due, artifact, look, files, age, faults, outdated,
                  scored>>

Reviewing(w, a, then) ==
  [worker EXCEPT ![w].at = "review", ![w].artifact = a, ![w].look = 0, ![w].then = then]

\* The incumbent is reviewed first, then the candidate read afresh; a component
\* that has a candidate trains no other.
ReadReferences(w) ==
  /\ \/ /\ worker[w].at = "incumbent"
        /\ worker' = IF TheOne("incumbent") # None
                     THEN Reviewing(w, TheOne("incumbent"), "candidate") ELSE Goto(w, "candidate")
     \/ /\ worker[w].at = "candidate"
        /\ worker' = IF TheOne("candidate") # None
                     THEN Reviewing(w, TheOne("candidate"), "prune") ELSE Goto(w, "claim")
  /\ UNCHANGED <<rows, files, age, faults, outdated, scored>>

-----------------------------------------------------------------------------
(* Reviews.  review() retires an artifact whose window or scope has ended, *)
(* or else claims the first checkpoint whose time has come.                *)

\* Mutant: only the qualification of an incumbent ever ends.
OnlyIncumbentsEnd(a) == HasRole(a, "incumbent") /\ ~artifact[a].qualified

\* The collection window of a candidate, or the qualification of an incumbent, is over.
WindowEnded(a) == \/ HasRole(a, "candidate") /\ age[a] > Looks
                  \/ HasRole(a, "incumbent") /\ ~artifact[a].qualified

\* Mutant: a look that was never recorded is taken again.
UnrecordedLooks(a) == {n \in 1..Looks : n <= age[a] /\ look[a][n].status # "evaluated"}

DueLooks(a) == {n \in 1..Looks : n <= age[a] /\ look[a][n].status = "open"}

EndReview(w) ==
  /\ worker[w].at = "review"
  /\ LET a == worker[w].artifact IN
     \/ worker' = Goto(w, "retire")
     \/ ~WindowEnded(a) /\ DueLooks(a) = {} /\ worker' = Return(worker, w)
  /\ UNCHANGED <<rows, files, age, faults, outdated, scored>>

\* claim_decision: the checkpoint is consumed before anything is scored.
ClaimDecision(w) ==
  /\ worker[w].at = "review" /\ Live(w)
  /\ LET a == worker[w].artifact IN
     /\ ~WindowEnded(a)
     /\ \E n \in DueLooks(a) :
          /\ \A m \in DueLooks(a) : n <= m
          /\ look' = [look EXCEPT ![a][n] = [status |-> "consumed", fenced |-> TRUE]]
          /\ scored' = [scored EXCEPT ![a][n] = @ + 1]
          /\ worker' = [worker EXCEPT ![w].at = "score", ![w].look = n]
  /\ UNCHANGED <<setting, gate, holder, expired, due, request, artifact, files, age, faults,
                  outdated>>

\* finish_decision, and what review() does with each result.
FinishDecision(w) ==
  /\ worker[w].at = "score" /\ Live(w)
  /\ LET a == worker[w].artifact
         n == worker[w].look
     IN /\ look[a][n].fenced
        /\ look' = [look EXCEPT ![a][n].status = "evaluated"]
        /\ \/ worker' = Goto(w, "read")
           \/ worker' = Goto(w, "retire")
           \/ n < Looks /\ worker' = Return(worker, w)
  /\ UNCHANGED <<setting, gate, holder, expired, due, request, artifact, files, age, faults, outdated,
                  scored>>

\* invalidate_component: a candidate is retired, an incumbent loses its qualification.
Invalidated(a) ==
  [artifact EXCEPT ![a].role = IF HasRole(a, "candidate") THEN "retained" ELSE @,
                   ![a].qualified = FALSE]

Retire(w) ==
  /\ worker[w].at = "retire" /\ Live(w)
  /\ artifact' = Invalidated(worker[w].artifact)
  /\ worker' = Moved(Return(worker, w))
  /\ UNCHANGED <<setting, gate, holder, expired, due, request, look, files, age, faults, outdated,
                  scored>>

-----------------------------------------------------------------------------
(* Training and publication.                                               *)

\* claim_request; the daily demand cadence may refuse it.
ClaimRequest(w) ==
  /\ worker[w].at = "claim" /\ Live(w)
  /\ \/ worker' = Goto(w, "prune") /\ UNCHANGED request
     \/ /\ TheOne("candidate") = None
        /\ \E r \in Request :
             /\ request[r].status = "queued"
             /\ request' = [request EXCEPT ![r] = [status |-> "running", fenced |-> TRUE]]
             /\ worker' = [worker EXCEPT ![w].at = "fit", ![w].request = r]
  /\ UNCHANGED <<setting, gate, holder, expired, due, artifact, look, files, age, faults, outdated,
                  scored>>

InHand(a) == \E w \in Worker : worker[w].artifact = a

\* Data is read and a model fitted to it, a new fit_id making it a new artifact.
Fit(w) ==
  /\ worker[w].at = "fit"
  /\ \E a \in Artifact :
       /\ HasRole(a, "none") /\ a \notin files /\ ~InHand(a)
       /\ worker' = [worker EXCEPT ![w].at = "sign", ![w].artifact = a]
       /\ outdated' = outdated \ {a}
  /\ UNCHANGED <<rows, files, age, faults, scored>>

\* finish_request for the request this run claimed: its fence must be the row's.
Finished(w, status) ==
  /\ request[worker[w].request].status = "running" /\ request[worker[w].request].fenced
  /\ request' = [request EXCEPT ![worker[w].request] =
                    [status |-> status, fenced |-> status # "queued"]]

\* Too little data to fit: the request waits for another cycle.
FitNothing(w) ==
  /\ worker[w].at = "fit" /\ Live(w)
  /\ Finished(w, "queued")
  /\ worker' = Forget(worker, w, "prune")
  /\ UNCHANGED <<setting, gate, holder, expired, due, artifact, look, files, age, faults, outdated,
                  scored>>

\* The state to publish against is read, and then the signed file made durable.
Sign(w) ==
  /\ worker[w].at = "sign" /\ Live(w)
  /\ files' = files \cup {worker[w].artifact}
  /\ worker' = [worker EXCEPT ![w].at = "publish", ![w].unmoved = TRUE,
                              ![w].incumbent = TheOne("incumbent")]
  /\ UNCHANGED <<rows, age, faults, outdated, scored>>

\* A review that qualified its artifact reads the state to publish against.
ReadState(w) ==
  /\ worker[w].at = "read"
  /\ worker' = [worker EXCEPT ![w].at = "publish", ![w].unmoved = TRUE,
                              ![w].incumbent = TheOne("incumbent")]
  /\ UNCHANGED <<rows, files, age, faults, outdated, scored>>

Promotion(w) == worker[w].look # 0

\* _can_publish, the frozen candidate, and the certified file.
CanPublish(w) ==
  LET a == worker[w].artifact
      candidate == TheOne("candidate")
  IN /\ Live(w)
     /\ worker[w].unmoved
     /\ TheOne("incumbent") = worker[w].incumbent
     /\ candidate \in {None, a} \/ (Promotion(w) /\ a = worker[w].incumbent)
     /\ a \in files

\* Mutant: the incumbent that is replaced keeps its role.
PublishedBeside(w) ==
  artifact' = [artifact EXCEPT ![worker[w].artifact].role =
                 IF Promotion(w) THEN "incumbent" ELSE "candidate"]

\* The comparator is the incumbent, if qualified in the scope of the new fit.
Published(w) ==
  LET a == worker[w].artifact
      old == worker[w].incumbent
  IN IF Promotion(w)
     THEN artifact' = [b \in Artifact |->
            IF b = a THEN [artifact[a] EXCEPT !.role = "incumbent", !.qualified = TRUE]
            ELSE IF HasRole(b, "incumbent") /\ old # a THEN [artifact[b] EXCEPT !.role = "rollback"]
            ELSE artifact[b]]
     ELSE \E c \in {None} \cup {b \in Artifact : b = old /\ artifact[b].qualified} :
            artifact' = [artifact EXCEPT ![a] =
                           [role |-> "candidate", qualified |-> FALSE, comparator |-> c]]

\* A published candidate is reviewed at once, before its request is finished.
AfterPublication(ws, w) ==
  IF Promotion(w) THEN Return(ws, w)
  ELSE [ws EXCEPT ![w].at = "review", ![w].then = "finish", ![w].committed = TRUE,
                  ![w].incumbent = None, ![w].unmoved = FALSE]

AfterRefusal(w) == IF Promotion(w) THEN Return(worker, w) ELSE Goto(w, "finish")

Publish(w) ==
  /\ worker[w].at = "publish" /\ CanPublish(w)
  /\ Published(w)
  /\ worker' = Moved(AfterPublication(worker, w))
  /\ UNCHANGED <<setting, gate, holder, expired, due, request, look, files, age, faults, outdated,
                  scored>>

\* publish() returns a conflict, a lost lease too, instead of raising it.
RefusePublication(w) ==
  /\ worker[w].at = "publish" /\ ~CanPublish(w)
  /\ worker' = AfterRefusal(w)
  /\ UNCHANGED <<rows, files, age, faults, outdated, scored>>

\* The connection fails at the commit: published or not, the runner cannot tell.
\* "unmoved" then says that the revision it wrote is the one in the row.
LoseCommit(w) ==
  /\ worker[w].at = "publish" /\ CanPublish(w) /\ faults < MaxFaults
  /\ faults' = faults + 1
  /\ \/ Published(w) /\ worker' = [Moved(Goto(w, "readback")) EXCEPT ![w].unmoved = TRUE]
     \/ UNCHANGED artifact /\ worker' = [worker EXCEPT ![w].at = "readback", ![w].unmoved = FALSE]
  /\ UNCHANGED <<setting, gate, holder, expired, due, request, look, files, age, outdated, scored>>

ReadBack(w) ==
  /\ worker[w].at = "readback"
  /\ worker' = IF worker[w].unmoved THEN AfterPublication(worker, w) ELSE AfterRefusal(w)
  /\ UNCHANGED <<rows, files, age, faults, outdated, scored>>

FinishRequest(w) ==
  /\ worker[w].at = "finish" /\ Live(w)
  /\ Finished(w, IF worker[w].committed THEN "succeeded" ELSE "failed")
  /\ worker' = Forget(worker, w, "prune")
  /\ UNCHANGED <<setting, gate, holder, expired, due, artifact, look, files, age, faults, outdated,
                  scored>>

-----------------------------------------------------------------------------
(* What goes wrong, and the end of a run.                                  *)

UnderLease == {"enqueue", "incumbent", "candidate", "review", "score", "read", "publish",
               "readback", "retire", "damaged", "claim", "fit", "sign", "finish"}

\* Storage is unavailable, and the request waits; anything else, and it has failed.
Fail(w) ==
  /\ worker[w].at \in UnderLease /\ Live(w) /\ faults < MaxFaults
  /\ faults' = faults + 1
  /\ IF worker[w].request # None THEN \E status \in {"queued", "failed"} : Finished(w, status)
     ELSE UNCHANGED request
  /\ worker' = Forget(worker, w, "prune")
  /\ UNCHANGED <<setting, gate, holder, expired, due, artifact, look, files, age, outdated, scored>>

\* A review finds its artifact, or the comparator of it, damaged.
FindDamage(w) ==
  /\ worker[w].at = "review" /\ Live(w) /\ faults < MaxFaults
  /\ faults' = faults + 1
  /\ \E a \in {worker[w].artifact, artifact[worker[w].artifact].comparator} \ {None} :
       artifact' = Invalidated(a)
  /\ worker' = Moved(Goto(w, "damaged"))
  /\ UNCHANGED <<setting, gate, holder, expired, due, request, look, files, age, outdated, scored>>

\* The candidate this run has known since before the review is retired too.
RetireWithComparator(w) ==
  /\ worker[w].at = "damaged" /\ Live(w)
  /\ LET c == TheOne("candidate") IN
     IF c # None /\ worker[w].then # "finish"
     THEN artifact' = Invalidated(c) /\ worker' = Moved(Forget(worker, w, "prune"))
     ELSE /\ UNCHANGED artifact
          /\ worker' = IF worker[w].then # "finish" THEN Forget(worker, w, "prune")
                       ELSE [worker EXCEPT ![w].at = "finish", ![w].committed = FALSE]
  /\ UNCHANGED <<setting, gate, holder, expired, due, request, look, files, age, faults, outdated,
                  scored>>

\* LeaseLost: every transaction checks the lease first.
LoseRun(w) ==
  /\ worker[w].at \in UnderLease \cup {"begin", "prune"} /\ ~Live(w)
  /\ worker' = Forget(worker, w, "release")
  /\ UNCHANGED <<rows, files, age, faults, outdated, scored>>

\* Mutant: only what is in use today is protected, not what it is compared with.
PruneUnused(w) ==
  /\ worker[w].at = "prune" /\ Live(w)
  /\ \/ \E a \in files : /\ artifact[a].role \notin {"incumbent", "candidate"}
                         /\ files' = files \ {a}
                         /\ UNCHANGED worker
     \/ worker' = Goto(w, "release") /\ UNCHANGED files
  /\ UNCHANGED <<rows, age, faults, outdated, scored>>

\* prune_artifacts and prune_evidence, one file or row at a time.  The day of grace is
\* left out, what protects a file in the making is the lease; a pruned artifact's name
\* is free for another.
Prune(w) ==
  /\ worker[w].at = "prune" /\ Live(w)
  /\ \/ /\ \E a \in Artifact :
             /\ a \in files /\ artifact[a].role \notin Protected
             /\ files' = files \ {a}
             /\ artifact' = [artifact EXCEPT ![a] = NoRow]
             /\ age' = [age EXCEPT ![a] = 0]
             /\ look' = [look EXCEPT ![a] = NoLooks]
             /\ scored' = [scored EXCEPT ![a] = NeverScored]
        /\ UNCHANGED <<request, worker>>
     \/ /\ \E r \in Request :
             /\ request[r].status \in {"succeeded", "failed", "cancelled"}
             /\ request' = [request EXCEPT ![r] = NoRequest]
        /\ UNCHANGED <<artifact, look, files, age, worker, scored>>
     \/ worker' = Goto(w, "release") /\ UNCHANGED <<request, artifact, look, files, age, scored>>
  /\ UNCHANGED <<setting, gate, holder, expired, due, faults, outdated>>

Release(w) ==
  /\ worker[w].at = "release"
  /\ IF setting /\ holder = w /\ worker[w].fenced
     THEN /\ holder' = None /\ expired' = FALSE
          /\ worker' = [Fenced(worker) EXCEPT ![w] = Idle]
          /\ request' = Unfenced(request) /\ look' = LooksUnfenced
     ELSE /\ worker' = [worker EXCEPT ![w] = Idle]
          /\ UNCHANGED <<holder, expired, request, look>>
  /\ UNCHANGED <<setting, gate, due, artifact, files, age, faults, outdated, scored>>

\* close(): the run is cancelled, and the request it was fitting with it.
Cancel(w) ==
  /\ worker[w].at \in UnderLease /\ faults < MaxFaults
  /\ faults' = faults + 1
  /\ IF worker[w].request # None /\ Live(w) THEN Finished(w, "cancelled") ELSE UNCHANGED request
  /\ worker' = Forget(worker, w, "release")
  /\ UNCHANGED <<setting, gate, holder, expired, due, artifact, look, files, age, outdated, scored>>

\* The process dies; the one that replaces it is another owner.
Crash(w) ==
  /\ worker[w].at # "idle" /\ faults < MaxFaults
  /\ faults' = faults + 1
  /\ worker' = [worker EXCEPT ![w] = Idle]
  /\ UNCHANGED <<rows, files, age, outdated, scored>>

-----------------------------------------------------------------------------
(* What happens around the runs.                                           *)

\* POST of a training route.
QueueRequest(r) ==
  /\ request[r].status = "none"
  /\ request' = [request EXCEPT ![r].status = "queued"]
  /\ UNCHANGED <<setting, gate, holder, expired, due, artifact, look, files, age, worker, faults,
                  outdated, scored>>

\* The setting is written and the gate follows it in the same transaction.
SetMaintenance(enabled) ==
  /\ setting # enabled
  /\ IF enabled THEN UNCHANGED faults ELSE faults < MaxFaults /\ faults' = faults + 1
  /\ setting' = enabled
  /\ gate' = enabled
  /\ IF gate = enabled THEN UNCHANGED <<holder, expired, worker, request, look>>
     ELSE /\ holder' = None /\ expired' = FALSE
          /\ worker' = Fenced(worker) /\ look' = LooksUnfenced
          /\ request' = [r \in Request |->
               [status |-> IF ~enabled /\ request[r].status = "running" THEN "queued"
                           ELSE request[r].status,
                fenced |-> FALSE]]
  /\ UNCHANGED <<due, artifact, files, age, outdated, scored>>

\* Mutant: roles are revoked, the lease is not.
ResetRolesOnly ==
  /\ faults < MaxFaults
  /\ faults' = faults + 1
  /\ artifact' = [a \in Artifact |->
                    IF HasRole(a, "none") THEN artifact[a]
                    ELSE [artifact[a] EXCEPT !.role = "unreferenced", !.qualified = FALSE]]
  /\ outdated' = {a \in Artifact : ~HasRole(a, "none") \/ a \in files \/ InHand(a)}
  /\ UNCHANGED <<setting, gate, holder, expired, due, request, look, files, age, worker, scored>>

\* invalidate_lifecycle, in the transaction of an admin reset.
Reset ==
  /\ faults < MaxFaults
  /\ faults' = faults + 1
  /\ gate' = FALSE /\ holder' = None /\ expired' = FALSE /\ due' = TRUE
  /\ worker' = Fenced(worker)
  /\ look' = [a \in Artifact |-> NoLooks]
  /\ artifact' = [a \in Artifact |->
                    IF HasRole(a, "none") THEN artifact[a]
                    ELSE [artifact[a] EXCEPT !.role = "unreferenced", !.qualified = FALSE]]
  /\ request' = [r \in Request |->
                   [status |-> IF request[r].status \in {"queued", "running"} THEN "cancelled"
                               ELSE request[r].status,
                    fenced |-> FALSE]]
  /\ outdated' = {a \in Artifact : ~HasRole(a, "none") \/ a \in files \/ InHand(a)}
  /\ UNCHANGED <<setting, files, age, scored>>

\* A lease runs out: that of a dead run in its own time, that of a live one by a fault.
Expire ==
  /\ holder # None /\ ~expired
  /\ expired' = TRUE
  /\ IF Live(holder) THEN faults < MaxFaults /\ faults' = faults + 1 ELSE UNCHANGED faults
  /\ UNCHANGED <<setting, gate, holder, due, request, artifact, look, files, age, worker, outdated,
                  scored>>

CycleDue ==
  /\ ~due /\ due' = TRUE
  /\ UNCHANGED <<setting, gate, holder, expired, request, artifact, look, files, age, worker, faults,
                  outdated, scored>>

\* A checkpoint's time comes, or that of the last one has gone by.
Mature(a) ==
  /\ artifact[a].role \in {"candidate", "incumbent"} /\ age[a] <= Looks
  /\ age' = [age EXCEPT ![a] = @ + 1]
  /\ UNCHANGED <<rows, files, worker, faults, outdated, scored>>

-----------------------------------------------------------------------------
Step(w) ==
  \/ Prepare(w) \/ Acquire(w) \/ BeginCycle(w) \/ EnqueueScheduled(w) \/ ReadReferences(w)
  \/ EndReview(w) \/ ClaimDecision(w) \/ FinishDecision(w) \/ Retire(w) \/ ClaimRequest(w)
  \/ Fit(w) \/ FitNothing(w) \/ Sign(w) \/ ReadState(w) \/ Publish(w) \/ RefusePublication(w)
  \/ ReadBack(w) \/ FinishRequest(w) \/ RetireWithComparator(w) \/ LoseRun(w) \/ Prune(w)
  \/ Release(w)

Fault(w) == LoseCommit(w) \/ Fail(w) \/ FindDamage(w) \/ Cancel(w) \/ Crash(w)

Environment ==
  \/ \E r \in Request : QueueRequest(r)
  \/ \E enabled \in BOOLEAN : SetMaintenance(enabled)
  \/ Reset \/ Expire \/ CycleDue
  \/ \E a \in Artifact : Mature(a)

Next == (\E w \in Worker : Step(w) \/ Fault(w)) \/ Environment

Spec == Init /\ [][Next]_vars

\* The poller runs its job again and again, a run takes its next step, and time
\* passes.
FairSpec ==
  /\ Spec
  /\ \A w \in Worker : WF_vars(Step(w))
  /\ WF_vars(Expire) /\ WF_vars(CycleDue)
  /\ \A a \in Artifact : WF_vars(Mature(a))

-----------------------------------------------------------------------------
(* Properties.                                                             *)

\* A component has at most one candidate and one incumbent at any time, whatever
\* runs overlap: publish() decides this, the unique indexes need never refuse.
OneOfEachRole ==
  \A a, b \in Artifact : \A role \in {"candidate", "incumbent"} :
    HasRole(a, role) /\ HasRole(b, role) => a = b

\* A reset is final: a model fitted to data read before it never has a role again,
\* not even when its run publishes after the gate is on again.
ResetIsFinal == \A a \in outdated : artifact[a].role \notin Protected

\* A checkpoint is looked at once: the evidence is scored at most once for it, whichever
\* runs die or lose their lease in between ("reviews and retries add no looks").
OneLookEach == \A a \in Artifact : \A n \in 1..Looks : scored[a][n] <= 1

\* The evidence of a candidate or incumbent can always be scored: neither its file
\* nor that of the comparator it was frozen against is pruned.
ComparatorsKept ==
  \A a \in Artifact : artifact[a].role \in {"candidate", "incumbent"} =>
    \A b \in {a, artifact[a].comparator} \ {None} : b \in files

\* At most one request runs at a time, so the unique index on running requests
\* never fails a claim.
OneRunning ==
  \A r, q \in Request :
    request[r].status = "running" /\ request[q].status = "running" => r = q

\* A request that was claimed leaves "running" again, whatever happens to its run.
RunningEnds ==
  \A r \in Request : request[r].status = "running" ~> request[r].status # "running"

\* While maintenance stays enabled a candidate is promoted or retired in the end, even
\* if the run that had claimed its last checkpoint died before scoring it.
CandidatesEnd ==
  \A a \in Artifact : <>[]setting => (HasRole(a, "candidate") ~> ~HasRole(a, "candidate"))
=============================================================================
