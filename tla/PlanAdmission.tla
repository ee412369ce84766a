---------------------------- MODULE PlanAdmission ----------------------------
(***************************************************************************)
(* From a request to a stored diagnostic plan.  The API and the poller     *)
(* queue requests, the settings service revises the house contract, and    *)
(* one optimizer process runs two jobs, the queue and the hourly plan.     *)
(* A plan is solved for a frozen contract revision and admitted only if    *)
(* that revision, and the dependency generation, are still the current     *)
(* ones; a revision makes the plans of the previous one stale.             *)
(*                                                                         *)
(* A step is a database transaction, or the part of one that matters: the  *)
(* admission transaction holds the contract lock from its check to its     *)
(* commit.  Solving is left out.                                           *)
(***************************************************************************)
EXTENDS Naturals, Sequences, FiniteSets

CONSTANTS
  None,             \* no request: a plan of the hourly job
  Request,          \* rows of optimization_requests, each created once
  MaxRevision,      \* bound on contract revisions
  MaxGeneration,    \* bound on dependency generations
  MaxPlans          \* bound on stored plans

ASSUME PlanAdmissionAssumption ==
  /\ None \notin Request
  /\ MaxRevision \in Nat \ {0}
  /\ MaxGeneration \in Nat /\ MaxPlans \in Nat

VARIABLES
  current,       \* the current contract revision; revisions are numbered in order
  qualified,     \* the inputs installed with the optimizer still give that revision
  generation,    \* counts the changes of either dependency generation
  request,       \* the queue
  order,         \* requests in the order of requested_at
  plans,         \* stored plans
  job            \* the optimizer's jobs

vars == <<current, qualified, generation, request, order, plans, job>>

-----------------------------------------------------------------------------
Job == {"manual", "scheduled"}

\* A request row.  overdue: started more than thirty minutes ago; queuedAt: the
\* revision at the time it was queued, whatever the row says.
RequestRow ==
  [status : {"unused", "pending", "running", "completed", "failed"},
   by : {"api", "price_horizon"}, revision : 0..MaxRevision, queuedAt : 0..MaxRevision,
   overdue : BOOLEAN, plan : 0..MaxPlans, error : {"none", "changed", "no_plan", "abandoned"}]

Plan == [for : Request \cup {None}, revision : 1..MaxRevision, generation : 0..MaxGeneration,
         state : {"current", "stale"}]

\* claimed: run_optimization called; frozen: it holds the optimization lock and
\* has read the contract; checked: it holds the contract lock too; done: it has
\* returned a plan or none.
JobState ==
  [at : {"idle", "claimed", "frozen", "checked", "done"}, request : Request \cup {None},
   revision : 0..MaxRevision, generation : 0..MaxGeneration, plan : 0..MaxPlans]

IdleJob == [at |-> "idle", request |-> None, revision |-> 0, generation |-> 0, plan |-> 0]

Unused == [status |-> "unused", by |-> "api", revision |-> 0, queuedAt |-> 0, overdue |-> FALSE,
           plan |-> 0, error |-> "none"]

TypeOK ==
  /\ current \in 1..MaxRevision
  /\ qualified \in BOOLEAN
  /\ generation \in 0..MaxGeneration
  /\ request \in [Request -> RequestRow]
  /\ order \in Seq(Request)
  /\ plans \in Seq(Plan) /\ Len(plans) <= MaxPlans
  /\ job \in [Job -> JobState]

Init ==
  /\ current = 1
  /\ qualified = TRUE
  /\ generation = 0
  /\ request = [r \in Request |-> Unused]
  /\ order = <<>>
  /\ plans = <<>>
  /\ job = [j \in Job |-> IdleJob]

ContractUnlocked == \A j \in Job : job[j].at # "checked"
OptimizationUnlocked == \A j \in Job : job[j].at \notin {"frozen", "checked"}

-----------------------------------------------------------------------------
(***************************************************************************)
(* The settings service.                                                   *)
(***************************************************************************)

\* Changed contents become the next revision, even contents an earlier one had,
\* and make the plans of the previous one stale.  The API writes it, from the
\* defaults and the time zone data installed with the API, which need not be
\* those of the optimizer; a save repairs an optimizer that has the same.
Revised(changed) ==
  IF ~changed THEN UNCHANGED <<current, qualified, plans>>
  ELSE /\ current < MaxRevision
       /\ current' = current + 1
       /\ qualified' \in BOOLEAN
       /\ plans' = [i \in DOMAIN plans |-> IF plans[i].revision = current
                                             THEN [plans[i] EXCEPT !.state = "stale"]
                                             ELSE plans[i]]

Depends(changed) ==
  IF changed THEN generation < MaxGeneration /\ generation' = generation + 1
             ELSE UNCHANGED generation

\* Mutant: settings are written without waiting for the contract lock.
SaveUnlocked(contract, dependency) ==
  /\ Revised(contract)
  /\ Depends(dependency)
  /\ UNCHANGED <<request, order, job>>

\* set_settings_bulk: one transaction under the contract lock for contract keys
\* and for the weather provider and sensor selections planning depends on.
Save(contract, dependency) ==
  /\ ContractUnlocked
  /\ Revised(contract)
  /\ Depends(dependency)
  /\ UNCHANGED <<request, order, job>>

-----------------------------------------------------------------------------
(***************************************************************************)
(* Producers of requests.                                                  *)
(***************************************************************************)
Queue(r, by, revision) ==
  /\ request[r].status = "unused"
  /\ request' = [request EXCEPT ![r] = [Unused EXCEPT !.status = "pending", !.by = by,
                                          !.revision = revision, !.queuedAt = current]]
  /\ order' = Append(order, r)
  /\ UNCHANGED <<current, qualified, generation, plans, job>>

\* POST /api/optimize-now.  Whether the API's own inputs give the current
\* revision is not asked for: if they do not, no request is queued.
OptimizeNow(r) == ContractUnlocked /\ Queue(r, "api", current)

\* _queue_price_horizon_reoptimization: one outstanding request at a time, and
\* no contract columns.
PricesComplete(r) ==
  /\ \A q \in Request : ~(request[q].by = "price_horizon" /\ request[q].status \in {"pending", "running"})
  /\ Queue(r, "price_horizon", 0)

-----------------------------------------------------------------------------
(***************************************************************************)
(* process_pending_optimization_requests and run_optimization.             *)
(***************************************************************************)
Ended(row, status, error) ==
  [row EXCEPT !.status = status, !.error = error, !.overdue = FALSE]

\* Mutant: abandoned requests are run again.
Requeued(q) == [r \in Request |->
  IF q[r].status = "running" /\ q[r].overdue THEN [q[r] EXCEPT !.status = "pending"] ELSE q[r]]

\* Mutant: abandoned requests are left alone.
LeftRunning(q) == q

\* _fail_abandoned_optimization_requests
Settled(q) == [r \in Request |->
  IF q[r].status = "running" /\ q[r].overdue THEN Ended(q[r], "failed", "abandoned") ELSE q[r]]

IsPending(r) == request[r].status = "pending"

OldestPending ==
  {order[i] : i \in {k \in DOMAIN order : /\ IsPending(order[k])
                                           /\ \A l \in 1..(k - 1) : ~IsPending(order[l])}}

\* One transaction: fail what was abandoned, then claim or refuse the oldest
\* pending request.  The contract is read only if there is one; if the installed
\* inputs no longer give the revision, ensure_current_contract raises and the
\* whole transaction is rolled back, what it had failed as abandoned included.
Claim ==
  /\ job["manual"].at = "idle"
  /\ \/ OldestPending = {} /\ request' = Settled(request) /\ UNCHANGED job
     \/ /\ ContractUnlocked
        /\ qualified
        /\ \E r \in OldestPending :
             IF request[r].revision # current
               THEN /\ request' = [Settled(request) EXCEPT ![r] = Ended(@, "failed", "changed")]
                    /\ UNCHANGED job
               ELSE /\ request' = [Settled(request) EXCEPT ![r].status = "running"]
                    /\ job' = [job EXCEPT !["manual"] =
                                 [IdleJob EXCEPT !.at = "claimed", !.request = r]]
  /\ UNCHANGED <<current, qualified, generation, order, plans>>

\* The hourly job, unless a recent plan exists.
StartScheduled ==
  /\ job["scheduled"].at = "idle"
  /\ job' = [job EXCEPT !["scheduled"].at = "claimed"]
  /\ UNCHANGED <<current, qualified, generation, request, order, plans>>

Returns(j, plan) == job' = [job EXCEPT ![j].at = "done", ![j].plan = plan]

\* Mutant: the revision the request was made for is not compared.
FreezeAny(j) ==
  /\ job[j].at = "claimed"
  /\ OptimizationUnlocked
  /\ qualified
  /\ job' = [job EXCEPT ![j].at = "frozen", ![j].revision = current, ![j].generation = generation]
  /\ UNCHANGED <<current, qualified, generation, request, order, plans>>

\* Reads the contract.  Inputs that no longer give its revision are an error
\* (NoPlan).
Freeze(j) ==
  /\ job[j].at = "claimed"
  /\ OptimizationUnlocked
  /\ qualified
  /\ IF job[j].request # None /\ request[job[j].request].revision # current
       THEN Returns(j, 0)
       ELSE job' = [job EXCEPT ![j].at = "frozen", ![j].revision = current,
                               ![j].generation = generation]
  /\ UNCHANGED <<current, qualified, generation, request, order, plans>>

\* Learning state unknown, unready data, no solution, a refused admission, an
\* error before or in the admission transaction, one of reading the contract
\* included.
NoPlan(j) ==
  /\ \/ job[j].at = "claimed" /\ OptimizationUnlocked
     \/ job[j].at \in {"frozen", "checked"}
  /\ Returns(j, 0)
  /\ UNCHANGED <<current, qualified, generation, request, order, plans>>

\* Mutant: only the contract revision is compared.
AdmitRevision(j) ==
  /\ job[j].at = "frozen"
  /\ qualified
  /\ job[j].revision = current
  /\ job' = [job EXCEPT ![j].at = "checked"]
  /\ UNCHANGED <<current, qualified, generation, request, order, plans>>

\* The admission transaction takes the contract lock and compares.
Admit(j) ==
  /\ job[j].at = "frozen"
  /\ qualified
  /\ job[j].revision = current
  /\ job[j].generation = generation
  /\ job' = [job EXCEPT ![j].at = "checked"]
  /\ UNCHANGED <<current, qualified, generation, request, order, plans>>

\* It commits; the optimizer may not learn of it.
Store(j) ==
  /\ job[j].at = "checked"
  /\ Len(plans) < MaxPlans
  /\ plans' = Append(plans, [for |-> job[j].request, revision |-> job[j].revision,
                             generation |-> job[j].generation, state |-> "current"])
  /\ \E known \in {0, Len(plans) + 1} : Returns(j, known)
  /\ UNCHANGED <<current, qualified, generation, request, order>>

\* The request is completed, or failed with the reason; or the transaction that
\* says so fails, as it does without a plan if the contract cannot be read.
FinishManual ==
  LET m == job["manual"]
  IN  /\ m.at = "done"
      /\ m.plan = 0 => ContractUnlocked
      /\ \/ /\ m.plan = 0 => qualified
            /\ request' = [request EXCEPT ![m.request] =
                 IF m.plan # 0 THEN [Ended(@, "completed", "none") EXCEPT !.plan = m.plan]
                 ELSE IF @.revision # current THEN Ended(@, "failed", "changed")
                 ELSE Ended(@, "failed", "no_plan")]
         \/ UNCHANGED request
      /\ job' = [job EXCEPT !["manual"] = IdleJob]
      /\ UNCHANGED <<current, qualified, generation, order, plans>>

FinishScheduled ==
  /\ job["scheduled"].at = "done"
  /\ job' = [job EXCEPT !["scheduled"] = IdleJob]
  /\ UNCHANGED <<current, qualified, generation, request, order, plans>>

\* The optimizer process dies and is restarted.
Crash ==
  /\ \E j \in Job : job[j].at # "idle"
  /\ job' = [j \in Job |-> IdleJob]
  /\ UNCHANGED <<current, qualified, generation, request, order, plans>>

\* It is started with other defaults in its environment or other time zone data:
\* a contract value nobody has saved, and the time zone data, come from there.
Reinstall ==
  /\ \A j \in Job : job[j].at = "idle"
  /\ qualified' = ~qualified
  /\ UNCHANGED <<current, generation, request, order, plans, job>>

\* Thirty minutes have passed since the request was started.
Overdue(r) ==
  /\ request[r].status = "running"
  /\ ~request[r].overdue
  /\ request' = [request EXCEPT ![r].overdue = TRUE]
  /\ UNCHANGED <<current, qualified, generation, order, plans, job>>

Run(j) == Freeze(j) \/ NoPlan(j) \/ Admit(j) \/ Store(j)

Next ==
  \/ \E contract, dependency \in BOOLEAN : Save(contract, dependency)
  \/ \E r \in Request : OptimizeNow(r) \/ PricesComplete(r) \/ Overdue(r)
  \/ Claim \/ StartScheduled
  \/ \E j \in Job : Run(j)
  \/ FinishManual \/ FinishScheduled \/ Crash \/ Reinstall

Spec == Init /\ [][Next]_vars

\* The queue is polled every fifteen seconds and the contract lock is granted in
\* the order it was asked for; a run ends, or its process is restarted.  Nothing
\* says that the installed inputs will give the current revision again.
FairSpec ==
  /\ Spec
  /\ SF_vars(Claim)
  /\ SF_vars(FinishManual)
  /\ WF_vars(FinishScheduled)
  /\ \A j \in Job : SF_vars(Run(j))
  /\ \A r \in Request : WF_vars(Overdue(r))

-----------------------------------------------------------------------------
(***************************************************************************)
(* Properties.                                                             *)
(***************************************************************************)

\* A plan shown as current was made for the contract that is current, however
\* settings writes and admissions interleave.
CurrentPlansAreCurrent ==
  \A i \in DOMAIN plans : plans[i].state = "current" <=> plans[i].revision = current

\* A request that is completed names a stored plan, made for it and for the
\* contract revision it was queued with.
CompletedHasItsPlan ==
  \A r \in Request : request[r].status = "completed" =>
    /\ request[r].plan \in DOMAIN plans
    /\ plans[request[r].plan].for = r
    /\ plans[request[r].plan].revision = request[r].revision

\* No request leads to two plans, whenever the optimizer stops and restarts.
OnePlanPerRequest ==
  \A i, k \in DOMAIN plans : (plans[i].for = plans[k].for /\ plans[i].for # None) => i = k

\* A plan is stored only while the inputs it was solved for are in force.
StoredForItsInputs ==
  [][Len(plans') > Len(plans) =>
       LET p == plans'[Len(plans')]
       IN  p.revision = current /\ p.generation = generation]_vars

Abandoned == {r \in Request : request[r].status = "running" /\ request[r].overdue}

\* A request the optimizer has not finished with is in the hands of its job, or
\* will be failed: once the installed inputs give the current contract for good,
\* none stays pending or running for ever.  While they do not, a lost run is
\* still ended, unless another request waits: the poll that would end it reads
\* the contract for the other one and is rolled back.
RequestsEnd ==
  /\ <>[]qualified => \A r \in Request :
       request[r].status \in {"pending", "running"} ~> request[r].status \in {"completed", "failed"}
  /\ Abandoned # {} ~> (Abandoned = {} \/ OldestPending # {})

\* A request is refused for a changed contract only if the contract has changed
\* since it was queued.
RefusedOnlyIfChanged ==
  \A r \in Request : request[r].error = "changed" => current > request[r].queuedAt
=============================================================================
