------------------------ MODULE PlanAdmissionProofs ------------------------
(***************************************************************************)
(* Proofs about PlanAdmission, for any set of requests and any bounds on   *)
(* revisions, generations and plans.                                       *)
(***************************************************************************)
EXTENDS PlanAdmission, SequenceTheorems, TLAPS

\* The steps of a run that has not yet stored a plan.
Working == {"claimed", "frozen", "checked"}

NoPlanFor(r) == \A i \in DOMAIN plans : plans[i].for # r

\* The admission transaction has compared, and settings wait for its lock.
CheckedIsCurrent ==
  \A j \in Job : job[j].at = "checked" =>
    job[j].revision = current /\ job[j].generation = generation

\* No plan was made for a contract that does not exist yet.
PlansArePast == \A i \in DOMAIN plans : plans[i].revision <= current

ScheduledServesNone == job["scheduled"].request = None

WaitingHaveNoPlan ==
  \A r \in Request : request[r].status \in {"unused", "pending"} => NoPlanFor(r)

\* What the manual job knows about the request it has claimed.
ManualServesItsRequest ==
  LET m == job["manual"]
  IN  m.at # "idle" =>
        /\ m.request \in Request
        /\ request[m.request].status \notin {"unused", "pending"}
        /\ m.at \in Working => NoPlanFor(m.request)
        /\ m.at \in {"frozen", "checked"} => request[m.request].revision = m.revision
        /\ (m.at = "done" /\ m.plan # 0) =>
             /\ m.plan \in DOMAIN plans
             /\ plans[m.plan].for = m.request
             /\ plans[m.plan].revision = request[m.request].revision

PlanInv == CheckedIsCurrent /\ PlansArePast /\ CurrentPlansAreCurrent

RequestInv ==
  /\ ScheduledServesNone
  /\ WaitingHaveNoPlan
  /\ ManualServesItsRequest
  /\ CompletedHasItsPlan
  /\ OnePlanPerRequest

IInv == TypeOK /\ PlanInv /\ RequestInv

-----------------------------------------------------------------------------
(***************************************************************************)
(* Type correctness.                                                       *)
(***************************************************************************)
\* At the start of the system.
LEMMA TypeInitially == Init => TypeOK
  BY PlanAdmissionAssumption DEF Init, TypeOK, Unused, RequestRow, IdleJob, JobState, Job

\* What the transaction that polls the queue first does to its rows.
LEMMA SettledType ==
  ASSUME request \in [Request -> RequestRow]
  PROVE  /\ Settled(request) \in [Request -> RequestRow]
         /\ \A r \in Request :
              /\ Settled(request)[r].status # "running" => Settled(request)[r].status \in
                   {request[r].status, "failed"}
              /\ Settled(request)[r].plan = request[r].plan
              /\ Settled(request)[r].revision = request[r].revision
              /\ request[r].status = "completed" => Settled(request)[r].status = "completed"
              /\ Settled(request)[r].status \in {request[r].status, "failed"}
  BY DEF Settled, Ended, RequestRow

\* Stored plans and queued requests, one by one.
LEMMA Elements ==
  ASSUME TypeOK
  PROVE  /\ Len(plans) \in Nat /\ DOMAIN plans = 1..Len(plans)
         /\ \A i \in DOMAIN plans : plans[i] \in Plan
         /\ DOMAIN order = 1..Len(order) /\ \A i \in DOMAIN order : order[i] \in Request
<1>1. plans \in Seq(Plan) /\ order \in Seq(Request)
  BY DEF TypeOK
<1>2. Len(plans) \in Nat /\ DOMAIN plans = 1..Len(plans) /\ DOMAIN order = 1..Len(order)
  BY <1>1, LenProperties
<1> QED
  BY <1>1, <1>2, ElementOfSeq

\* What the optimizer's jobs do to their own state.
LEMMA Advances ==
  ASSUME NEW j \in Job, job \in [Job -> JobState], NEW step \in {"frozen", "checked", "done"},
         NEW revision \in 0..MaxRevision, NEW gen \in 0..MaxGeneration, NEW plan \in 0..MaxPlans
  PROVE  /\ [job EXCEPT ![j].at = step] \in [Job -> JobState]
         /\ [job EXCEPT ![j].at = step, ![j].plan = plan] \in [Job -> JobState]
         /\ [job EXCEPT ![j].at = step, ![j].revision = revision, ![j].generation = gen]
              \in [Job -> JobState]
<1>1. job[j] \in JobState
  OBVIOUS
<1>2. /\ [job[j] EXCEPT !.at = step] \in JobState
      /\ [job[j] EXCEPT !.at = step, !.plan = plan] \in JobState
      /\ [job[j] EXCEPT !.at = step, !.revision = revision, !.generation = gen] \in JobState
  BY <1>1 DEF JobState
<1> QED
  BY <1>2

\* What the queue does to a row.
LEMMA Updates ==
  ASSUME NEW rows \in [Request -> RequestRow], NEW r \in Request,
         NEW status \in {"pending", "running", "completed", "failed"},
         NEW error \in {"none", "changed", "no_plan", "abandoned"}, NEW plan \in 0..MaxPlans
  PROVE  /\ [rows EXCEPT ![r].status = status] \in [Request -> RequestRow]
         /\ [rows EXCEPT ![r] = Ended(@, status, error)] \in [Request -> RequestRow]
         /\ [rows EXCEPT ![r] = [Ended(@, status, error) EXCEPT !.plan = plan]]
              \in [Request -> RequestRow]
<1>1. rows[r] \in RequestRow
  OBVIOUS
<1>2. /\ [rows[r] EXCEPT !.status = status] \in RequestRow
      /\ Ended(rows[r], status, error) \in RequestRow
      /\ [Ended(rows[r], status, error) EXCEPT !.plan = plan] \in RequestRow
  BY <1>1 DEF RequestRow, Ended
<1> QED
  BY <1>2

\* A request is queued as a row.
LEMMA QueuedRow ==
  ASSUME NEW by \in {"api", "price_horizon"}, NEW revision \in 0..MaxRevision,
         NEW queued \in 0..MaxRevision
  PROVE  [Unused EXCEPT !.status = "pending", !.by = by, !.revision = revision,
                        !.queuedAt = queued] \in RequestRow
<1>1. Unused \in RequestRow
  BY PlanAdmissionAssumption DEF Unused, RequestRow
<1>2. \A row \in RequestRow : [row EXCEPT !.status = "pending"] \in RequestRow
  BY DEF RequestRow
<1>3. \A row \in RequestRow : [row EXCEPT !.by = by] \in RequestRow
  BY DEF RequestRow
<1>4. \A row \in RequestRow : [row EXCEPT !.revision = revision] \in RequestRow
  BY DEF RequestRow
<1>5. \A row \in RequestRow : [row EXCEPT !.queuedAt = queued] \in RequestRow
  BY DEF RequestRow
<1> QED
  BY <1>1, <1>2, <1>3, <1>4, <1>5

\* A claim takes at most one row further than settling what was abandoned.
LEMMA Claims ==
  ASSUME TypeOK, Claim
  PROVE  \/ request' = Settled(request) /\ job' = job
         \/ \E r \in Request :
              /\ request[r].status = "pending"
              /\ \/ /\ request' = [Settled(request) EXCEPT ![r] = Ended(@, "failed", "changed")]
                    /\ job' = job
                 \/ /\ request' = [Settled(request) EXCEPT ![r].status = "running"]
                    /\ job' = [job EXCEPT !["manual"] =
                                 [IdleJob EXCEPT !.at = "claimed", !.request = r]]
<1>1. \A r \in OldestPending : r \in Request /\ request[r].status = "pending"
  BY Elements DEF OldestPending, IsPending
<1> QED
  BY <1>1 DEF Claim

\* What the manual job writes back to the request it served.
LEMMA Finishes ==
  ASSUME FinishManual
  PROVE  LET m == job["manual"]
         IN  \/ /\ m.plan # 0
                /\ request' = [request EXCEPT ![m.request] =
                                 [Ended(@, "completed", "none") EXCEPT !.plan = m.plan]]
             \/ request' = [request EXCEPT ![m.request] = Ended(@, "failed", "changed")]
             \/ request' = [request EXCEPT ![m.request] = Ended(@, "failed", "no_plan")]
             \/ request' = request
<1> DEFINE m == job["manual"]
<1>1. CASE m.plan # 0
  BY <1>1 DEF FinishManual
<1>2. CASE m.plan = 0 /\ request[m.request].revision # current
  BY <1>2 DEF FinishManual
<1>3. CASE m.plan = 0 /\ request[m.request].revision = current
  BY <1>3 DEF FinishManual
<1> QED
  BY <1>1, <1>2, <1>3

\* Between two runs a job has the type of one.
LEMMA IdleJobType == IdleJob \in JobState
  BY PlanAdmissionAssumption DEF IdleJob, JobState

\* Every step keeps the types, the admission being where the plan's revision is one.
LEMMA TypePreserved ==
  ASSUME TypeOK, CheckedIsCurrent, [Next]_vars
  PROVE  TypeOK'
<1> USE PlanAdmissionAssumption
<1>1. CASE UNCHANGED vars
  BY <1>1 DEF vars, TypeOK
<1>2. ASSUME NEW contract \in BOOLEAN, NEW dependency \in BOOLEAN, Save(contract, dependency)
      PROVE  TypeOK'
  <2>1. /\ current' \in 1..MaxRevision /\ generation' \in 0..MaxGeneration
        /\ qualified' \in BOOLEAN
    BY <1>2 DEF Save, Revised, Depends, TypeOK
  <2>2. plans' \in Seq(Plan) /\ Len(plans') <= MaxPlans
    <3>1. CASE plans' = plans
      BY <3>1 DEF TypeOK
    <3>2. CASE plans' = [i \in DOMAIN plans |-> IF plans[i].revision = current
                                                  THEN [plans[i] EXCEPT !.state = "stale"]
                                                  ELSE plans[i]]
      <4>1. \A i \in 1..Len(plans) : plans'[i] \in Plan
        BY <3>2, Elements DEF Plan
      <4>2. plans' \in [1..Len(plans) -> Plan] /\ Len(plans) \in Nat
        BY <3>2, <4>1, Elements
      <4>3. plans' \in Seq(Plan)
        BY <4>2, SeqDef
      <4>4. Len(plans') = Len(plans)
        BY <4>2, <4>3, LenProperties
      <4> QED
        BY <4>3, <4>4 DEF TypeOK
    <3> QED
      BY <1>2, <3>1, <3>2 DEF Save, Revised
  <2> QED
    BY <1>2, <2>1, <2>2 DEF Save, TypeOK
<1>3. ASSUME NEW r \in Request, OptimizeNow(r) \/ PricesComplete(r) PROVE TypeOK'
  <2>1. request' \in [Request -> RequestRow]
    <3>1. request \in [Request -> RequestRow] /\ current \in 0..MaxRevision /\ 0 \in 0..MaxRevision
      BY DEF TypeOK
    <3>2. /\ [Unused EXCEPT !.status = "pending", !.by = "api", !.revision = current,
                             !.queuedAt = current] \in RequestRow
          /\ [Unused EXCEPT !.status = "pending", !.by = "price_horizon", !.revision = 0,
                             !.queuedAt = current] \in RequestRow
      BY <3>1, QueuedRow
    <3>3. CASE OptimizeNow(r)
      BY <3>1, <3>2, <3>3 DEF OptimizeNow, Queue
    <3>4. CASE PricesComplete(r)
      BY <3>1, <3>2, <3>4 DEF PricesComplete, Queue
    <3> QED
      BY <1>3, <3>3, <3>4
  <2>2. order' \in Seq(Request)
    <3>1. order \in Seq(Request) /\ order' = Append(order, r)
      BY <1>3 DEF OptimizeNow, PricesComplete, Queue, TypeOK
    <3> QED
      BY <3>1, AppendProperties
  <2> QED
    BY <1>3, <2>1, <2>2 DEF OptimizeNow, PricesComplete, Queue, TypeOK
<1>4. ASSUME NEW r \in Request, Overdue(r) PROVE TypeOK'
  BY ZenonT(40), <1>4 DEF Overdue, TypeOK, RequestRow
<1>5. ASSUME Claim PROVE TypeOK'
  <2>1. Settled(request) \in [Request -> RequestRow]
    BY SettledType DEF TypeOK
  <2>2. 0 \in 0..MaxPlans
    OBVIOUS
  <2>3. request' \in [Request -> RequestRow]
    <3>1. ASSUME NEW r \in Request
          PROVE  /\ [Settled(request) EXCEPT ![r] = Ended(@, "failed", "changed")]
                      \in [Request -> RequestRow]
                 /\ [Settled(request) EXCEPT ![r].status = "running"]
                      \in [Request -> RequestRow]
      BY <2>1, <2>2, Updates
    <3> QED
      BY <1>5, <2>1, <3>1, Claims
  <2>4. job' \in [Job -> JobState]
    <3>1. \A r \in Request : [IdleJob EXCEPT !.at = "claimed", !.request = r] \in JobState
      BY IdleJobType DEF JobState
    <3> QED
      BY <1>5, <3>1, Claims DEF TypeOK
  <2> QED
    BY <1>5, <2>3, <2>4 DEF Claim, TypeOK
<1>6. ASSUME NEW j \in Job, Freeze(j) \/ NoPlan(j) \/ Admit(j) PROVE TypeOK'
  <2>1. job \in [Job -> JobState] /\ current \in 0..MaxRevision /\ generation \in 0..MaxGeneration
    BY DEF TypeOK
  <2>2. 0 \in 0..MaxPlans
    OBVIOUS
  <2>3. CASE Freeze(j)
    <3>1. job' \in [Job -> JobState]
      <4>1. /\ [job EXCEPT ![j].at = "done", ![j].plan = 0] \in [Job -> JobState]
            /\ [job EXCEPT ![j].at = "frozen", ![j].revision = current,
                           ![j].generation = generation] \in [Job -> JobState]
        BY <2>1, <2>2, Advances
      <4> QED
        BY <2>3, <4>1 DEF Freeze, Returns
    <3> QED
      BY <2>3, <3>1 DEF Freeze, TypeOK
  <2>4. CASE NoPlan(j)
    <3>1. job' \in [Job -> JobState]
      BY <2>1, <2>2, <2>4, Advances DEF NoPlan, Returns
    <3> QED
      BY <2>4, <3>1 DEF NoPlan, TypeOK
  <2>5. CASE Admit(j)
    <3>1. job' \in [Job -> JobState]
      BY <2>1, <2>2, <2>5, Advances DEF Admit
    <3> QED
      BY <2>5, <3>1 DEF Admit, TypeOK
  <2> QED
    BY <1>6, <2>3, <2>4, <2>5
<1>7. ASSUME NEW j \in Job, Store(j) PROVE TypeOK'
  <2> DEFINE plan == [for |-> job[j].request, revision |-> job[j].revision,
                      generation |-> job[j].generation, state |-> "current"]
  <2>1. job \in [Job -> JobState] /\ plans \in Seq(Plan) /\ job[j] \in JobState
    BY DEF TypeOK
  <2>2. plan \in Plan
    <3>1. job[j].revision \in 1..MaxRevision
      BY <1>7 DEF Store, CheckedIsCurrent, TypeOK
    <3> QED
      BY <2>1, <3>1 DEF JobState, Plan
  <2>3. plans' \in Seq(Plan) /\ Len(plans') = Len(plans) + 1
    BY <1>7, <2>1, <2>2, AppendProperties DEF Store
  <2>4. Len(plans) \in Nat /\ Len(plans) < MaxPlans
    BY <1>7, Elements DEF Store
  <2>5. 0 \in 0..MaxPlans /\ Len(plans) + 1 \in 0..MaxPlans
    BY <2>4
  <2>6. job' \in [Job -> JobState]
    <3>1. current \in 0..MaxRevision /\ generation \in 0..MaxGeneration
      BY DEF TypeOK
    <3> QED
      <4>1. \A known \in 0..MaxPlans :
              [job EXCEPT ![j].at = "done", ![j].plan = known] \in [Job -> JobState]
        BY <2>1, <3>1, Advances
      <4> QED
        BY <1>7, <2>5, <4>1 DEF Store, Returns
  <2> QED
    BY <1>7, <2>3, <2>4, <2>6 DEF Store, TypeOK
<1>8. ASSUME FinishManual PROVE TypeOK'
  <2>1. request' \in [Request -> RequestRow]
    <3> DEFINE m == job["manual"]
    <3>1. m.plan \in 0..MaxPlans /\ 0 \in 0..MaxPlans /\ request \in [Request -> RequestRow]
      BY DEF TypeOK, Job, JobState
    <3>2. CASE m.request \in Request
      <4>1. /\ [request EXCEPT ![m.request] = [Ended(@, "completed", "none") EXCEPT !.plan = m.plan]]
                  \in [Request -> RequestRow]
            /\ [request EXCEPT ![m.request] = Ended(@, "failed", "changed")]
                  \in [Request -> RequestRow]
            /\ [request EXCEPT ![m.request] = Ended(@, "failed", "no_plan")]
                  \in [Request -> RequestRow]
        BY <3>1, <3>2, Updates
      <4>2. \/ request' = [request EXCEPT ![m.request] =
                              [Ended(@, "completed", "none") EXCEPT !.plan = m.plan]]
            \/ request' = [request EXCEPT ![m.request] = Ended(@, "failed", "changed")]
            \/ request' = [request EXCEPT ![m.request] = Ended(@, "failed", "no_plan")]
            \/ request' = request
        BY <1>8, Finishes
      <4> QED
        BY <3>1, <4>1, <4>2
    <3>3. CASE m.request \notin Request
      BY <1>8, <3>1, <3>3 DEF FinishManual
    <3> QED
      BY <3>2, <3>3
  <2>2. job' \in [Job -> JobState]
    BY <1>8, IdleJobType DEF FinishManual, TypeOK
  <2> QED
    BY <1>8, <2>1, <2>2 DEF FinishManual, TypeOK
<1>9. CASE StartScheduled
  <2>1. [job["scheduled"] EXCEPT !.at = "claimed"] \in JobState
    BY DEF TypeOK, Job, JobState
  <2>2. job' \in [Job -> JobState]
    BY <1>9, <2>1 DEF StartScheduled, TypeOK, Job
  <2> QED
    BY <1>9, <2>2 DEF StartScheduled, TypeOK
<1>10. CASE FinishScheduled \/ Crash
  <2>1. job' \in [Job -> JobState]
    BY <1>10, IdleJobType DEF FinishScheduled, Crash, TypeOK
  <2> QED
    BY <1>10, <2>1 DEF FinishScheduled, Crash, TypeOK
<1>11. CASE Reinstall
  BY <1>11 DEF Reinstall, TypeOK
<1> QED
  BY <1>1, <1>2, <1>3, <1>4, <1>5, <1>6, <1>7, <1>8, <1>9, <1>10, <1>11 DEF Next, Run

-----------------------------------------------------------------------------
(***************************************************************************)
(* The plans are current.                                                  *)
(***************************************************************************)

\* Only an admission takes the contract lock; a run that is not at it stays off it.
LEMMA OnlyAdmitChecks ==
  ASSUME TypeOK,
         \/ \E r \in Request : OptimizeNow(r) \/ PricesComplete(r) \/ Overdue(r)
         \/ Claim \/ StartScheduled \/ FinishManual \/ FinishScheduled \/ Crash \/ Reinstall
         \/ \E j \in Job : Freeze(j) \/ NoPlan(j)
  PROVE  /\ UNCHANGED <<current, generation, plans>>
         /\ \A k \in Job : job'[k].at = "checked" => job'[k] = job[k]
<1>1. ASSUME NEW r \in Request, OptimizeNow(r) \/ PricesComplete(r) \/ Overdue(r)
      PROVE  UNCHANGED <<current, generation, plans, job>>
  BY <1>1 DEF OptimizeNow, PricesComplete, Overdue, Queue
<1>2. CASE Claim
  <2>1. \/ job' = job
        \/ \E r \in Request : job' = [job EXCEPT !["manual"] =
                                        [IdleJob EXCEPT !.at = "claimed", !.request = r]]
    BY <1>2, Claims
  <2> QED
    BY <1>2, <2>1 DEF Claim, IdleJob, TypeOK, Job
<1>3. CASE StartScheduled \/ FinishManual \/ FinishScheduled \/ Crash \/ Reinstall
  BY <1>3 DEF StartScheduled, FinishManual, FinishScheduled, Crash, Reinstall, IdleJob, TypeOK,
              Job, JobState
<1>4. ASSUME NEW j \in Job, Freeze(j) \/ NoPlan(j)
      PROVE  /\ UNCHANGED <<current, generation, plans>>
             /\ \A k \in Job : job'[k].at = "checked" => job'[k] = job[k]
  <2>1. UNCHANGED <<current, generation, plans>>
    BY <1>4 DEF Freeze, NoPlan
  <2>2. \/ job' = [job EXCEPT ![j].at = "done", ![j].plan = 0]
        \/ job' = [job EXCEPT ![j].at = "frozen", ![j].revision = current,
                              ![j].generation = generation]
    BY <1>4 DEF Freeze, NoPlan, Returns
  <2>3. job \in [Job -> JobState]
    BY DEF TypeOK
  <2>4. job'[j].at # "checked" /\ \A k \in Job : k # j => job'[k] = job[k]
    BY <2>2, <2>3 DEF JobState
  <2> QED
    BY <2>1, <2>4
<1> QED
  BY <1>1, <1>2, <1>3, <1>4

\* A revision makes exactly the plans of the one it replaces stale.
LEMMA RevisionsMakeStale ==
  ASSUME TypeOK, PlansArePast, CurrentPlansAreCurrent, NEW changed \in BOOLEAN, Revised(changed)
  PROVE  /\ PlansArePast' /\ CurrentPlansAreCurrent'
         /\ DOMAIN plans' = DOMAIN plans
         /\ \A i \in DOMAIN plans : /\ plans'[i].for = plans[i].for
                                     /\ plans'[i].revision = plans[i].revision
<1>1. CASE ~changed
  BY <1>1 DEF Revised, PlansArePast, CurrentPlansAreCurrent
<1>2. CASE changed
  <2>1. /\ current' = current + 1
        /\ plans' = [i \in DOMAIN plans |-> IF plans[i].revision = current
                                               THEN [plans[i] EXCEPT !.state = "stale"]
                                               ELSE plans[i]]
    BY <1>2 DEF Revised
  <2>2. DOMAIN plans' = DOMAIN plans
    BY <2>1
  <2>3. ASSUME NEW i \in DOMAIN plans
        PROVE  /\ plans'[i].for = plans[i].for
               /\ plans'[i].revision = plans[i].revision
               /\ plans'[i].state # "current"
               /\ plans'[i].revision < current'
    <3>1. plans[i] \in Plan /\ plans[i].revision <= current
      BY Elements DEF PlansArePast
    <3>2. current \in Nat /\ plans[i].revision \in Nat
      BY <3>1 DEF Plan, TypeOK
    <3>3. CASE plans[i].revision = current
      BY <2>1, <3>1, <3>2, <3>3 DEF Plan
    <3>4. CASE plans[i].revision # current
      BY <2>1, <3>1, <3>2, <3>4 DEF CurrentPlansAreCurrent
    <3> QED
      BY <3>3, <3>4
  <2>4. current' \in Nat /\ \A i \in DOMAIN plans : plans'[i].revision \in Nat
    BY <2>1, <2>3, Elements DEF TypeOK, Plan
  <2> QED
    BY <2>2, <2>3, <2>4 DEF PlansArePast, CurrentPlansAreCurrent
<1> QED
  BY <1>1, <1>2

\* What a commit of the admission transaction does to the plans.
LEMMA Stores ==
  ASSUME TypeOK, NEW j \in Job, Store(j)
  PROVE  /\ DOMAIN plans' = 1..(Len(plans) + 1) /\ Len(plans') = Len(plans) + 1
         /\ Len(plans) \in Nat
         /\ \A i \in DOMAIN plans : i \in DOMAIN plans' /\ plans'[i] = plans[i]
         /\ Len(plans) + 1 \notin DOMAIN plans
         /\ \A i \in DOMAIN plans' : i \in DOMAIN plans \/ i = Len(plans) + 1
         /\ plans'[Len(plans) + 1] = [for |-> job[j].request, revision |-> job[j].revision,
                                      generation |-> job[j].generation, state |-> "current"]
         /\ job'[j].at = "done" /\ job'[j].plan \in {0, Len(plans) + 1}
         /\ job'[j].request = job[j].request
         /\ \A k \in Job : k # j => job'[k] = job[k]
<1> DEFINE plan == [for |-> job[j].request, revision |-> job[j].revision,
                    generation |-> job[j].generation, state |-> "current"]
<1>1. plans' = Append(plans, plan) /\ plans \in Seq(Plan)
  BY DEF Store, TypeOK
<1>2. /\ DOMAIN plans = 1..Len(plans) /\ Len(plans) \in Nat
      /\ plans' = [i \in 1..(Len(plans) + 1) |-> IF i = Len(plans) + 1 THEN plan ELSE plans[i]]
      /\ Len(plans') = Len(plans) + 1
  BY <1>1, Elements
<1>3. \E known \in {0, Len(plans) + 1} : job' = [job EXCEPT ![j].at = "done", ![j].plan = known]
  BY DEF Store, Returns
<1>4. job \in [Job -> JobState] /\ job[j] \in JobState
  BY DEF TypeOK
<1>5. /\ job'[j].at = "done" /\ job'[j].plan \in {0, Len(plans) + 1}
      /\ job'[j].request = job[j].request
      /\ \A k \in Job : k # j => job'[k] = job[k]
  BY <1>3, <1>4 DEF JobState
<1> QED
  BY <1>2, <1>5

\* Every step keeps the plans current and the checked runs comparable.
LEMMA PlanInvPreserved ==
  ASSUME TypeOK, PlanInv, [Next]_vars
  PROVE  PlanInv'
<1> USE DEF PlanInv
<1>1. CASE UNCHANGED vars
  BY <1>1 DEF vars, CheckedIsCurrent, PlansArePast, CurrentPlansAreCurrent
<1>2. ASSUME NEW contract \in BOOLEAN, NEW dependency \in BOOLEAN, Save(contract, dependency)
      PROVE  PlanInv'
  <2>1. CheckedIsCurrent'
    BY <1>2 DEF Save, ContractUnlocked, CheckedIsCurrent
  <2> QED
    BY <1>2, <2>1, RevisionsMakeStale DEF Save
<1>3. CASE \/ \E r \in Request : OptimizeNow(r) \/ PricesComplete(r) \/ Overdue(r)
           \/ Claim \/ StartScheduled \/ FinishManual \/ FinishScheduled \/ Crash \/ Reinstall
           \/ \E j \in Job : Freeze(j) \/ NoPlan(j)
  BY <1>3, OnlyAdmitChecks DEF CheckedIsCurrent, PlansArePast, CurrentPlansAreCurrent
<1>4. ASSUME NEW j \in Job, Admit(j) PROVE PlanInv'
  <2>1. job \in [Job -> JobState] /\ job' = [job EXCEPT ![j].at = "checked"]
    BY <1>4 DEF Admit, TypeOK
  <2>2. /\ job'[j].revision = job[j].revision /\ job'[j].generation = job[j].generation
        /\ \A k \in Job : k # j => job'[k] = job[k]
    BY <2>1 DEF JobState
  <2>3. CheckedIsCurrent'
    BY <1>4, <2>2 DEF Admit, CheckedIsCurrent
  <2> QED
    BY <1>4, <2>3 DEF Admit, PlansArePast, CurrentPlansAreCurrent
<1>5. ASSUME NEW j \in Job, Store(j) PROVE PlanInv'
  <2>1. UNCHANGED <<current, generation>> /\ job[j].revision = current
    BY <1>5 DEF Store, CheckedIsCurrent
  <2>2. CheckedIsCurrent'
    BY <1>5, <2>1, Stores DEF CheckedIsCurrent
  <2>3. PlansArePast' /\ CurrentPlansAreCurrent'
    <3>1. \A i \in DOMAIN plans : i \in DOMAIN plans' => plans'[i] = plans[i]
      BY <1>5, Stores
    <3>2. plans'[Len(plans) + 1].revision = current /\ plans'[Len(plans) + 1].state = "current"
      <4>1. plans'[Len(plans) + 1] = [for |-> job[j].request, revision |-> job[j].revision,
                                      generation |-> job[j].generation, state |-> "current"]
        BY <1>5, Stores
      <4> QED
        BY <2>1, <4>1
    <3>3. \A i \in DOMAIN plans' : i \in DOMAIN plans \/ i = Len(plans) + 1
      BY <1>5, Stores
    <3>4. current \in Nat /\ current' = current
      BY <2>1 DEF TypeOK
    <3> QED
      BY <3>1, <3>2, <3>3, <3>4 DEF PlansArePast, CurrentPlansAreCurrent
  <2> QED
    BY <2>2, <2>3
<1> QED
  BY <1>1, <1>2, <1>3, <1>4, <1>5 DEF Next, Run

-----------------------------------------------------------------------------
(***************************************************************************)
(* A request has at most one plan, and a completed one has it.             *)
(***************************************************************************)

\* Steps that store no plan and leave the parts of the rows and of the plans
\* these invariants read as they are.
LEMMA PlansKept ==
  ASSUME TypeOK, RequestInv,
         /\ DOMAIN plans' = DOMAIN plans
         /\ \A i \in DOMAIN plans : /\ plans'[i].for = plans[i].for
                                     /\ plans'[i].revision = plans[i].revision,
         \A r \in Request :
           \/ request'[r] = request[r]
           \/ /\ request[r].status \notin {"unused", "pending"}
              /\ request'[r].status \in {"running", "failed"}
              /\ request'[r].revision = request[r].revision
           \/ /\ request[r].status \in {"unused", "pending"}
              /\ request'[r].status \in {"pending", "failed"}
  PROVE  WaitingHaveNoPlan' /\ CompletedHasItsPlan' /\ OnePlanPerRequest'
<1> USE DEF RequestInv
<1>1. \A r \in Request : NoPlanFor(r) => NoPlanFor(r)'
  BY DEF NoPlanFor
<1>2. WaitingHaveNoPlan'
  BY <1>1 DEF WaitingHaveNoPlan
<1>3. CompletedHasItsPlan'
  BY DEF CompletedHasItsPlan
<1>4. OnePlanPerRequest'
  BY DEF OnePlanPerRequest
<1> QED
  BY <1>2, <1>3, <1>4

\* The same for the manual job, when it stays at its step or moves one on.
LEMMA ManualKept ==
  ASSUME TypeOK, ManualServesItsRequest,
         /\ DOMAIN plans' = DOMAIN plans
         /\ \A i \in DOMAIN plans : /\ plans'[i].for = plans[i].for
                                     /\ plans'[i].revision = plans[i].revision,
         \A r \in Request : request[r].status \notin {"unused", "pending"} =>
           /\ request'[r].status \notin {"unused", "pending"}
           /\ request'[r].revision = request[r].revision,
         job'["manual"] = job["manual"]
  PROVE  ManualServesItsRequest'
  BY DEF ManualServesItsRequest, NoPlanFor

\* Every step keeps requests, their runs and their plans together.
LEMMA RequestInvPreserved ==
  ASSUME TypeOK, PlanInv, RequestInv, [Next]_vars
  PROVE  RequestInv'
<1> USE DEF RequestInv
<1> DEFINE Kept == /\ DOMAIN plans' = DOMAIN plans
                   /\ \A i \in DOMAIN plans : /\ plans'[i].for = plans[i].for
                                               /\ plans'[i].revision = plans[i].revision
<1>1. CASE UNCHANGED vars
  BY <1>1 DEF vars, ScheduledServesNone, WaitingHaveNoPlan, ManualServesItsRequest,
              CompletedHasItsPlan, OnePlanPerRequest, NoPlanFor
<1>2. ASSUME NEW contract \in BOOLEAN, NEW dependency \in BOOLEAN, Save(contract, dependency)
      PROVE  RequestInv'
  <2>1. Kept
    BY <1>2, RevisionsMakeStale DEF Save, PlanInv
  <2>2. request' = request /\ job' = job
    BY <1>2 DEF Save
  <2> QED
    BY <2>1, <2>2, PlansKept, ManualKept DEF ScheduledServesNone
<1>3. ASSUME NEW r \in Request, OptimizeNow(r) \/ PricesComplete(r)
      PROVE  RequestInv'
  <2>1. plans' = plans /\ job' = job
    BY <1>3 DEF OptimizeNow, PricesComplete, Queue
  <2>2. request[r].status = "unused" /\ request \in [Request -> RequestRow]
    BY <1>3 DEF OptimizeNow, PricesComplete, Queue, TypeOK
  <2>3. request'[r].status = "pending" /\ \A q \in Request : q # r => request'[q] = request[q]
    BY <1>3, <2>2 DEF OptimizeNow, PricesComplete, Queue, Unused
  <2>4. WaitingHaveNoPlan' /\ CompletedHasItsPlan' /\ OnePlanPerRequest'
    BY <2>1, <2>2, <2>3, PlansKept
  <2>5. ManualServesItsRequest'
    BY <2>1, <2>2, <2>3, ManualKept
  <2> QED
    BY <2>1, <2>4, <2>5 DEF ScheduledServesNone
<1>4. ASSUME NEW r \in Request, Overdue(r) PROVE RequestInv'
  <2>1. plans' = plans /\ job' = job /\ request \in [Request -> RequestRow]
    BY <1>4 DEF Overdue, TypeOK
  <2>2. \A q \in Request : /\ request'[q].status = request[q].status
                           /\ request'[q].revision = request[q].revision
                           /\ q # r => request'[q] = request[q]
    BY <1>4, <2>1 DEF Overdue, RequestRow
  <2>3. request[r].status = "running"
    BY <1>4 DEF Overdue
  <2>4. WaitingHaveNoPlan' /\ CompletedHasItsPlan' /\ OnePlanPerRequest'
    BY <2>1, <2>2, <2>3, PlansKept
  <2>5. ManualServesItsRequest'
    BY <2>1, <2>2, ManualKept
  <2> QED
    BY <2>1, <2>4, <2>5 DEF ScheduledServesNone
<1>5. CASE Claim
  <2>1. plans' = plans /\ job["manual"].at = "idle"
    BY <1>5 DEF Claim
  <2>2. \A q \in Request : /\ Settled(request)[q].revision = request[q].revision
                           /\ \/ Settled(request)[q] = request[q]
                              \/ /\ request[q].status = "running"
                                 /\ Settled(request)[q].status = "failed"
    BY DEF Settled, Ended, TypeOK, RequestRow
  <2>3. Settled(request) \in [Request -> RequestRow]
    BY SettledType DEF TypeOK
  <2>4. CASE request' = Settled(request) /\ job' = job
    <3>1. WaitingHaveNoPlan' /\ CompletedHasItsPlan' /\ OnePlanPerRequest'
      BY <2>1, <2>2, <2>4, PlansKept
    <3>2. ManualServesItsRequest'
      BY <2>1, <2>4 DEF ManualServesItsRequest
    <3> QED
      BY <2>4, <3>1, <3>2 DEF ScheduledServesNone
  <2>5. ASSUME NEW r \in Request, request[r].status = "pending",
               request' = [Settled(request) EXCEPT ![r] = Ended(@, "failed", "changed")],
               job' = job
        PROVE  RequestInv'
    <3>1. request'[r].status = "failed" /\ \A q \in Request : q # r => request'[q] = Settled(request)[q]
      BY <2>3, <2>5 DEF Ended, RequestRow
    <3>2. WaitingHaveNoPlan' /\ CompletedHasItsPlan' /\ OnePlanPerRequest'
      BY <2>1, <2>2, <2>5, <3>1, PlansKept
    <3>3. ManualServesItsRequest'
      BY <2>1, <2>5 DEF ManualServesItsRequest
    <3> QED
      BY <2>5, <3>2, <3>3 DEF ScheduledServesNone
  <2>6. ASSUME NEW r \in Request, request[r].status = "pending",
               request' = [Settled(request) EXCEPT ![r].status = "running"],
               job' = [job EXCEPT !["manual"] = [IdleJob EXCEPT !.at = "claimed", !.request = r]]
        PROVE  RequestInv'
    <3>1. request'[r].status = "running" /\ \A q \in Request : q # r => request'[q] = Settled(request)[q]
      BY <2>3, <2>6 DEF RequestRow
    <3>2. NoPlanFor(r)
      BY <2>6 DEF WaitingHaveNoPlan
    <3>3. WaitingHaveNoPlan'
      BY <2>1, <2>2, <3>1 DEF WaitingHaveNoPlan, NoPlanFor
    <3>4. CompletedHasItsPlan' /\ OnePlanPerRequest'
      BY <2>1, <2>2, <3>1 DEF CompletedHasItsPlan, OnePlanPerRequest
    <3>5. /\ job'["manual"].at = "claimed" /\ job'["manual"].request = r
          /\ job'["scheduled"] = job["scheduled"]
      BY <2>6 DEF IdleJob, TypeOK, Job
    <3>6. ManualServesItsRequest'
      BY <2>1, <3>1, <3>2, <3>5 DEF ManualServesItsRequest, NoPlanFor, Working
    <3> QED
      BY <3>3, <3>4, <3>5, <3>6 DEF ScheduledServesNone
  <2> QED
    BY <1>5, <2>4, <2>5, <2>6, Claims
<1>6. CASE StartScheduled \/ FinishScheduled \/ Crash \/ Reinstall
  <2>1. plans' = plans /\ request' = request
    BY <1>6 DEF StartScheduled, FinishScheduled, Crash, Reinstall
  <2>2. job'["scheduled"].request = None
    BY <1>6 DEF StartScheduled, FinishScheduled, Crash, Reinstall, IdleJob, TypeOK, Job, JobState,
               ScheduledServesNone
  <2>3. job'["manual"] = job["manual"] \/ job'["manual"].at = "idle"
    BY <1>6 DEF StartScheduled, FinishScheduled, Crash, Reinstall, IdleJob, TypeOK, Job
  <2>4. WaitingHaveNoPlan' /\ CompletedHasItsPlan' /\ OnePlanPerRequest'
    BY <2>1, PlansKept
  <2>5. ManualServesItsRequest'
    BY <2>1, <2>3, ManualKept DEF ManualServesItsRequest
  <2> QED
    BY <2>2, <2>4, <2>5 DEF ScheduledServesNone
<1>7. ASSUME NEW j \in Job, Freeze(j) \/ NoPlan(j) \/ Admit(j) PROVE RequestInv'
  <2>1. plans' = plans /\ request' = request
    BY <1>7 DEF Freeze, NoPlan, Admit
  <2>2. job \in [Job -> JobState] /\ job[j] \in JobState
    BY DEF TypeOK
  <2>3. \A k \in Job : k # j => job'[k] = job[k]
    BY <1>7, <2>2 DEF Freeze, NoPlan, Admit, Returns
  <2>4. /\ job'[j].request = job[j].request
        /\ \/ job'[j].at = "done" /\ job'[j].plan = 0
           \/ /\ job[j].at = "claimed" /\ job'[j].at = "frozen" /\ job'[j].revision = current
              /\ (job[j].request = None \/ request[job[j].request].revision = current)
           \/ /\ job[j].at = "frozen" /\ job'[j].at = "checked"
              /\ job'[j].revision = job[j].revision
    <3>1. CASE Freeze(j)
      BY <2>2, <3>1 DEF Freeze, Returns, JobState
    <3>2. CASE NoPlan(j)
      BY <2>2, <3>2 DEF NoPlan, Returns, JobState
    <3>3. CASE Admit(j)
      BY <2>2, <3>3 DEF Admit, JobState
    <3> QED
      BY <1>7, <3>1, <3>2, <3>3
  <2>5. job[j].at # "idle"
    BY <1>7 DEF Freeze, NoPlan, Admit
  <2>6. WaitingHaveNoPlan' /\ CompletedHasItsPlan' /\ OnePlanPerRequest'
    BY <2>1, PlansKept
  <2>7. ScheduledServesNone'
    BY <2>3, <2>4 DEF ScheduledServesNone, Job
  <2>8. ManualServesItsRequest'
    <3>1. CASE j = "manual"
      BY <2>1, <2>4, <2>5, <3>1, PlanAdmissionAssumption
         DEF ManualServesItsRequest, NoPlanFor, Working
    <3>2. CASE j # "manual"
      BY <2>1, <2>3, <3>2, ManualKept DEF Job
    <3> QED
      BY <3>1, <3>2
  <2> QED
    BY <2>6, <2>7, <2>8
<1>8. ASSUME NEW j \in Job, Store(j) PROVE RequestInv'
  <2> DEFINE new == Len(plans) + 1
  <2>1. request' = request /\ job[j].at = "checked"
    BY <1>8 DEF Store
  <2>2. /\ \A i \in DOMAIN plans : i \in DOMAIN plans' /\ plans'[i] = plans[i]
        /\ \A i \in DOMAIN plans' : i \in DOMAIN plans \/ i = new
        /\ new \in DOMAIN plans' /\ new # 0
        /\ plans'[new].for = job[j].request /\ plans'[new].revision = job[j].revision
    <3>1. plans'[new] = [for |-> job[j].request, revision |-> job[j].revision,
                         generation |-> job[j].generation, state |-> "current"]
      BY <1>8, Stores
    <3>2. Len(plans) \in Nat /\ DOMAIN plans' = 1..new
      BY <1>8, Stores
    <3> QED
      BY <1>8, <3>1, <3>2, Stores
  <2>3. /\ job'[j].at = "done" /\ job'[j].plan \in {0, new} /\ job'[j].request = job[j].request
        /\ \A k \in Job : k # j => job'[k] = job[k]
    BY <1>8, Stores
  <2>4. ScheduledServesNone'
    BY <2>3 DEF ScheduledServesNone, Job
  <2>5. CompletedHasItsPlan'
    BY <2>1, <2>2 DEF CompletedHasItsPlan
  <2>6. CASE j = "scheduled"
    <3>1. plans'[new].for = None /\ None \notin Request
      BY <2>2, <2>6, PlanAdmissionAssumption DEF ScheduledServesNone
    <3>2. \A r \in Request : NoPlanFor(r) => NoPlanFor(r)'
      BY <2>2, <3>1 DEF NoPlanFor
    <3>3. WaitingHaveNoPlan'
      BY <2>1, <3>2 DEF WaitingHaveNoPlan
    <3>4. OnePlanPerRequest'
      BY <2>2, <3>1 DEF OnePlanPerRequest
    <3>5. job'["manual"] = job["manual"]
      BY <2>3, <2>6 DEF Job
    <3>6. ManualServesItsRequest'
      BY <2>1, <2>2, <3>2, <3>5 DEF ManualServesItsRequest
    <3> QED
      BY <2>4, <2>5, <3>3, <3>4, <3>6
  <2>7. CASE j = "manual"
    <3> DEFINE r == job["manual"].request
    <3>1. /\ r \in Request /\ request[r].status \notin {"unused", "pending"}
          /\ NoPlanFor(r) /\ request[r].revision = job["manual"].revision
      BY <2>1, <2>7 DEF ManualServesItsRequest, Working
    <3>2. \A q \in Request : (q # r /\ NoPlanFor(q)) => NoPlanFor(q)'
      BY <2>2, <2>7 DEF NoPlanFor
    <3>3. WaitingHaveNoPlan'
      BY <2>1, <3>1, <3>2 DEF WaitingHaveNoPlan
    <3>4. OnePlanPerRequest'
      BY <2>2, <2>7, <3>1 DEF OnePlanPerRequest, NoPlanFor
    <3>5. ManualServesItsRequest'
      BY <2>1, <2>2, <2>3, <2>7, <3>1 DEF ManualServesItsRequest, Working
    <3> QED
      BY <2>4, <2>5, <3>3, <3>4, <3>5
  <2> QED
    BY <2>6, <2>7 DEF Job
<1>9. CASE FinishManual
  <2> DEFINE m == job["manual"]
  <2>1. plans' = plans /\ m.at = "done" /\ job' = [job EXCEPT !["manual"] = IdleJob]
    BY <1>9 DEF FinishManual
  <2>2. job'["manual"].at = "idle" /\ job'["scheduled"] = job["scheduled"]
    BY <2>1 DEF IdleJob, TypeOK, Job
  <2>3. ManualServesItsRequest' /\ ScheduledServesNone'
    BY <2>2 DEF ManualServesItsRequest, ScheduledServesNone
  <2>4. m.request \in Request /\ request[m.request].status \notin {"unused", "pending"}
    BY <2>1 DEF ManualServesItsRequest
  <2>5. request \in [Request -> RequestRow] /\ request[m.request] \in RequestRow
    BY <2>4 DEF TypeOK
  <2>6. CASE request' = request
    BY <2>1, <2>3, <2>6, PlansKept
  <2>7. CASE \/ request' = [request EXCEPT ![m.request] = Ended(@, "failed", "changed")]
             \/ request' = [request EXCEPT ![m.request] = Ended(@, "failed", "no_plan")]
    <3>1. /\ request'[m.request].status = "failed"
          /\ request'[m.request].revision = request[m.request].revision
          /\ \A q \in Request : q # m.request => request'[q] = request[q]
      <4>1. CASE request' = [request EXCEPT ![m.request] = Ended(@, "failed", "changed")]
        BY <2>4, <2>5, <4>1 DEF Ended, RequestRow
      <4>2. CASE request' = [request EXCEPT ![m.request] = Ended(@, "failed", "no_plan")]
        BY <2>4, <2>5, <4>2 DEF Ended, RequestRow
      <4> QED
        BY <2>7, <4>1, <4>2
    <3>2. WaitingHaveNoPlan' /\ CompletedHasItsPlan' /\ OnePlanPerRequest'
      BY <2>1, <2>4, <3>1, PlansKept
    <3> QED
      BY <2>3, <3>2
  <2>8. CASE /\ m.plan # 0
             /\ request' = [request EXCEPT ![m.request] =
                              [Ended(@, "completed", "none") EXCEPT !.plan = m.plan]]
    <3>1. /\ request'[m.request].status = "completed"
          /\ request'[m.request].plan = m.plan
          /\ request'[m.request].revision = request[m.request].revision
          /\ \A q \in Request : q # m.request => request'[q] = request[q]
      BY <2>4, <2>5, <2>8 DEF Ended, RequestRow
    <3>2. /\ m.plan \in DOMAIN plans /\ plans[m.plan].for = m.request
          /\ plans[m.plan].revision = request[m.request].revision
      BY <2>1, <2>8 DEF ManualServesItsRequest
    <3>3. CompletedHasItsPlan'
      BY <2>1, <3>1, <3>2 DEF CompletedHasItsPlan
    <3>4. WaitingHaveNoPlan' /\ OnePlanPerRequest'
      BY <2>1, <3>1 DEF WaitingHaveNoPlan, OnePlanPerRequest, NoPlanFor
    <3> QED
      BY <2>3, <3>3, <3>4
  <2> QED
    BY <1>9, <2>6, <2>7, <2>8, Finishes
<1> QED
  BY <1>1, <1>2, <1>3, <1>4, <1>5, <1>6, <1>7, <1>8, <1>9 DEF Next, Run

-----------------------------------------------------------------------------
(***************************************************************************)
(* Theorems.                                                               *)
(***************************************************************************)

\* The invariant holds in every reachable state.
LEMMA Invariant == Spec => []IInv
<1>1. Init => IInv
  <2>1. Init => TypeOK
    BY TypeInitially
  <2>2. Init => PlanInv /\ RequestInv
    BY DEF Init, PlanInv, RequestInv, CheckedIsCurrent, PlansArePast, CurrentPlansAreCurrent,
           ScheduledServesNone, WaitingHaveNoPlan, NoPlanFor, ManualServesItsRequest,
           CompletedHasItsPlan, OnePlanPerRequest, IdleJob, Unused, Job
  <2> QED
    BY <2>1, <2>2 DEF IInv
<1>2. IInv /\ [Next]_vars => IInv'
  BY TypePreserved, PlanInvPreserved, RequestInvPreserved DEF IInv, PlanInv
<1> QED
  BY <1>1, <1>2, PTL DEF Spec

\* The queue, the plans and the two jobs keep their types: revisions,
\* generations and references to plans stay within what exists.
THEOREM TypeCorrect == Spec => []TypeOK
  BY Invariant, PTL DEF IInv

\* At every moment the plans shown as current are exactly those of the current
\* contract, whatever settings writes fall between a freeze and an admission.
THEOREM PlansAreCurrent == Spec => []CurrentPlansAreCurrent
  BY Invariant, PTL DEF IInv, PlanInv

\* A completed request names a stored plan that was made for it and for the
\* contract revision it asked for, also after crashes of the optimizer.
THEOREM CompletedHavePlans == Spec => []CompletedHasItsPlan
  BY Invariant, PTL DEF IInv, RequestInv

\* No request is planned twice, whenever the optimizer stops and restarts.
THEOREM RequestsHaveOnePlan == Spec => []OnePlanPerRequest
  BY Invariant, PTL DEF IInv, RequestInv

\* A plan enters the store only while the contract revision and the dependency
\* generation it was solved for are the current ones.
THEOREM PlansMatchInputs == Spec => StoredForItsInputs
<1>1. ASSUME IInv, [Next]_vars, Len(plans') > Len(plans)
      PROVE  LET p == plans'[Len(plans')]
             IN  p.revision = current /\ p.generation = generation
  <2>1. PICK j \in Job : Store(j)
    <3>1. CASE UNCHANGED vars
      BY <1>1, <3>1, Elements DEF vars, IInv
    <3>2. ASSUME NEW contract \in BOOLEAN, NEW dependency \in BOOLEAN, Save(contract, dependency)
          PROVE  FALSE
      <4>1. DOMAIN plans' = DOMAIN plans
        BY <3>2, <1>1, RevisionsMakeStale DEF Save, IInv, PlanInv
      <4>2. plans' \in Seq(Plan) /\ plans \in Seq(Plan)
        BY <1>1, TypePreserved DEF IInv, PlanInv, TypeOK
      <4>3. /\ Len(plans') \in Nat /\ DOMAIN plans' = 1..Len(plans')
            /\ Len(plans) \in Nat /\ DOMAIN plans = 1..Len(plans)
        BY <4>2, LenProperties
      <4>4. Len(plans') \in 1..Len(plans') /\ Len(plans') \notin 1..Len(plans)
        BY <1>1, <4>3
      <4> QED
        BY <4>1, <4>3, <4>4
    <3>3. ASSUME \/ \E r \in Request : OptimizeNow(r) \/ PricesComplete(r) \/ Overdue(r)
                 \/ Claim \/ StartScheduled \/ FinishManual \/ FinishScheduled \/ Crash \/ Reinstall
                 \/ \E j \in Job : Freeze(j) \/ NoPlan(j)
          PROVE  FALSE
      <4>1. plans' = plans
        BY <1>1, <3>3, OnlyAdmitChecks DEF IInv
      <4> QED
        BY <1>1, <4>1, Elements DEF IInv
    <3>4. ASSUME NEW j \in Job, Admit(j) PROVE FALSE
      BY <1>1, <3>4, Elements DEF Admit, IInv
    <3> QED
      BY <1>1, <3>1, <3>2, <3>3, <3>4 DEF Next, Run
  <2>2. plans'[Len(plans')] = [for |-> job[j].request, revision |-> job[j].revision,
                               generation |-> job[j].generation, state |-> "current"]
    BY <1>1, <2>1, Stores DEF IInv
  <2>3. job[j].revision = current /\ job[j].generation = generation
    BY <1>1, <2>1 DEF Store, IInv, PlanInv, CheckedIsCurrent
  <2> QED
    BY <2>2, <2>3
<1> QED
  BY <1>1, Invariant, PTL DEF Spec, StoredForItsInputs
=============================================================================
