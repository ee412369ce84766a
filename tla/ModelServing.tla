---------------------------- MODULE ModelServing ----------------------------
(***************************************************************************)
(* How the committed model of a component comes to be used.  The lifecycle *)
(* commits references to artifacts; every process keeps its own copy of    *)
(* the model it serves, reloads it, throws it away on any failure, and     *)
(* answers requests and solves plans with it across awaits, during which   *)
(* another task of the process may replace it, the lifecycle may commit    *)
(* another reference, and the owner may change what the models depend on.  *)
(*                                                                         *)
(* A reference stands for its artifact.  A transaction under the contract  *)
(* lock is one step.                                                       *)
(***************************************************************************)
EXTENDS Integers, FiniteSets
CONSTANTS
  Requests,   \* requests for a forecast or a curve, in the API process
  Planner,    \* the planning cycle, in a process of its own
  None,       \* no reference, no plan, no owner
  MaxTurns    \* bound: requests and cycles started, publications, withdrawals,
              \* settings changes and lapses, together

VARIABLES
  committed,  \* the reference the lifecycle commits, of each component
  lapsed,     \* the references whose qualification has expired
  revision,   \* the revision of the house contract
  generation, \* indoor_dependency_generation: the scope of the models
  served,     \* the reference a process serves, of each component
  version,    \* its _serving_generation
  lock,       \* _committed_refresh_lock
  turns,      \* how many of the things MaxTurns bounds have happened
  task,       \* what a request or the planner is at
  plan        \* the saved plan

world == <<committed, lapsed, revision, generation>>
vars == <<committed, lapsed, revision, generation,
          served, version, lock, turns, task, plan>>

Components == {"comfort", "thermal"}
Tasks == Requests \cup {Planner}
Processes == {"api", "optimizer"}
Home(t) == IF t = Planner THEN "optimizer" ELSE "api"
Reference(i) == [id |-> i, scope |-> generation]

Idle == [pc |-> "idle", kind |-> None, at |-> "thermal", ref |-> None,
         ctx |-> <<0, 0>>, cap |-> {}, used |-> {}, from |-> None,
         sound |-> FALSE]

Init ==
  /\ committed = [c \in Components |-> [id |-> 1, scope |-> 1]]
  /\ lapsed = {} /\ revision = 1 /\ generation = 1
  /\ served = [h \in Processes |-> [c \in Components |-> None]]
  /\ version = [h \in Processes |-> [c \in Components |-> 0]]
  /\ lock = [h \in Processes |-> None]
  /\ task = [t \in Tasks |-> Idle] /\ turns = 0
  /\ plan = None

Known == [id : Nat, scope : Nat] \cup {None}
Plan == [ctx : Nat \X Nat, with : SUBSET (Components \X Known)]
Task == [pc : {"idle", "refresh", "recheck", "read", "load", "install", "capture", "use",
               "verify", "again", "answer", "answered", "solve", "admit"},
         kind : {None, "forecast", "curve"}, at : Components, ref : Known,
         ctx : Nat \X Nat, cap : SUBSET (Components \X Known \X Nat),
         used : SUBSET (Known \cup (Components \X Known)),
         from : Plan \cup {None}, sound : BOOLEAN]
TypeOK ==
  /\ committed \in [Components -> Known] /\ lapsed \subseteq Nat
  /\ revision \in Nat /\ generation \in Nat /\ turns \in Nat
  /\ served \in [Processes -> [Components -> Known]]
  /\ version \in [Processes -> [Components -> Nat]]
  /\ lock \in [Processes -> Tasks \cup {None}]
  /\ task \in [Tasks -> Task] /\ plan \in Plan \cup {None}

(* The role, the times and the policy of a reference hold; its scope is    *)
(* compared where the code has one to compare.                             *)
Qualified(ref) == ref # None /\ ref.id \notin lapsed
Current(c, ref) ==
  committed[c] = ref /\ Qualified(ref) /\ ref.scope = generation

At(t, pc) == task[t].pc = pc
(* The two processes meet only in the database.  A planning cycle runs     *)
(* while the requests await it, after what they captured.                  *)
Planning == task[Planner].pc \notin {"idle", "answered"}
Awaiting(t) == task[t].pc \in {"idle", "use"}
Turn == turns < MaxTurns /\ turns' = turns + 1
Refuse(t) == task' = [task EXCEPT ![t] = Idle]
Move(t, pc) == task' = [task EXCEPT ![t].pc = pc]

-----------------------------------------------------------------------------
(* The model of a process *)

(* Throw the model away; the serving generation moves if there was one.    *)
Reset(h, c) ==
  /\ served' = [served EXCEPT ![h][c] = None]
  /\ version' = IF served[h][c] = None THEN version
                ELSE [version EXCEPT ![h][c] = @ + 1]
Install(h, c, ref) ==
  /\ served' = [served EXCEPT ![h][c] = ref]
  /\ version' = [version EXCEPT ![h][c] = @ + 1]

(* The refresh of t ends: thermal's lock is free again.                    *)
Return(t) ==
  /\ lock' = IF task[t].at = "thermal" THEN [lock EXCEPT ![Home(t)] = None] ELSE lock
  /\ task' = [task EXCEPT ![t].pc = "capture", ![t].ref = None]

(* Thermal's refresh has a lock and, for 60 seconds after the last one,    *)
(* only rechecks what it serves; comfort's reads everything again.  The    *)
(* time between two refreshes is free.                                     *)
Refresh(t) ==
  LET h == Home(t)
      c == task[t].at
      held == served[h][c]
  IN \E cached \in {FALSE, c = "thermal"} :
  /\ At(t, "refresh")
  /\ c = "thermal" => lock[h] = None
  /\ lock' = IF c = "thermal" THEN [lock EXCEPT ![h] = t] ELSE lock
  /\ Move(t, IF cached /\ Qualified(held) THEN "recheck" ELSE "read")
  /\ IF cached /\ ~Qualified(held) THEN Reset(h, c) ELSE UNCHANGED <<served, version>>
  /\ UNCHANGED <<world, turns, plan>>

Recheck(t) ==
  LET h == Home(t) IN
  /\ At(t, "recheck")
  /\ IF Current("thermal", served[h]["thermal"])
     THEN /\ task' = [task EXCEPT ![t].pc = "capture"]
          /\ lock' = [lock EXCEPT ![h] = None]
     ELSE Move(t, "read") /\ UNCHANGED lock
  /\ UNCHANGED <<world, turns, served, version, plan>>

(* arefresh_committed: the reference, then under the contract lock the     *)
(* scope, then the artifact, and at last both again as it is installed.    *)
Read(t) ==
  /\ At(t, "read")
  /\ Qualified(committed[task[t].at])
  /\ task' = [task EXCEPT ![t].pc = "load", ![t].ref = committed[task[t].at]]
  /\ UNCHANGED <<world, turns, served, version, lock, plan>>
Load(t) ==
  /\ At(t, "load")
  /\ Qualified(task[t].ref) /\ task[t].ref.scope = generation
  /\ Move(t, "install")
  /\ UNCHANGED <<world, turns, served, version, lock, plan>>
Serve(t) ==
  /\ At(t, "install")
  /\ Current(task[t].at, task[t].ref)
  /\ Install(Home(t), task[t].at, task[t].ref)
  /\ Return(t)
  /\ UNCHANGED <<world, turns, plan>>

(* What the code finds wrong, or the database or the file fails: the       *)
(* process is left without a model, whoever else is using it.              *)
Refused(t) ==
  \/ At(t, "read") /\ ~Qualified(committed[task[t].at])
  \/ At(t, "load") /\ ~(Qualified(task[t].ref) /\ task[t].ref.scope = generation)
  \/ At(t, "install") /\ ~Current(task[t].at, task[t].ref)
Withdraw(t) ==
  /\ \/ Refused(t)
     \/ task[t].pc \in {"recheck", "read", "load", "install"}
  /\ Reset(Home(t), task[t].at)
  /\ Return(t)
  /\ UNCHANGED <<world, turns, plan>>

-----------------------------------------------------------------------------
(* A request, in the API process *)

(* A forecast captures the contract and the dependency generation before   *)
(* it reads anything that depends on the settings, a curve after.          *)
Begin(t, kind) ==
  /\ t \in Requests /\ At(t, "idle") /\ Turn
  /\ task' = [task EXCEPT ![t].pc = "refresh", ![t].kind = kind,
                          ![t].ctx = <<revision, generation>>]
  /\ UNCHANGED <<world, served, version, lock, plan>>

(* capture_dependency_context                                              *)
Capture(t) ==
  /\ t \in Requests /\ At(t, "capture")
  /\ task' = [task EXCEPT ![t].pc = "use",
                ![t].cap = {<<"thermal", served["api"]["thermal"], version["api"]["thermal"]>>},
                ![t].ctx = IF task[t].kind = "curve" THEN <<revision, generation>> ELSE @]
  /\ UNCHANGED <<world, turns, served, version, lock, plan>>

(* A prediction with the parameters as they are now, one of several        *)
(* between which the request awaits the database.                          *)
Predict(t) ==
  /\ t \in Requests /\ At(t, "use")
  /\ task' = [task EXCEPT ![t].used = @ \cup {served["api"]["thermal"]}]
  /\ UNCHANGED <<world, turns, served, version, lock, plan>>

(* What a plan was solved with is what the lifecycle commits now, or it    *)
(* was solved with none and none qualifies now.                            *)
PlanIsCurrent(p) ==
  /\ p.ctx[2] = generation
  /\ \A d \in p.with :
       IF d[2] = None
       THEN ~(Qualified(committed[d[1]]) /\ committed[d[1]].scope = generation)
       ELSE Current(d[1], d[2])

(* The forecast prefers the saved plan, if what it rests on still holds;   *)
(* a curve checks the contract again first.                                *)
TakePlan(t) ==
  /\ t \in Requests /\ At(t, "use") /\ task[t].kind = "forecast"
  /\ plan # None /\ PlanIsCurrent(plan)
  /\ task' = [task EXCEPT ![t].pc = "verify", ![t].from = plan]
  /\ UNCHANGED <<world, turns, served, version, lock, plan>>
Compute(t) ==
  /\ t \in Requests /\ At(t, "use") /\ task[t].used # {}
  /\ IF task[t].kind = "curve" /\ task[t].ctx[1] # revision THEN Refuse(t) ELSE Move(t, "verify")
  /\ UNCHANGED <<world, turns, served, version, lock, plan>>

(* dependency_context_is_current                                           *)
Unchanged(h, cap) ==
  \A d \in cap : served[h][d[1]] = d[2] /\ version[h][d[1]] = d[3]
StillServed(h, cap) ==
  /\ Unchanged(h, cap)
  /\ \A d \in cap : d[2] # None => Current(d[1], d[2])

(* Ghost: what was used is one reference, and the committed one.           *)
RestsOn(t) ==
  IF task[t].from = None
  THEN \/ task[t].used = {committed["thermal"]} /\ Current("thermal", committed["thermal"])
       \/ task[t].used = {None}
  ELSE \A d \in task[t].from.with : d[2] # None => Current(d[1], d[2])

Verify(t) ==
  /\ t \in Requests /\ At(t, "verify")
  /\ IF StillServed("api", task[t].cap)
     THEN task' = [task EXCEPT ![t].pc = IF task[t].from = None THEN "answer" ELSE "again",
                               ![t].sound = RestsOn(t)]
     ELSE Refuse(t)
  /\ UNCHANGED <<world, turns, served, version, lock, plan>>
VerifyPlan(t) ==
  /\ At(t, "again")
  /\ IF PlanIsCurrent(task[t].from)
     THEN task' = [task EXCEPT ![t].pc = "answer", ![t].sound = RestsOn(t)]
     ELSE Refuse(t)
  /\ UNCHANGED <<world, turns, served, version, lock, plan>>

(* The last thing a forecast checks is the context it captured first.      *)
ContextHolds(t) == task[t].ctx = <<revision, generation>>
Answer(t) ==
  /\ At(t, "answer")
  /\ IF task[t].kind = "curve" \/ ContextHolds(t)
     THEN task' = [task EXCEPT ![t].pc = "answered", ![t].cap = {}]
     ELSE Refuse(t)
  /\ UNCHANGED <<world, turns, served, version, lock, plan>>

Finish(t) ==
  /\ At(t, "answered") /\ task' = [task EXCEPT ![t] = Idle]
  /\ UNCHANGED <<world, turns, served, version, lock, plan>>

-----------------------------------------------------------------------------
(* A planning cycle *)

(* The contract is frozen, then both models are refreshed, in order.       *)
Freeze ==
  /\ At(Planner, "idle") /\ plan = None /\ Turn
  /\ \A t \in Requests : Awaiting(t)
  /\ task' = [task EXCEPT ![Planner].pc = "refresh", ![Planner].at = "comfort",
                          ![Planner].ctx = <<revision, generation>>]
  /\ UNCHANGED <<world, served, version, lock, plan>>
NextModel ==
  /\ At(Planner, "capture") /\ task[Planner].at = "comfort"
  /\ task' = [task EXCEPT ![Planner].pc = "refresh", ![Planner].at = "thermal"]
  /\ UNCHANGED <<world, turns, served, version, lock, plan>>

(* _capture_native_model_contexts: no plan unless what is served is        *)
(* committed.                                                              *)
CaptureContexts ==
  LET mine == served["optimizer"]
      whole == \A c \in Components : mine[c] # None => Current(c, mine[c])
  IN
  /\ At(Planner, "capture") /\ task[Planner].at = "thermal" /\ task[Planner].cap = {}
  /\ IF ~whole THEN Refuse(Planner)
     ELSE task' = [task EXCEPT ![Planner].pc = "solve",
                ![Planner].cap = {<<c, mine[c], version["optimizer"][c]>> : c \in Components}]
  /\ UNCHANGED <<world, turns, served, version, lock, plan>>

(* The planners refresh thermal once more as they start.                   *)
Resolve ==
  /\ At(Planner, "solve") /\ task[Planner].used = {}
  /\ Move(Planner, "refresh")
  /\ UNCHANGED <<world, turns, served, version, lock, plan>>
Solve ==
  /\ At(Planner, "capture") /\ task[Planner].cap # {}
  /\ task' = [task EXCEPT ![Planner].pc = "admit",
                ![Planner].used = {<<c, served["optimizer"][c]>> : c \in Components}]
  /\ UNCHANGED <<world, turns, served, version, lock, plan>>

(* run_optimization stores the plan in one transaction with its checks.    *)
Admit ==
  LET me == task[Planner] IN
  /\ At(Planner, "admit")
  /\ IF me.ctx = <<revision, generation>> /\ StillServed("optimizer", me.cap)
     THEN /\ plan' = [ctx |-> me.ctx, with |-> {<<d[1], d[2]>> : d \in me.cap}]
          /\ task' = [task EXCEPT ![Planner].pc = "answered",
                        ![Planner].sound = /\ me.used = plan'.with
                                           /\ \A d \in me.used : d[2] # None => Current(d[1], d[2]),
                        ![Planner].cap = {}]
     ELSE Refuse(Planner) /\ UNCHANGED plan
  /\ UNCHANGED <<world, turns, served, version, lock>>

-----------------------------------------------------------------------------
(* publish commits, invalidate_component withdraws, the database clock ends a *)
(* qualification, the owner saves settings                                    *)
Event(c) ==
  /\ Turn
  /\ \/ /\ committed' = [committed EXCEPT ![c] = Reference(turns + 2)]
        /\ UNCHANGED <<lapsed, revision, generation>>
     \/ /\ committed[c] # None /\ committed' = [committed EXCEPT ![c] = None]
        /\ UNCHANGED <<lapsed, revision, generation>>
     \/ /\ Qualified(committed[c]) /\ lapsed' = lapsed \cup {committed[c].id}
        /\ UNCHANGED <<committed, revision, generation>>
     \/ /\ revision' = revision + 1
        /\ generation' \in {generation, generation + 1}
        /\ UNCHANGED <<committed, lapsed>>
  /\ UNCHANGED <<served, version, lock, task, plan>>

Next ==
  \/ \E t \in Tasks :
       /\ Planning => t = Planner
       /\ \/ Refresh(t) \/ Recheck(t) \/ Read(t) \/ Load(t) \/ Serve(t) \/ Withdraw(t)
          \/ \E kind \in {"forecast", "curve"} : Begin(t, kind)
          \/ Capture(t) \/ Predict(t) \/ TakePlan(t) \/ Compute(t)
          \/ Verify(t) \/ VerifyPlan(t) \/ Answer(t) \/ Finish(t)
  \/ Freeze \/ NextModel \/ CaptureContexts \/ Resolve \/ Solve \/ Admit
  \/ \E c \in Components : Event(c)

Spec == Init /\ [][Next]_vars

-----------------------------------------------------------------------------
(***************************************************************************)
(* An answer that was given, and a plan that was stored, were computed     *)
(* with one and the same model throughout, and that model, or what the     *)
(* saved plan shown rests on, was the committed, qualified one when it was *)
(* last checked; a forecast's model and the sensors it read belong to one  *)
(* dependency generation (models_router.py, optimizer/main.py).            *)
(***************************************************************************)
ForecastsAreCurrent ==
  \A t \in Tasks : At(t, "answered") =>
    /\ task[t].sound
    /\ t \in Requests /\ task[t].kind = "forecast" /\ task[t].from = None =>
         \A ref \in task[t].used : ref # None => ref.scope = task[t].ctx[2]
=============================================================================
