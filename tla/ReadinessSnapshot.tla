------------------------- MODULE ReadinessSnapshot --------------------------
(***************************************************************************)
(* The readiness of the models as the API reports it (ml/model_status.py). *)
(* One generation at a time runs per event loop: callers with the same key *)
(* join it, others are told it is busy.  A generation copies its inputs    *)
(* from one database snapshot and composes them in a thread of its own,    *)
(* which cannot be interrupted; the last caller to leave cancels it only   *)
(* if that thread has not started.                                         *)
(***************************************************************************)
EXTENDS Naturals, FiniteSets

CONSTANTS Callers,
          Keys,        \* route, arguments, components, authority, clock, context
          MaxWaiters,  \* _READINESS_MAX_WAITERS
          Response,    \* _READINESS_RESPONSE_SECONDS, in ticks
          MaxFlights,  \* bound: generations started
          Horizon,     \* bound: clock
          None

VARIABLES now, flights, current, caller

readyVars == <<now, flights, current, caller>>

Idle == [at |-> "idle", key |-> None, flight |-> None, answer |-> "none", of |-> None]

Init == /\ now = 0
        /\ flights = [f \in {} |-> None]
        /\ current = None
        /\ caller = [c \in Callers |-> Idle]

Started == DOMAIN flights
Ended == {"composed", "unavailable", "late", "cancelled"}

Flight == [key : Keys, stage : {"capturing", "composing", "cancelling"} \cup Ended,
           joinable : BOOLEAN, worker : BOOLEAN, deadline : Nat]
Caller == [at : {"idle", "waiting", "answered"}, key : Keys \cup {None},
           flight : Nat \cup {None}, answer : {"none", "busy", "deadline", "gone"} \cup Ended,
           of : Keys \cup {None}]
TypeOK == /\ now \in Nat
          /\ IsFiniteSet(Started) /\ Started = 1..Cardinality(Started)
          /\ flights \in [Started -> Flight]
          /\ current \in Started \cup {None}
          /\ caller \in [Callers -> Caller]

Done(f) == flights[f].stage \in Ended
Waiting(f) == {c \in Callers : caller[c].at = "waiting" /\ caller[c].flight = f}
Running == {f \in Started : ~Done(f)}

Told(c, answer, of) ==
    caller' = [caller EXCEPT ![c].at = "answered", ![c].answer = answer, ![c].of = of]

Joins(c, k, f) ==
    caller' = [caller EXCEPT ![c] = [Idle EXCEPT !.at = "waiting", !.key = k, !.flight = f]]

\* get_readiness_snapshot: a finished task no longer counts as current.
Active == IF current # None /\ Done(current) THEN None ELSE current

Joinable(f, k) ==
    /\ flights[f].key = k
    /\ flights[f].joinable
    /\ Cardinality(Waiting(f)) < MaxWaiters

Ask(c, k) ==
    /\ caller[c].at = "idle"
    /\ \/ /\ Active # None /\ ~Joinable(Active, k)
          /\ caller' = [caller EXCEPT ![c] = [Idle EXCEPT !.at = "answered", !.key = k,
                                                          !.answer = "busy"]]
          /\ UNCHANGED <<flights, current>>
       \/ /\ Active # None /\ Joinable(Active, k)
          /\ Joins(c, k, Active)
          /\ UNCHANGED <<flights, current>>
       \/ /\ Active = None /\ Cardinality(Started) < MaxFlights
          /\ LET f == Cardinality(Started) + 1
             IN /\ flights' = [g \in Started \cup {f} |->
                                 IF g = f THEN [key |-> k, stage |-> "capturing", joinable |-> TRUE,
                                                worker |-> FALSE, deadline |-> now + Response]
                                 ELSE flights[g]]
                /\ current' = f
                /\ Joins(c, k, f)
    /\ UNCHANGED now

Stage(f, s) == flights' = [flights EXCEPT ![f].stage = s]

\* _run_readiness_generation: the inputs are copied, then the thread starts.
Capture(f) ==
    /\ flights[f].stage = "capturing"
    /\ \/ Stage(f, "unavailable")       \* too slow, too large, or unreadable
       \/ ~flights[f].joinable /\ Stage(f, "cancelled")
       \/ /\ flights[f].joinable
          /\ flights' = [flights EXCEPT ![f].stage = "composing", ![f].worker = TRUE]
    /\ UNCHANGED <<now, current, caller>>

Compose(f) ==
    /\ flights[f].stage = "composing"
    /\ \/ Stage(f, "unavailable")
       \/ Stage(f, IF ~flights[f].joinable \/ now >= flights[f].deadline THEN "late"
                   ELSE "composed")
    /\ UNCHANGED <<now, current, caller>>

\* The done callback of the task.
Finished(f) ==
    /\ current = f /\ Done(f)
    /\ current' = None
    /\ UNCHANGED <<now, flights, caller>>

\* The task is done: its result reaches a caller.
Answer(c) ==
    /\ caller[c].at = "waiting" /\ Done(caller[c].flight)
    /\ LET f == caller[c].flight IN Told(c, flights[f].stage, flights[f].key)
    /\ UNCHANGED <<now, flights, current>>

\* A caller leaves before the task is done; the last one may cancel it.
LeftByAny(f, c) ==
    flights' = [flights EXCEPT ![f].joinable = FALSE,
                               ![f].stage = IF flights[f].worker THEN @ ELSE "cancelling"]

Left(f, c) ==
    IF Waiting(f) = {c}
    THEN flights' = [flights EXCEPT ![f].joinable = FALSE,
                                    ![f].stage = IF flights[f].worker THEN @ ELSE "cancelling"]
    ELSE UNCHANGED flights

Leave(c) ==
    /\ caller[c].at = "waiting" /\ ~Done(caller[c].flight)
    /\ Left(caller[c].flight, c)
    /\ \/ now >= flights[caller[c].flight].deadline /\ Told(c, "deadline", None)
       \/ Told(c, "gone", None)         \* its own request is cancelled
    /\ UNCHANGED <<now, current>>

CancelEnds(f) ==
    /\ flights[f].stage = "cancelling"
    /\ Stage(f, "cancelled")
    /\ UNCHANGED <<now, current, caller>>

Tick == /\ now < Horizon
        /\ now' = now + 1
        /\ UNCHANGED <<flights, current, caller>>

Next == \/ \E c \in Callers : \/ \E k \in Keys : Ask(c, k)
                              \/ Answer(c) \/ Leave(c)
        \/ \E f \in Started : Capture(f) \/ Compose(f) \/ Finished(f) \/ CancelEnds(f)
        \/ Tick

Spec == Init /\ [][Next]_readyVars

-----------------------------------------------------------------------------
(***************************************************************************)
(* What a generation composes for one component, from the evidence of its  *)
(* snapshot: what was collected, the serving model and the candidate.      *)
(***************************************************************************)
References == [readable : BOOLEAN, declares : BOOLEAN, covers : BOOLEAN,
               qualified : {"no", "yes", "expired"}, metrics : {"given", "missing", "invalid"}]
NoReference == [readable |-> TRUE, declares |-> FALSE, covers |-> FALSE, qualified |-> "none",
                metrics |-> "missing"]
Candidates == {r \in References : r.qualified = "no" /\ ~r.covers}

\* rejected: what the last fit, which led to no candidate, measured.
Snapshots == [collected : {"unassessed", "short", "complete"},
              rejected : {"none", "validated", "refused"},
              serving : References \cup {NoReference},
              candidate : Candidates \cup {NoReference}]

\* _inspect_model_artifact: both files are verified, the serving one reported.
ArtifactStatus(s) ==
    IF ~s.serving.readable \/ ~s.candidate.readable THEN "unavailable"
    ELSE IF s.serving = NoReference
         THEN IF s.candidate = NoReference THEN "unqualified" ELSE "candidate"
    ELSE CASE s.serving.qualified = "yes" -> "qualified-for-reporting"
           [] s.serving.qualified = "expired" -> "expired"
           [] OTHER -> "unqualified"

\* Collection, fit and reporting look at the candidate when there is one.
Reference(s) == IF s.candidate # NoReference THEN s.candidate ELSE s.serving

\* _fit_readiness.  A rejection on record goes before the files and their metrics.
FitUnavailable(s) ==
    /\ s.rejected = "none" /\ Reference(s) # NoReference
    /\ ArtifactStatus(s) = "unavailable" \/ Reference(s).metrics = "invalid"

FitStatus(s) ==
    IF s.rejected # "none" THEN s.rejected
    ELSE IF Reference(s) = NoReference THEN "awaiting_fit"
    ELSE IF ~Reference(s).declares THEN "not_declared"
    ELSE IF ~FitUnavailable(s) /\ Reference(s).metrics = "given" THEN "validated"
    ELSE "none"

Covers(r) == r.declares /\ r.covers /\ r.qualified = "yes"

Reporting(s) ==
    IF FitUnavailable(s) THEN "unavailable"
    ELSE IF ArtifactStatus(s) = "qualified-for-reporting" /\ ~Covers(Reference(s))
    THEN IF s.candidate # NoReference THEN "candidate" ELSE "unqualified"
    ELSE ArtifactStatus(s)

NextStep(s) ==
    IF s.collected = "unassessed" \/ FitUnavailable(s) THEN "readiness_unavailable"
    ELSE IF s.collected = "short" THEN "collect_space_heating_evidence"
    ELSE IF Reporting(s) = "qualified-for-reporting" THEN "ready_for_reporting"
    ELSE IF FitStatus(s) = "validated" /\ Reference(s) # NoReference
         THEN "await_prospective_reporting_qualification"
    ELSE "await_fit_or_validation"

\* A component is ready only on the qualification of the model that serves it.
ReadyIsProven ==
    \A s \in Snapshots :
        NextStep(s) = "ready_for_reporting" =>
            /\ s.collected = "complete"
            /\ s.candidate = NoReference
            /\ s.serving.readable /\ Covers(s.serving)

(***************************************************************************)
(* At most one generation runs, however callers come, time out and leave:  *)
(* an abandoned thread keeps new ones from starting.  A caller is told     *)
(* about the key it asked for, or that there is no answer; it is never     *)
(* cancelled because another caller left.  And an answer reports a         *)
(* component ready only if the model that serves it is qualified for it.   *)
(***************************************************************************)
AnswersAreTheirOwn ==
    /\ Cardinality(Running) <= 1
    /\ \A c \in Callers : caller[c].at = "answered" =>
          /\ caller[c].answer # "cancelled"
          /\ caller[c].answer = "composed" => caller[c].of = caller[c].key /\ ReadyIsProven
=============================================================================
