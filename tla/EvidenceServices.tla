------------------------- MODULE EvidenceServices -------------------------
(***************************************************************************)
(* The services that judge what happened and answer for it: the evidence   *)
(* that closes a restore, the events of a shower, the heating gate, the    *)
(* prospective evidence of a model, the forecast scorecard, the readiness  *)
(* of the models, what a process forecasts with them, and the ledger of    *)
(* COP readings. As in AccountServices a behaviour is one of them, which   *)
(* "verdict" names.                                                        *)
(***************************************************************************)
EXTENDS Integers, FiniteSets

CONSTANTS
  evidence_MaxAge, evidence_LiveAge, evidence_ReadLimit, evidence_Hour,
  evidence_Checkpoints, evidence_LiveAt, evidence_Budget, evidence_NoTime,
  evidence_MaxTurns, evidence_MaxAttempts, evidence_Horizon, showers_Devices,
  showers_MaxShowers, showers_MaxFaults, showers_None, gate_Writers,
  gate_Bases, gate_Temperatures, gate_NoReading, gate_NoRow, gate_MaxReadings,
  proof_Lead, proof_Carry, proof_FirstLook, proof_Looks, proof_Closed,
  proof_Fresh, proof_MinPairs, proof_PageSize, proof_None, proof_MaxEvents,
  proof_MaxCrashes, proof_Horizon, score_Devices, score_None, score_Bad,
  score_Observed, score_Commanded, score_Lookup, score_Passes, score_MaxPlans,
  score_MaxEvals, readiness_Callers, readiness_Keys, readiness_MaxWaiters,
  readiness_Response, readiness_MaxFlights, readiness_Horizon, readiness_None,
  serving_Requests, serving_Planner, serving_None, serving_MaxTurns,
  cop_Editors, cop_Dates, cop_Zones, cop_Skipped, cop_Day, cop_Window,
  cop_Folds, cop_Limit, cop_Editable, cop_Opening, cop_Skew, cop_Horizon,
  cop_MaxWrites, cop_MaxGaps, cop_None

VARIABLE verdict  \* the service that acts, or "none"
VARIABLES evidence_now, evidence_pump, evidence_was, evidence_stored,
          evidence_source, evidence_attempt, evidence_reads, evidence_done,
          evidence_turns, evidence_attempts
VARIABLES showers_schema, showers_shower, showers_expired, showers_restore,
          showers_due, showers_claim, showers_seen, showers_skipped,
          showers_fence, showers_attempt, showers_tx, showers_hand,
          showers_showers, showers_faults, showers_closings
VARIABLES gate_base, gate_gate, gate_writer, gate_applied
VARIABLES proof_now, proof_issues, proof_outcome, proof_world, proof_review,
          proof_collection, proof_scan, proof_looks, proof_decision,
          proof_bound
VARIABLES score_plans, score_mode, score_gate, score_evals
VARIABLES readiness_now, readiness_flights, readiness_current,
          readiness_caller
VARIABLES serving_committed, serving_lapsed, serving_revision,
          serving_generation, serving_served, serving_version, serving_lock,
          serving_turns, serving_task, serving_plan
VARIABLES cop_ledger, cop_sequence, cop_now, cop_view, cop_past, cop_blind

evidenceVars ==
  <<evidence_now, evidence_pump, evidence_was, evidence_stored,
    evidence_source, evidence_attempt, evidence_reads, evidence_done,
    evidence_turns, evidence_attempts>>
Evidence == INSTANCE RestoreEvidence WITH
  now <- evidence_now, pump <- evidence_pump, was <- evidence_was,
  stored <- evidence_stored, source <- evidence_source,
  attempt <- evidence_attempt, reads <- evidence_reads, done <- evidence_done,
  turns <- evidence_turns, attempts <- evidence_attempts,
  MaxAge <- evidence_MaxAge, LiveAge <- evidence_LiveAge,
  ReadLimit <- evidence_ReadLimit, Hour <- evidence_Hour,
  Checkpoints <- evidence_Checkpoints, LiveAt <- evidence_LiveAt,
  Budget <- evidence_Budget, NoTime <- evidence_NoTime,
  MaxTurns <- evidence_MaxTurns, MaxAttempts <- evidence_MaxAttempts,
  Horizon <- evidence_Horizon

ASSUME EvidenceAssumption ==
  /\ evidence_MaxAge \in Nat /\ evidence_LiveAge \in Nat /\ evidence_LiveAge <= evidence_MaxAge
  /\ evidence_ReadLimit \in Nat /\ evidence_Hour \in Nat /\ evidence_Budget \in Nat
  /\ evidence_Horizon \in Nat /\ evidence_MaxTurns \in Nat /\ evidence_MaxAttempts \in Nat
  /\ evidence_Checkpoints \subseteq Nat
  /\ evidence_NoTime \notin Int

showersVars ==
  <<showers_schema, showers_shower, showers_expired, showers_restore,
    showers_due, showers_claim, showers_seen, showers_skipped, showers_fence,
    showers_attempt, showers_tx, showers_hand, showers_showers,
    showers_faults, showers_closings>>
Showers == INSTANCE ShowerEvents WITH
  schema <- showers_schema, shower <- showers_shower,
  expired <- showers_expired, restore <- showers_restore, due <- showers_due,
  claim <- showers_claim, seen <- showers_seen, skipped <- showers_skipped,
  fence <- showers_fence, attempt <- showers_attempt, tx <- showers_tx,
  hand <- showers_hand, showers <- showers_showers, faults <- showers_faults,
  closings <- showers_closings, Devices <- showers_Devices,
  MaxShowers <- showers_MaxShowers, MaxFaults <- showers_MaxFaults,
  None <- showers_None

ASSUME ShowersAssumption ==
  /\ showers_MaxShowers \in Nat /\ showers_MaxFaults \in Nat
  /\ showers_None \notin Showers!UNRESOLVED_STATUSES \cup showers_Devices

gateVars ==
  <<gate_base, gate_gate, gate_writer, gate_applied>>
Gate == INSTANCE HeatingGate WITH
  base <- gate_base, gate <- gate_gate, writer <- gate_writer,
  applied <- gate_applied, Writers <- gate_Writers, Bases <- gate_Bases,
  Temperatures <- gate_Temperatures, NoReading <- gate_NoReading,
  NoRow <- gate_NoRow, MaxReadings <- gate_MaxReadings

ASSUME GateAssumption ==
  /\ gate_Bases \subseteq Int /\ gate_Temperatures \subseteq Int
  /\ gate_NoRow \notin Gate!Row /\ gate_NoRow \notin gate_Bases
  /\ gate_MaxReadings \in Nat

proofVars ==
  <<proof_now, proof_issues, proof_outcome, proof_world, proof_review,
    proof_collection, proof_scan, proof_looks, proof_decision, proof_bound>>
Proof == INSTANCE ProspectiveEvidence WITH
  now <- proof_now, issues <- proof_issues, outcome <- proof_outcome,
  world <- proof_world, review <- proof_review,
  collection <- proof_collection, scan <- proof_scan, looks <- proof_looks,
  decision <- proof_decision, bound <- proof_bound, Lead <- proof_Lead,
  Carry <- proof_Carry, FirstLook <- proof_FirstLook, Looks <- proof_Looks,
  Closed <- proof_Closed, Fresh <- proof_Fresh, MinPairs <- proof_MinPairs,
  PageSize <- proof_PageSize, None <- proof_None,
  MaxEvents <- proof_MaxEvents, MaxCrashes <- proof_MaxCrashes,
  Horizon <- proof_Horizon

ASSUME ProofAssumption ==
  /\ proof_Lead \in Nat /\ proof_Carry \in Nat /\ proof_FirstLook \in Nat /\ proof_Looks \in Nat
  /\ proof_Closed \in Nat /\ proof_Fresh \in Nat /\ proof_MinPairs \in Nat /\ proof_PageSize \in Nat
  /\ proof_MaxEvents \in Nat /\ proof_MaxCrashes \in Nat /\ proof_Horizon \in Nat

scoreVars ==
  <<score_plans, score_mode, score_gate, score_evals>>
Score == INSTANCE ForecastScorecard WITH
  plans <- score_plans, mode <- score_mode, gate <- score_gate,
  evals <- score_evals, Devices <- score_Devices, None <- score_None,
  Bad <- score_Bad, Observed <- score_Observed, Commanded <- score_Commanded,
  Lookup <- score_Lookup, Passes <- score_Passes, MaxPlans <- score_MaxPlans,
  MaxEvals <- score_MaxEvals

\* As many evaluations are remembered as the gate requires.
ASSUME ScoreAssumption ==
  /\ score_Passes \in Nat /\ score_MaxEvals \in Nat
  /\ score_Passes <= score_MaxEvals /\ score_MaxEvals >= 1

readinessVars ==
  <<readiness_now, readiness_flights, readiness_current, readiness_caller>>
Readiness == INSTANCE ReadinessSnapshot WITH
  now <- readiness_now, flights <- readiness_flights,
  current <- readiness_current, caller <- readiness_caller,
  Callers <- readiness_Callers, Keys <- readiness_Keys,
  MaxWaiters <- readiness_MaxWaiters, Response <- readiness_Response,
  MaxFlights <- readiness_MaxFlights, Horizon <- readiness_Horizon,
  None <- readiness_None

ASSUME ReadinessAssumption == readiness_None \notin Nat /\ readiness_Response \in Nat

servingVars ==
  <<serving_committed, serving_lapsed, serving_revision, serving_generation,
    serving_served, serving_version, serving_lock, serving_turns,
    serving_task, serving_plan>>
Serving == INSTANCE ModelServing WITH
  committed <- serving_committed, lapsed <- serving_lapsed,
  revision <- serving_revision, generation <- serving_generation,
  served <- serving_served, version <- serving_version, lock <- serving_lock,
  turns <- serving_turns, task <- serving_task, plan <- serving_plan,
  Requests <- serving_Requests, Planner <- serving_Planner,
  None <- serving_None, MaxTurns <- serving_MaxTurns

ASSUME ServingAssumption ==
  /\ serving_Planner \notin serving_Requests /\ serving_MaxTurns \in Nat
  /\ serving_None \notin [id : Nat, scope : Nat]

copVars ==
  <<cop_ledger, cop_sequence, cop_now, cop_view, cop_past, cop_blind>>
Cop == INSTANCE ManualCop WITH
  ledger <- cop_ledger, sequence <- cop_sequence, now <- cop_now,
  view <- cop_view, past <- cop_past, blind <- cop_blind,
  Editors <- cop_Editors, Dates <- cop_Dates, Zones <- cop_Zones,
  Skipped <- cop_Skipped, Day <- cop_Day, Window <- cop_Window,
  Folds <- cop_Folds, Limit <- cop_Limit, Editable <- cop_Editable,
  Opening <- cop_Opening, Skew <- cop_Skew, Horizon <- cop_Horizon,
  MaxWrites <- cop_MaxWrites, MaxGaps <- cop_MaxGaps, None <- cop_None

\* Zones count from the one whose midnight is first, and a page has a row.
ASSUME CopAssumption ==
  /\ cop_Dates \subseteq Nat /\ IsFiniteSet(cop_Dates) /\ cop_Dates # {}
  /\ cop_Editable \subseteq cop_Dates /\ cop_Zones \subseteq Nat
  /\ cop_Day \in Nat \ {0} /\ cop_Window \in Nat /\ cop_Folds \in Nat
  /\ cop_Limit \in Nat \ {0} /\ cop_Opening \in Nat /\ cop_Skew \in Nat
  /\ cop_None \notin Cop!Row

verdictVars == <<verdict,
                 evidenceVars, showersVars, gateVars, proofVars, scoreVars,
                 readinessVars, servingVars, copVars>>

EvidenceSubjects == {"none", "evidence", "showers", "gate", "proof", "score",
             "readiness", "serving", "cop"}

EvidenceInit ==
  /\ verdict \in EvidenceSubjects
  /\ IF verdict = "evidence" THEN Evidence!Init
     ELSE evidence_now = "absent" /\ evidence_pump = "absent" /\
          evidence_was = "absent" /\ evidence_stored = "absent" /\
          evidence_source = "absent" /\ evidence_attempt = "absent" /\
          evidence_reads = "absent" /\ evidence_done = "absent" /\
          evidence_turns = "absent" /\ evidence_attempts = "absent"
  /\ IF verdict = "showers" THEN Showers!Init
     ELSE showers_schema = "absent" /\ showers_shower = "absent" /\
          showers_expired = "absent" /\ showers_restore = "absent" /\
          showers_due = "absent" /\ showers_claim = "absent" /\
          showers_seen = "absent" /\ showers_skipped = "absent" /\
          showers_fence = "absent" /\ showers_attempt = "absent" /\
          showers_tx = "absent" /\ showers_hand = "absent" /\
          showers_showers = "absent" /\ showers_faults = "absent" /\
          showers_closings = "absent"
  /\ IF verdict = "gate" THEN Gate!Init
     ELSE gate_base = "absent" /\ gate_gate = "absent" /\ gate_writer = "absent" /\
          gate_applied = "absent"
  /\ IF verdict = "proof" THEN Proof!Init
     ELSE proof_now = "absent" /\ proof_issues = "absent" /\
          proof_outcome = "absent" /\ proof_world = "absent" /\
          proof_review = "absent" /\ proof_collection = "absent" /\
          proof_scan = "absent" /\ proof_looks = "absent" /\
          proof_decision = "absent" /\ proof_bound = "absent"
  /\ IF verdict = "score" THEN Score!Init
     ELSE score_plans = "absent" /\ score_mode = "absent" /\
          score_gate = "absent" /\ score_evals = "absent"
  /\ IF verdict = "readiness" THEN Readiness!Init
     ELSE readiness_now = "absent" /\ readiness_flights = "absent" /\
          readiness_current = "absent" /\ readiness_caller = "absent"
  /\ IF verdict = "serving" THEN Serving!Init
     ELSE serving_committed = "absent" /\ serving_lapsed = "absent" /\
          serving_revision = "absent" /\ serving_generation = "absent" /\
          serving_served = "absent" /\ serving_version = "absent" /\
          serving_lock = "absent" /\ serving_turns = "absent" /\
          serving_task = "absent" /\ serving_plan = "absent"
  /\ IF verdict = "cop" THEN Cop!Init
     ELSE cop_ledger = "absent" /\ cop_sequence = "absent" /\ cop_now = "absent" /\
          cop_view = "absent" /\ cop_past = "absent" /\ cop_blind = "absent"

EvidenceNext ==
  /\ UNCHANGED verdict
  /\ IF verdict = "evidence" THEN Evidence!Next ELSE UNCHANGED evidenceVars
  /\ IF verdict = "showers" THEN Showers!Next ELSE UNCHANGED showersVars
  /\ IF verdict = "gate" THEN Gate!Next ELSE UNCHANGED gateVars
  /\ IF verdict = "proof" THEN Proof!Next ELSE UNCHANGED proofVars
  /\ IF verdict = "score" THEN Score!Next ELSE UNCHANGED scoreVars
  /\ IF verdict = "readiness" THEN Readiness!Next ELSE UNCHANGED readinessVars
  /\ IF verdict = "serving" THEN Serving!Next ELSE UNCHANGED servingVars
  /\ IF verdict = "cop" THEN Cop!Next ELSE UNCHANGED copVars

EvidenceSpec == EvidenceInit /\ [][EvidenceNext]_verdictVars

-----------------------------------------------------------------------------
(***************************************************************************)
(* A restore is closed by a status that the pump had after the command     *)
(* settled (executor_core.py, device_data_quality.py); an open shower has  *)
(* a restore that is owed, and a restore closes its shower once            *)
(* (shower_mode.py, safety_reverts.py).                                    *)
(***************************************************************************)
EvidenceIsCurrent ==
  /\ verdict = "evidence" => Evidence!EvidenceIsCurrent
  /\ verdict = "showers" => Showers!OpenShowersAreOwed /\ Showers!RestoresCloseOnce

(***************************************************************************)
(* What a request is told was computed for it: a shared readiness snapshot *)
(* of its own generation (model_status.py); manual COP rows as its own     *)
(* snapshot of the database had them, with no hindsight in the backtest    *)
(* (cop_monitoring.py, api/routers/feeds.py); a forecast from one model,   *)
(* of the sensors in force (thermal.py, comfort_model.py).                 *)
(***************************************************************************)
AnswersAreTheirOwn ==
  /\ verdict = "readiness" => Readiness!AnswersAreTheirOwn
  /\ verdict = "cop" => Cop!EditsAreSeen /\ Cop!QueriedIsEnough /\ Cop!NoHindsight /\ Cop!PagesListAll
  /\ verdict = "serving" => Serving!ForecastsAreCurrent

(***************************************************************************)
(* A verdict rests on evidence that earned it: a qualification on the      *)
(* clean pairs of a complete scan, however the past became known           *)
(* (lifecycle.py), control by a learned forecast on a streak of passing    *)
(* scorecards in one mode, scored by what all plans of an issue agree on   *)
(* (forecast_quality.py), and the heating gate on the readings of one      *)
(* configuration (space_heating_gate.py).                                  *)
(***************************************************************************)
QualificationIsEarned ==
  /\ verdict = "proof" => Proof!QualificationIsEarned
  /\ verdict = "score" => Score!ControlIsEarned /\ Score!EvidenceAgrees
  /\ verdict = "gate" => Gate!GateIsEarned

=============================================================================
