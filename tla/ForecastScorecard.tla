-------------------------- MODULE ForecastScorecard --------------------------
(***************************************************************************)
(* The scorecard of saved forecasts.  Every planning cycle saves a plan    *)
(* with the forecasts it was made with; the scorecard reads all plans of   *)
(* the window, newest first, and scores what the learned model predicted   *)
(* and what the space-heating baseline would have changed.  Plans of one   *)
(* cycle repeat each other, disagree, or are damaged.  The scorecard then  *)
(* feeds the gate that would let the learned forecast into planning.       *)
(*                                                                         *)
(* One lead time stands for the three; a curve is then one point.  The     *)
(* errors are told apart only as none and some.                            *)
(***************************************************************************)
EXTENDS Integers, Sequences, FiniteSets
CONSTANTS
  Devices,   \* heat pumps
  None,      \* a missing device, instant or target; a curve that is no curve
  Bad,       \* a value that is no finite number
  Observed,  \* the temperature the plan's sensors measured at a target, or None
  Commanded, \* pump and issue of the plans near which a command was dispatched
             \* or a restore was due
  Lookup,    \* TRUE: the commands and the restores could all be read
  Passes,    \* indoor_forecast_gate_passes_required
  MaxPlans,  \* bound: saved plans
  MaxEvals   \* bound: evaluations remembered

VARIABLES
  plans,  \* the saved plans, in the order of their ids
  mode,   \* space_heating_baseline_mode is "on"
  gate,   \* forecast_quality_gate, beside the metrics of the comfort model
  evals   \* ghost: the last evaluations of the gate since the model was loaded

vars == <<plans, mode, gate, evals>>

Point(t, v, source) == [t |-> t, v |-> v, source |-> source]

(* A sound plan, and what may be different about one.                      *)
Sound(d) ==
  [dev |-> d, issue |-> 1, origin |-> TRUE, status |-> "available", live |-> FALSE,
   forecast |-> Point(1, 1, "learned"), shadow |-> {},
   candidate |-> Point(1, 1, "baseline"), zero |-> Point(1, 2, "baseline")]
Learned == {Point(1, 2, "learned"), Point(2, 1, "learned"), Point(None, 1, "learned"),
            Point(1, Bad, "learned"), Point(1, 1, "unknown"), None}
Pair == {Point(1, 1, "baseline"), Point(2, 1, "baseline"), Point(None, 1, "baseline"),
         Point(1, Bad, "baseline"), None}
Damaged(p) ==
  {[p EXCEPT !.dev = None], [p EXCEPT !.issue = None, !.origin = FALSE],
   [p EXCEPT !.origin = FALSE], [p EXCEPT !.status = "unavailable"]}
Different(p) ==
  {[p EXCEPT !.issue = 2], [p EXCEPT !.status = "fallback"], [p EXCEPT !.live = TRUE],
   [p EXCEPT !.status = "fallback", !.shadow = {Point(1, 2, "learned")}],
   [p EXCEPT !.forecast = Point(1, 1, "rule"), !.shadow = {Point(1, 1, "learned")}]}
    \cup {[p EXCEPT !.forecast = x] : x \in Learned}
    \cup {[p EXCEPT !.shadow = {x}] : x \in Learned}
    \cup {[p EXCEPT !.zero = x] : x \in Pair}
Savable == UNION {{Sound(d)} \cup Damaged(Sound(d)) \cup Different(Sound(d)) : d \in Devices}

NoGate == [status |-> "none", passes |-> 0, mode |-> FALSE, id |-> None]

Init ==
  /\ plans = <<>> /\ mode = FALSE /\ gate = NoGate /\ evals = <<>>

-----------------------------------------------------------------------------
(* The first pass: whose plan is it, and of which issue? *)

Range2(s) == {s[i] : i \in 1..Len(s)}

(* The plans of a sequence that are in a set, in their order.              *)
Chosen(ps, wanted, n) == IF ps[n] \in wanted THEN <<ps[n]>> ELSE <<>>
Selecting(ps, wanted) ==
  LET upTo[n \in 0..Len(ps)] ==
        IF n = 0 THEN <<>> ELSE upTo[n - 1] \o Chosen(ps, wanted, n)
  IN upTo
Selected(ps, wanted) == Selecting(ps, wanted)[Len(ps)]

(* Plans made with the other baseline mode are left out altogether.        *)
OfMode(ps) == Selected(ps, {p \in Range2(ps) : p.live = mode})

Whole(p) ==
  p.dev # None /\ p.issue # None /\ p.origin /\ p.status \in {"available", "fallback"}
Scope(p) == <<p.dev, p.issue>>
Curves(p) == {<<"forecast", p.forecast>>} \cup {<<"shadow", x>> : x \in p.shadow}

(* saved_targets: series and target of every point that has one.           *)
Targets(p) == {<<c[1], c[2].t>> : c \in {c \in Curves(p) : c[2] # None /\ c[2].t # None}}

(* A damaged plan may be a version of every scope that what is left of its *)
(* provenance fits; without an instant, its targets must meet as well.     *)
Fits(p, q) ==
  /\ p.dev # None => p.dev = q.dev
  /\ p.issue # None => p.issue = q.issue
  /\ p.issue = None =>
       IF Targets(p) # {} THEN Targets(p) \cap Targets(q) # {} ELSE p.dev # None

AmbiguousScopes(ps) ==
  LET whole == {p \in Range2(ps) : Whole(p)} IN
  {Scope(p) : p \in {p \in whole :
     \/ \E q \in whole : Scope(q) = Scope(p) /\ q.status # p.status
     \/ \E q \in Range2(ps) : ~Whole(q) /\ Fits(q, p)}}

-----------------------------------------------------------------------------
(* The second pass: evidence and what makes it ambiguous *)

(* A learned prediction has one role in whichever curve it is served; the  *)
(* others have their curve's.                                              *)
Role(series, source) == IF source = "learned" THEN "learned" ELSE series
Roles(ps, scope, series) ==
  LET known == {Role(series, c[2].source) :
                c \in {c \in UNION {Curves(p) : p \in {p \in Range2(ps) : Whole(p) /\ Scope(p) = scope}} :
                       c[1] = series /\ c[2] # None /\ c[2].source # "unknown"}}
  IN IF known = {} THEN {series} ELSE known

(* What the reading of one plan adds to the evidence.  "first" holds the   *)
(* first target seen of a role, "outcomes" what is to be scored.           *)
Start == [first |-> {}, conflicts |-> {}, outcomes |-> {}, points |-> {}, sources |-> {},
          series |-> {}]

Marked(e, ps, p) ==
  LET sc == Scope(p)
      broken == {c \in Curves(p) : c[2] = None}
      unknown == {c \in Curves(p) \ broken : c[2].source = "unknown"}
      undated == {c \in Curves(p) \ (broken \cup unknown) : c[2].t = None}
  IN [e EXCEPT
        !.series = @ \cup UNION {{<<sc, r>> : r \in Roles(ps, sc, c[1])} : c \in broken},
        !.points = @ \cup UNION {{<<sc, r>> : r \in Roles(ps, sc, c[1])} : c \in unknown},
        !.sources = @ \cup {<<sc, Role(c[1], c[2].source), c[2].source>> : c \in undated}]

(* record_forecast_target: two targets of one role and lead conflict.      *)
Targeted(e, key, t) ==
  LET before == {f \in e.first : f[1] = key} IN
  IF before = {} THEN [e EXCEPT !.first = @ \cup {<<key, t>>}]
  ELSE [e EXCEPT !.conflicts = @ \cup
          UNION {{<<key, f[2]>>, <<key, t>>} : f \in {f \in before : f[2] # t}}]

(* record_outcome: the same once, another value not at all.                *)
Recorded(e, id, what) ==
  LET before == {o \in e.outcomes : o[1] = id} IN
  IF id \in e.conflicts THEN e
  ELSE IF before = {} THEN [e EXCEPT !.outcomes = @ \cup {<<id, what>>}]
  ELSE IF \E o \in before : o[2] # what
  THEN [e EXCEPT !.outcomes = @ \ before, !.conflicts = @ \cup {id}]
  ELSE e

(* One point: a fallback plan's own learned forecast is not evidence.      *)
Pointed(e, p, c) ==
  LET x == c[2]
      key == <<Scope(p), Role(c[1], x.source), x.source>>
      e1 == Targeted(e, key, x.t)
      id == <<key, x.t>>
  IN
  IF x = None THEN e
  ELSE IF \/ x.t = None \/ x.source = "unknown"
          \/ p.status = "fallback" /\ c[1] = "forecast" /\ x.source = "learned"
          \/ c[1] = "shadow" /\ x.source # "learned" THEN e
  ELSE IF x.v = Bad THEN [e1 EXCEPT !.conflicts = @ \cup {id}]
  ELSE IF Observed[x.t] = None THEN e1
  ELSE Recorded(e1, id, <<x.v, p.status>>)

(* A plan whose forecast is no list is left after its marks are made.      *)
Visited(e, ps, p) ==
  LET m == Marked(e, ps, p)
      f == Pointed(m, p, <<"forecast", p.forecast>>)
  IN
  IF p.forecast = None THEN m
  ELSE IF p.shadow = {} THEN f
  ELSE Pointed(f, p, <<"shadow", CHOOSE x \in p.shadow : TRUE>>)

(* From the newest plan to the oldest.                                     *)
Clear(ps) == {p \in Range2(ps) : Whole(p) /\ Scope(p) \notin AmbiguousScopes(ps)}
Reading(ps, clear) ==
  LET after[n \in 0..Len(clear)] ==
        IF n = 0 THEN Start ELSE Visited(after[n - 1], ps, clear[Len(clear) - n + 1])
  IN after
Evidence(ps) == LET clear == Selected(ps, Clear(ps)) IN Reading(ps, clear)[Len(clear)]

(* score: what was recorded, less what turned out ambiguous.               *)
Scored(ps) ==
  LET e == Evidence(ps) IN
  {o \in e.outcomes :
     LET key == o[1][1] IN
     /\ key[3] = "learned"
     /\ o[1] \notin e.conflicts
     /\ <<key[1], key[2]>> \notin e.points
     /\ key \notin e.sources
     /\ <<key[1], key[2]>> \notin e.series}

-----------------------------------------------------------------------------
(* The pairs that compare the baseline with none *)

(* A plan near a command or a restore of its pump is no evidence of what   *)
(* the house does by itself; if that cannot be read, none is.              *)
Undisturbed(p) == Lookup /\ Scope(p) \notin Commanded

Paired(e, p) ==
  LET sc == Scope(p)
      curves == {<<"candidate", p.candidate>>, <<"zero", p.zero>>}
      dated == {c \in curves : c[2] # None /\ c[2].t # None}
      clash == {c \in dated : \E f \in e.first :
                  f[1] = <<sc, c[1]>> /\ \/ f[2] # c[2].t
                                         \/ f[3] \notin {c[2].v, Bad} /\ c[2].v # Bad}
      both == ~p.live /\ p.candidate # None /\ p.zero # None /\ p.candidate.t = p.zero.t
              /\ p.candidate.t # None
      sound == both /\ p.candidate.v # Bad /\ p.zero.v # Bad /\ Observed[p.candidate.t] # None
  IN [e EXCEPT
        !.series = @ \cup {sc : c \in {c \in curves : c[2] = None}},
        !.points = @ \cup {sc : c \in {c \in curves : c[2] # None /\ c[2].t = None}},
        !.first = @ \cup {<<<<sc, c[1]>>, c[2].t, c[2].v>> : c \in dated},
        !.conflicts = @ \cup {<<sc, c[2].t>> : c \in clash \cup {c \in dated : c[2].v = Bad}}
                        \cup {<<sc, f[2]>> : f \in {f \in e.first :
                                \E c \in clash : f[1] = <<sc, c[1]>>}},
        !.outcomes = IF sound THEN @ \cup {<<<<sc, p.candidate.t>>, <<p.candidate.v, p.zero.v>>>>}
                     ELSE @]

Pairing(clear) ==
  LET after[n \in 0..Len(clear)] ==
        IF n = 0 THEN Start ELSE Paired(after[n - 1], clear[Len(clear) - n + 1])
  IN after
Pairs(ps) ==
  LET clear == Selected(ps, {p \in Clear(ps) : Undisturbed(p)})
      e == Pairing(clear)[Len(clear)]
  IN {o \in e.outcomes : /\ o[1] \notin e.conflicts
                         /\ o[1][1] \notin e.points /\ o[1][1] \notin e.series}

-----------------------------------------------------------------------------
(* The gate *)

(* _quality_gate, of the learned score: enough of it, and no error.        *)
RawPass(score) == score # {} /\ \A o \in score : o[2][1] = Observed[o[1][2]]

(* The identity of an evaluation is what the score adds up to.             *)
Identity(score) ==
  <<mode, Cardinality(score), Cardinality({o \in score : o[2][1] # Observed[o[1][2]]})>>

(* apply_control_gate_hysteresis: a streak belongs to one context.         *)
Streak(pass) ==
  IF ~pass THEN 0 ELSE IF gate.mode = mode THEN gate.passes + 1 ELSE 1

(* evaluate_live_control_gate and record_forecast_quality_gate: the same   *)
(* scorecard in the same context is not counted twice.                     *)
Evaluate ==
  LET score == Scored(OfMode(plans))
      pass == RawPass(score)
      n == Streak(pass)
  IN
  /\ Identity(score) # gate.id
  /\ gate' = [status |-> IF ~pass THEN "fallback" ELSE IF n >= Passes THEN "allowed" ELSE "observing",
              passes |-> n, mode |-> mode, id |-> Identity(score)]
  /\ evals' = (IF Len(evals) < MaxEvals THEN evals ELSE Tail(evals)) \o <<<<mode, pass>>>>
  /\ UNCHANGED <<plans, mode>>

(* A planning cycle saves its plan.                                        *)
Save(p) ==
  /\ Len(plans) < MaxPlans /\ plans' = Append(plans, p)
  /\ UNCHANGED <<mode, gate, evals>>

(* The committed model is loaded again, and with it its metrics.           *)
Reload ==
  /\ gate # NoGate /\ gate' = NoGate /\ evals' = <<>>
  /\ UNCHANGED <<plans, mode>>

(* The owner changes space_heating_baseline_mode.                          *)
Configure == mode' = ~mode /\ UNCHANGED <<plans, gate, evals>>

Next ==
  \/ \E p \in Savable : Save(p)
  \/ Evaluate \/ Reload \/ Configure

Spec == Init /\ [][Next]_vars

-----------------------------------------------------------------------------
(* What the scorecard promises, whatever the order of the plans: a         *)
(* learned prediction of an issue counts once, and only if every plan that *)
(* may be of that issue is sound and says the same.                        *)
Claims(scope, ps) ==
  UNION {{<<p, c[2]>> : c \in {c \in Curves(p) :
            /\ c[2] # None /\ c[2].source = "learned"
            /\ ~(p.status = "fallback" /\ c[1] = "forecast") /\ p.forecast # None}} :
         p \in {p \in ps : Whole(p) /\ Scope(p) = scope}}
Unanimous(scope, ps) ==
  LET claims == Claims(scope, ps)
      served == {c[1] : c \in UNION {{c \in Curves(p) : c[2] # None /\ c[2].source = "learned"} :
                                     p \in {p \in ps : Whole(p) /\ Scope(p) = scope}}}
  IN
  /\ claims # {}
  /\ \A a, b \in claims : a[2] = b[2] /\ a[1].status = b[1].status
  /\ \A a \in claims : a[2].v # Bad /\ a[2].t # None /\ Observed[a[2].t] # None
  /\ \A p \in ps : Whole(p) /\ Scope(p) = scope =>
       \A c \in Curves(p) : c[1] \in served =>
         c[2] # None /\ c[2].source # "unknown" /\ (c[2].source = "learned" => c[2].t # None)
  /\ \A p \in ps : ~Whole(p) => ~\E q \in ps : Whole(q) /\ Scope(q) = scope /\ Fits(p, q)
  /\ \A p, q \in ps : Whole(p) /\ Whole(q) /\ Scope(p) = scope /\ Scope(q) = scope =>
       p.status = q.status

(***************************************************************************)
(* get_forecast_scorecard counts exactly the learned predictions on which  *)
(* all plans that may be of the same issue agree, each once, in whatever   *)
(* order the plans were saved; a baseline pair counts only if no command   *)
(* or restore of its pump fell near its plan and no other plan of the      *)
(* issue says otherwise.                                                   *)
(***************************************************************************)
EvidenceAgrees ==
  LET ps == OfMode(plans)
      good == {s \in {Scope(p) : p \in Range2(ps)} : Unanimous(s, Range2(ps))}
  IN
  /\ {<<o[1][1][1], o[1][2]>> : o \in Scored(ps)}
       = UNION {{<<s, a[2].t>> : a \in Claims(s, Range2(ps))} : s \in good}
  /\ Cardinality({o[1][1][1] : o \in Scored(ps)}) = Cardinality(Scored(ps))
  /\ \A o \in Pairs(ps) :
       /\ o[1][1] \notin Commanded
       /\ \A p \in Range2(ps) : Whole(p) /\ Scope(p) = o[1][1] =>
            /\ p.candidate # None /\ p.zero # None
            /\ p.candidate.t = o[1][2] /\ p.zero.t = o[1][2]
            /\ <<p.candidate.v, p.zero.v>> = o[2]

(***************************************************************************)
(* The gate allows control only after as many different passing            *)
(* evaluations in a row, in one baseline mode, as it requires              *)
(* (apply_control_gate_hysteresis).                                        *)
(***************************************************************************)
ControlIsEarned ==
  gate.status = "allowed" =>
    /\ Len(evals) >= Passes
    /\ \A i \in Len(evals) - Passes + 1..Len(evals) : evals[i] = <<gate.mode, TRUE>>
=============================================================================
