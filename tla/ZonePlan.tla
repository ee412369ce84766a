------------------------------ MODULE ZonePlan ------------------------------
(***************************************************************************)
(* What the rules engine plans for the rooms (optimizer/rules_engine.py    *)
(* and the preheat, guardrail and mode rules of rule_mixins.py): boosts of *)
(* the zone target with their restores, quiet mode and the special status. *)
(* The rules run one after the other, each adding to one list of actions,  *)
(* and the list is normalised at the end.                                  *)
(*                                                                         *)
(* Time runs in hours from the start of the horizon, temperatures of the   *)
(* house in tenths of a degree.  How long a boost must last and by how     *)
(* much it warms the house are declared with the forecast.                 *)
(***************************************************************************)
EXTENDS Integers, Sequences, FiniteSets, FiniteSetsExt, Functions, SequencesExt

CONSTANTS Hours,       \* length of the priced horizon
          Day,         \* hours in a day
          PriceCurves, \* prices of the hours
          Weathers,    \* outdoor temperatures of the hours, in degrees
          Gates,       \* the pump's own heating gate, hour by hour
          Forecasts,   \* forecasts of the house without planned heating
          Lows,        \* forecasts of the house with the least it heats itself
          Rooms,       \* temperatures of the house now
          Comforts,    \* sets of comfort hours
          Zones,       \* "usable", "unobserved", "unavailable" or "overheated"
          Headrooms,   \* degrees between the zone target and its limit
          Statuses,    \* special status the pump reports
          Nights,      \* <<start, end>> of the quiet hours
          Levels,      \* quiet level the pump reports
          Needs,       \* hours a boost must last, 0 if the water is warm enough
          PreheatBack, GuardBack, Ahead, \* how far the rules look (8, 6 and 8 hours)
          None         \* the quiet level is unknown

Target == 205  \* comfort_temp_target
Floor == 180   \* comfort_temp_min
Roof == 220    \* comfort_temp_max
Margin == 3    \* COMFORT_SATISFIED_MARGIN_C
Gain == 10     \* what a boost of one degree gives in an hour
Spread == 2    \* THERMAL_BATTERY_MIN_SPREAD_EUR_PER_KWH

VARIABLES trace,   \* what the engine has read
          at,      \* the rule that runs next
          actions, \* what the rules have asked for
          plan     \* what is left of it

zoneVars == <<trace, at, actions, plan>>

Slots == 0..(Hours - 1)
Instants == 0..(Hours + Day)

Traces == [price : PriceCurves, outdoor : Weathers, gate : Gates, forecast : Forecasts,
           lowest : Lows, room : Rooms, comfort : Comforts, zone : Zones, headroom : Headrooms,
           status : Statuses, night : Nights, level : Levels, needed : Needs]

Init == /\ trace \in Traces
        /\ at = "preheat"
        /\ actions = <<>>
        /\ plan = <<>>

-----------------------------------------------------------------------------

Price(h) == trace.price[h + 1]
Outdoor(h) == trace.outdoor[h + 1]
Predicted(h) == trace.forecast[h + 1]
Lowest(h) == trace.lowest[h + 1]
Allowed(h) == trace.gate[h + 1] = "ALLOWED"

Observed == trace.zone \in {"usable", "overheated"}
Overheated == trace.zone = "overheated"
MinimumComfort == Overheated /\ trace.room < Floor

Long == Max({1, trace.needed})

Boost(h, n, offset, owner) ==
    <<[t |-> h, kind |-> "boost", value |-> Min({offset, trace.headroom}), owner |-> owner],
      [t |-> h + n, kind |-> "restore", value |-> 0, owner |-> owner]>>
CanBoost == trace.headroom > 0
Quiet(t, level) == [t |-> t, kind |-> "quiet", value |-> level, owner |-> "none"]
Mode(t, mode) == [t |-> t, kind |-> "mode", value |-> mode, owner |-> "none"]

\* What an hour of heat costs: the pump is less efficient in the cold.
Cost(h) == Price(h) * (IF Outdoor(h) < 2 THEN 4 ELSE 3)
SlotCost(h, n) == FoldFunctionOnSet(+, 0, [k \in Slots |-> Cost(k)], h..(h + n - 1))

\* The first of the cheapest n hours in a row within a set of hours.
Cheapest(n, hours) ==
    LET starts == {h \in hours : h..(h + n - 1) \subseteq hours}
    IN {h \in starts : \A k \in starts : \/ SlotCost(h, n) < SlotCost(k, n)
                                         \/ SlotCost(h, n) = SlotCost(k, n) /\ h <= k}

-----------------------------------------------------------------------------
(* Preheating before a cold hour, or else banking cheap heat.              *)

HourTarget(h) == IF h \in trace.comfort THEN Target ELSE Floor

ColdRisks == {h \in Slots : Outdoor(h) < 2 /\ Allowed(h) /\ Predicted(h) < HourTarget(h) - Margin}

\* Hours whose heat is worth more later, and that leave no room too warm.
Candidates == {h \in Slots :
    /\ Allowed(h) /\ Predicted(h) < Target - Margin
    /\ \E k \in (h + 1)..Min({Hours - 1, h + Ahead}) : Cost(k) - Cost(h) >= Spread}

Safe(h, offset) ==
    \A k \in Slots : Predicted(k) + (IF k >= h THEN Gain * Min({offset, trace.headroom}) ELSE 0) <= Roof

BestSpread(h) == Max({Cost(k) - Cost(h) : k \in (h + 1)..Min({Hours - 1, h + Ahead})})

Banked ==
    LET offset == IF \E h \in Candidates : Safe(h, 2) THEN 2 ELSE 1
        safe == {h \in Candidates : Safe(h, offset)}
        Better(h, k) == \/ Cost(h) < Cost(k)
                        \/ Cost(h) = Cost(k) /\ BestSpread(h) > BestSpread(k)
                        \/ Cost(h) = Cost(k) /\ BestSpread(h) = BestSpread(k) /\ h <= k
    IN IF /\ trace.room < Target - Margin
          /\ \A h \in Slots : trace.gate[h + 1] # "UNKNOWN"
          /\ CanBoost /\ safe # {}
       THEN Boost(CHOOSE h \in safe : \A k \in safe : Better(h, k), 1, offset, "battery")
       ELSE <<>>

Preheated ==
    LET cold == Min(ColdRisks)
        slot == Cheapest(Long, {h \in Slots : /\ cold - Long - PreheatBack <= h
                                               /\ h < cold /\ Allowed(h)})
    IN IF trace.needed > 0 /\ CanBoost /\ slot # {}
       THEN Boost(Min(slot), Long, Long, "preheat") ELSE <<>>

Preheat ==
    /\ at = "preheat"
    /\ at' = "peaks"
    /\ actions' = IF trace.zone # "usable" THEN actions
                  ELSE actions \o IF ColdRisks = {} THEN Banked ELSE Preheated
    /\ UNCHANGED <<trace, plan>>

-----------------------------------------------------------------------------
(* Quiet mode: in the dearest hours, and at night.                         *)

Sorted == SortSeq(trace.price, <)

\* The dearest sixth of the horizon, where it is dear enough and not freezing.
Peaks ==
    LET dearer(h) == {k \in Slots : Price(k) > Price(h) \/ (Price(k) = Price(h) /\ k < h)}
        median == Sorted[Hours \div 2 + 1]
    IN {h \in Slots : /\ Sorted[1] < Sorted[Hours]
                      /\ Cardinality(dearer(h)) < Max({1, Hours \div 6})
                      /\ 10 * Price(h) >= 13 * median
                      /\ Outdoor(h) >= 0}

PeakHour(h) == IF h \in Peaks THEN <<Quiet(h, 1), Quiet(h + 1, 0)>> ELSE <<>>
PeakHours[n \in 0..Hours] == IF n = 0 THEN <<>> ELSE PeakHours[n - 1] \o PeakHour(n - 1)

AvoidPeaks ==
    /\ at = "peaks"
    /\ at' = "quiet"
    /\ actions' = actions \o PeakHours[Hours]
    /\ UNCHANGED <<trace, plan>>

\* The horizon starts at hour 0 of the day.
Night(h) ==
    LET from == trace.night[1] to == trace.night[2]
    IN IF from < to THEN from <= h /\ h < to ELSE h >= from \/ h < to

\* The level to begin with, and the two switches of a day in their order.
QuietNow ==
    LET desired == IF trace.night[1] # trace.night[2] /\ Night(0) THEN 2 ELSE 0
    IN IF trace.level \notin {None, desired} THEN <<Quiet(0, desired)>> ELSE <<>>
Switches ==
    LET from == trace.night[1] to == trace.night[2]
    IN IF from = to THEN <<>>
       ELSE IF from < to THEN <<Quiet(from, 2), Quiet(to, 0)>> ELSE <<Quiet(to, 0), Quiet(from, 2)>>

QuietNights ==
    /\ at = "quiet"
    /\ at' = "guard"
    /\ actions' = actions \o QuietNow \o Switches
    /\ UNCHANGED <<trace, plan>>

-----------------------------------------------------------------------------
(* Guardrails: one boost before the first comfort hour that would be cold. *)

GuardTarget == IF Overheated THEN Floor ELSE Target
GuardForecast(h) == IF Lowest(h) < Floor - 3 THEN Lowest(h) ELSE Predicted(h)
ColdComfort == {h \in Slots : /\ h \in trace.comfort /\ Allowed(h)
                              /\ GuardTarget - GuardForecast(h) >= 3}

Guarded ==
    LET h == Min(ColdComfort)
        slot == Cheapest(Long, {k \in Slots : h - Long - GuardBack <= k /\ k <= h /\ Allowed(k)})
        offset == IF GuardTarget - GuardForecast(h) <= 5 THEN 1 ELSE 2
    IN Boost(IF slot = {} THEN h ELSE Min(slot), Long, offset, "guardrail")

\* The house is below its target now and loses a degree within two hours.
CoolsNow == /\ 0 \in trace.comfort /\ Allowed(0)
            /\ GuardTarget - 10 < trace.room /\ trace.room < GuardTarget - 3

Guard ==
    /\ at = "guard"
    /\ at' = "modes"
    /\ actions' = IF (trace.zone = "usable" \/ MinimumComfort) /\ CanBoost
                  THEN actions \o (IF ColdComfort # {} THEN Guarded
                                   ELSE IF CoolsNow THEN Boost(0, 1, 2, "cooling") ELSE <<>>)
                  ELSE actions
    /\ UNCHANGED <<trace, plan>>

-----------------------------------------------------------------------------
(* Special status: comfort, normal or eco, hour by hour.                   *)

\* An instant at which a boost owns the zone target, both ends included.
Owned(s, t) == Cardinality({i \in DOMAIN s : s[i].kind = "boost" /\ s[i].t <= t})
               > Cardinality({i \in DOMAIN s : s[i].kind = "restore" /\ s[i].t < t})

Skipped(t) == Owned(actions, t)

Percentile(i) == Sorted[i + 1]
Cheap(h) == Price(h) <= Percentile(Max({0, (Hours * 25) \div 100 - 1}))
Dear(h) == Price(h) >= Percentile(Min({Hours - 1, (Hours * 90) \div 100}))
Flat == Sorted[1] = Sorted[Hours]
Satisfied(h, target) == Observed /\ Predicted(h) >= target + Margin

Wanted(h) ==
    IF h \in trace.comfort
    THEN IF Satisfied(h, Target) THEN "eco"
         ELSE IF (~Flat /\ Dear(h)) \/ Outdoor(h) >= 5 THEN "normal" ELSE "comfort"
    ELSE IF ~Satisfied(h, Floor) /\ ~Flat /\ Cheap(h) THEN "normal" ELSE "eco"

\* An hour writes the status it wants, unless it has it or its heat is not allowed.
Writes(h, mode) == ~Skipped(h) /\ Wanted(h) # mode /\ (Wanted(h) = "eco" \/ Allowed(h))
Status[n \in 0..Hours] ==
    IF n = 0 THEN trace.status
    ELSE IF Writes(n - 1, Status[n - 1]) THEN Wanted(n - 1) ELSE Status[n - 1]
ModeHour(h) == IF Writes(h, Status[h]) THEN <<Mode(h, Wanted(h))>> ELSE <<>>
ModeHours[n \in 0..Hours] == IF n = 0 THEN <<>> ELSE ModeHours[n - 1] \o ModeHour(n - 1)

Modes ==
    /\ at = "modes"
    /\ at' = "normalise"
    /\ actions' = IF /\ trace.status \in {"normal", "eco", "comfort"}
                     /\ trace.zone \notin {"unavailable", "overheated"}
                  THEN actions \o ModeHours[Hours] ELSE actions
    /\ UNCHANGED <<trace, plan>>

-----------------------------------------------------------------------------
(* Normalisation: boosts own the zone, one quiet level holds at a time.    *)

\* What a sequence has at some of its places, and in the order of its times.
Chosen(s, places, n) == IF n \in places THEN <<s[n]>> ELSE <<>>
Picking(s, places) ==
    LET pick[n \in 0..Len(s)] == IF n = 0 THEN <<>> ELSE pick[n - 1] \o Chosen(s, places, n)
    IN pick
Picked(s, places) == Picking(s, places)[Len(s)]

Ordering(s) ==
    LET upTo[t \in 0..(Hours + Day + 1)] ==
          IF t = 0 THEN <<>> ELSE upTo[t - 1] \o Picked(s, {i \in DOMAIN s : s[i].t = t - 1})
    IN upTo
Ordered(s) == Ordering(s)[Hours + Day + 1]

\* Of the levels asked for at one instant the strongest stands, the last of equals.
Strongest(s, i) == \A j \in DOMAIN s : s[j].kind = "quiet" /\ s[j].t = s[i].t =>
                       s[j].value < s[i].value \/ (s[j].value = s[i].value /\ j <= i)

Kept(s, i) == /\ s[i].kind = "mode" => ~Owned(s, s[i].t)
              /\ s[i].kind = "quiet" => Strongest(s, i)

\* The quiet level after each action; one that repeats the level there is is left out.
Level(s) ==
    LET level[n \in 0..Len(s)] ==
          IF n = 0 THEN trace.level ELSE IF s[n].kind = "quiet" THEN s[n].value ELSE level[n - 1]
    IN level
Collapsed(s) ==
    Picked(s, {i \in DOMAIN s : s[i].kind = "quiet" => s[i].value # Level(s)[i - 1]})

Normalise ==
    /\ at = "normalise"
    /\ at' = "done"
    /\ plan' = Collapsed(Ordered(Picked(actions, {i \in DOMAIN actions : Kept(actions, i)})))
    /\ UNCHANGED <<trace, actions>>

Next == Preheat \/ AvoidPeaks \/ QuietNights \/ Guard \/ Modes \/ Normalise

Spec == Init /\ [][Next]_zoneVars

-----------------------------------------------------------------------------

Of(s, kind) == Picked(s, {i \in DOMAIN s : s[i].kind = kind})

\* The quiet level at an instant, when the actions up to it are carried out.
LevelAt(s, t) ==
    LET past == Picked(s, {i \in DOMAIN s : s[i].t <= t})
    IN Level(past)[Len(past)]

\* What was asked for last, the strongest of what was asked for at that instant.
AskedLevel(t) ==
    LET past == {a \in Range(actions) : a.kind = "quiet" /\ a.t <= t}
    IN IF past = {} THEN trace.level
       ELSE Max({a.value : a \in {b \in past : \A c \in past : c.t <= b.t}})

(***************************************************************************)
(* The rules do not get in each other's way.  A special status is never    *)
(* written while a boost owns the zone target, and none the mode rule      *)
(* asked for is taken out afterwards, since it counts on each of them; at  *)
(* every instant the quiet level is the strongest that was asked for last, *)
(* without a command that repeats the level there is.                      *)
(***************************************************************************)
RulesCompose ==
    at = "done" =>
        /\ \A i \in DOMAIN plan : plan[i].kind = "mode" => ~Owned(plan, plan[i].t)
        /\ Of(plan, "mode") = Ordered(Of(actions, "mode"))
        /\ \A t \in Instants : LevelAt(plan, t) = AskedLevel(t)
        /\ \A i \in DOMAIN plan : plan[i].kind = "quiet" => plan[i].value # Level(plan)[i - 1]

(***************************************************************************)
(* A boost starts only in an hour in which the pump's own gate lets it     *)
(* heat, never in a house with a room above its maximum unless the house   *)
(* is below its minimum, and is taken back later by exactly one restore.   *)
(***************************************************************************)
BoostsCanWork ==
    \A i \in DOMAIN actions : actions[i].kind = "boost" =>
        /\ Allowed(actions[i].t)
        /\ Overheated => MinimumComfort
        /\ Cardinality({j \in DOMAIN actions : /\ actions[j].kind = "restore"
                                               /\ actions[j].owner = actions[i].owner
                                               /\ actions[j].t > actions[i].t}) = 1
=============================================================================
