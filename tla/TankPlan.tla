------------------------------ MODULE TankPlan ------------------------------
(***************************************************************************)
(* Hot-water plans: the DHW rules (optimizer/rule_mixins.py) and the       *)
(* solver (optimizer/milp.py) propose forced heating cycles, and           *)
(* represented_strategy.py replays the commands, as they are serialised,   *)
(* against the declared trace of the house before a plan is kept.          *)
(*                                                                         *)
(* Time runs in hours from the start of the horizon, an hour in Per equal  *)
(* parts; the solver's runtimes are whole parts.  Temperatures are in      *)
(* quarters of a degree and move at the default rates: 5 degrees an hour   *)
(* up and half a degree an hour down, for the tank as for a room without   *)
(* heat; a room with its native heating rises half a degree an hour.       *)
(***************************************************************************)
EXTENDS Integers, Sequences, FiniteSets, FiniteSetsExt, Functions, SequencesExt

CONSTANTS Hours,    \* length of the priced horizon
          Midnight, \* the hour of the horizon at which a day begins
          Prices,   \* prices of an hour
          Tanks,    \* observed temperatures of the tank
          Rooms,    \* observed temperatures of the house
          Rates,    \* what the rules expect an hour of heating to give
          Natives,  \* sets of hours with a declared native heating load
          Comforts  \* sets of comfort hours, the end of the horizon included

Per == 2
Heat == 20 \div Per
Loss == 2 \div Per
Target == 208       \* tank_target_temp, 52 degrees
Ceiling == 210
RoomFloor == 72
RoomCeiling == 88
MaxPulses == 20
MinForce == 10      \* MIN_FORCE_DHW_MINUTES
MaxCoast == 4       \* MAX_DHW_DEADLINE_COAST_C
Headroom == 12      \* OPPORTUNISTIC_HEADROOM_C
LookBack == 8 * 60

VARIABLES trace,    \* the house as it is observed and declared
          engine,   \* "rules" or "milp"
          at,       \* the stage of the plan
          done,     \* deadlines that have been planned for
          commands  \* the serialised commands

tankVars == <<trace, engine, at, done, commands>>

Slots == 0..(Hours - 1)

Traces == [price : [Slots -> Prices], tank : Tanks, room : Rooms, native : Natives,
           blocked : {{}, {0}}, comfort : Comforts, rate : Rates, forced : BOOLEAN, shower : BOOLEAN]

Init == /\ engine \in {"rules", "milp"}
        /\ trace \in Traces
        /\ engine = "milp" => /\ ~trace.shower /\ trace.rate = Min(Rates)
                              /\ \A h \in Slots : trace.price[h] = Min(Prices)
        /\ at = "deadlines"
        /\ done = {}
        /\ commands = <<>>

-----------------------------------------------------------------------------
(* What the plan is about.                                                 *)

\* The first hour of each block of comfort hours of a day, after the start.
Deadlines == {d \in 1..Hours : d \in trace.comfort /\ (d - 1 \notin trace.comfort \/ d = Midnight)}

DeadlineFloor == 180
TankFloor(h) == IF h \in trace.comfort THEN 180 ELSE 160

On(h) == [on |-> TRUE, time |-> h * Per, key |-> h]
Off(h, time) == [on |-> FALSE, time |-> time, key |-> h]
Is(c, on, time) == c.on = on /\ c.time = time

-----------------------------------------------------------------------------
(* The rules: one cycle before each deadline, in the cheapest hours.       *)

\* predict_tank_heating_time, in minutes: at the rate of one hour's outdoor temperature,
\* where the trace has the rate of each hour.
Minutes(from) == IF from < Target THEN ((Target - from) * 60) \div trace.rate ELSE 0
HoursNeeded(from) == Max({1, (Max({0, Target - from}) + trace.rate - 1) \div trace.rate})

\* A forced cycle is on at an hour by the last command before or at it; OFF sorts first.
Forced(h) ==
    LET past == {c \in Range(commands) : c.time <= h * Per}
        last == Max({c.time : c \in past})
    IN past # {} /\ \E c \in past : Is(c, TRUE, last)

\* The tank at the start of an hour, with the cycles planned so far.
Projected[h \in 0..Hours] ==
    IF h = 0 THEN trace.tank
    ELSE IF Forced(h - 1) THEN Min({Target, Projected[h - 1] + trace.rate})
    ELSE Max({0, Projected[h - 1] - Per * Loss})

Cost(h, n) == FoldFunctionOnSet(+, 0, trace.price, h..(h + n - 1))

\* optimal_start_time adds 15 % to the heating time; the search starts 8 hours before it.
Window(d) == {h \in Slots : h < d /\ 100 * 60 * (d - h) <= 115 * Minutes(trace.tank) + 100 * LookBack}

\* _find_cheapest_slot: where n hours in a row cost least, within a set of hours
Cheapest(n, hours) ==
    LET starts == {h \in hours : h..(h + n - 1) \subseteq hours}
    IN {h \in starts : Cost(h, n) = Min({Cost(k, n) : k \in starts})}

\* A cycle that would miss its deadline, or cool off before it, moves up against it.
Moved(d, h) ==
    LET n == HoursNeeded(Projected[h])
    IN IF h + n <= d /\ (d - h - n) * Per * Loss <= MaxCoast THEN h ELSE Max({0, d - n})

CycleStart(d, h) == Moved(d, Moved(d, Moved(d, Moved(d, h))))

Cycle(h, n) == <<On(h)>> \o IF trace.shower THEN <<>> ELSE <<Off(h, (h + n) * Per)>>

WorthIt(from) == Minutes(from) > MinForce

PlanDeadline ==
    /\ engine = "rules" /\ at = "deadlines"
    /\ WorthIt(trace.tank)
    /\ Deadlines \ done # {}
    /\ LET d == Min(Deadlines \ done)
           slots == Cheapest(HoursNeeded(trace.tank), Window(d))
       IN /\ done' = done \cup {d}
          /\ IF slots = {} THEN UNCHANGED commands
             ELSE LET h == CycleStart(d, Min(slots))
                      n == HoursNeeded(Projected[h])
                  IN commands' = IF h + n <= d /\ WorthIt(Projected[h])
                                 THEN commands \o Cycle(h, n) ELSE commands
    /\ UNCHANGED <<trace, engine, at>>

\* One more cycle in an exceptionally cheap hour, when no deadline has one.
Opportunity ==
    /\ engine = "rules" /\ at = "deadlines"
    /\ Deadlines \subseteq done \/ ~WorthIt(trace.tank)
    /\ LET sorted == SortSeq([i \in 1..Hours |-> trace.price[i - 1]], <)
           median == sorted[Hours \div 2 + 1]
           best == Cheapest(1, {h \in Slots : 10 * trace.price[h] < 6 * median})
           h == Min(best)
           from == Max({0, trace.tank - h * Per * Loss})
       IN commands' = IF /\ commands = <<>> /\ WorthIt(trace.tank)
                         /\ Target - trace.tank >= Headroom
                         /\ best # {} /\ WorthIt(from) /\ h + HoursNeeded(from) <= Hours
                      THEN Cycle(h, HoursNeeded(from)) ELSE commands
    /\ at' = "certify"
    /\ UNCHANGED <<trace, engine, done>>
-----------------------------------------------------------------------------
(* The replay of serialised commands.                                      *)

Sources == {c \in Range(commands) : c.on}
Restores == {c \in Range(commands) : ~c.on}

\* Every cycle ends, once; represented_rules_commands refuses any other commands.
Paired == /\ {c.key : c \in Sources} = {c.key : c \in Restores}
          /\ Cardinality({i \in DOMAIN commands : ~commands[i].on})
             = Cardinality({c.key : c \in Restores})

PulseEnd(s, cs) == (CHOOSE c \in Range(cs) : ~c.on /\ c.key = s.key).time

\* The commands are pulses that start on the hour, one after the other.
ArePulses(cs) ==
    LET starts == {c \in Range(cs) : c.on} IN
    /\ Cardinality(starts) <= MaxPulses /\ Len(cs) = 2 * Cardinality(starts)
    /\ \A c \in Range(cs) : 0 <= c.time /\ c.time <= Hours * Per
    /\ \A s \in starts :
          /\ \E c \in Range(cs) : ~c.on /\ c.key = s.key /\ s.time < c.time
          /\ s.time % Per = 0
          /\ \A o \in starts \ {s} : PulseEnd(o, cs) <= s.time \/ PulseEnd(s, cs) <= o.time

\* How many parts of an hour a pulse takes.
PulseIn(h, cs) ==
    LET over == {c \in Range(cs) : c.on /\ c.time <= h * Per /\ h * Per < PulseEnd(c, cs)}
    IN IF over = {} THEN 0 ELSE Min({Per, PulseEnd(CHOOSE c \in over : TRUE, cs) - h * Per})

Within(tank, room, h) == /\ TankFloor(h) <= tank /\ tank <= Ceiling
                         /\ RoomFloor <= room /\ room <= RoomCeiling

BelowTarget(tank) == tank < Target - 2

\* The house over n parts with its declared heating, and while the tank takes the heat.
Heated(room, h, n) == room + n * (IF h \in trace.native THEN 1 ELSE -1)

\* Mutant: the declared heating goes on while the tank is heated.
DivertedNot(room, h, n) == Heated(room, h, n)

Diverted(room, h, n) == room - n

\* One priced hour: the pulse, then the rest with the native heating.
ReplayHour(s, h, n) ==
    LET peak == s.tank + n * Heat
        tank == peak - (Per - n) * Loss
        dip == Diverted(s.room, h, n)
        room == Heated(dip, h, Per - n)
    IN [tank |-> tank, room |-> room,
        ok |-> /\ s.ok
               /\ n > 0 => BelowTarget(s.tank) /\ BelowTarget(peak) /\ Within(peak, dip, h)
               /\ Within(tank, room, h)
               /\ h + 1 \in Deadlines => tank >= DeadlineFloor]

\* The house at the start of each hour.
Replayed(cs) ==
    LET house[h \in 0..Hours] ==
          IF h = 0 THEN [tank |-> trace.tank, room |-> trace.room, ok |-> TRUE]
          ELSE ReplayHour(house[h - 1], h - 1, PulseIn(h - 1, cs))
    IN house

\* No load is declared where the pump's own gate is shut.
Declared == trace.native \cap trace.blocked = {}

\* validate_trace: nothing is forced yet, and the declaration is consistent.
ValidTrace == ~trace.forced /\ Declared

Accepts(cs) == ValidTrace /\ ArePulses(cs) /\ Replayed(cs)[Hours].ok

Certify ==
    /\ engine = "rules" /\ at = "certify"
    /\ at' = IF Paired /\ Accepts(commands) THEN "certified" ELSE "refused"
    /\ UNCHANGED <<trace, engine, done, commands>>

-----------------------------------------------------------------------------
(* The solver: a runtime for each hour, under linear constraints.          *)

Sums(m) == LET sum[h \in 0..Hours] == IF h = 0 THEN 0 ELSE sum[h - 1] + m[h - 1] IN sum
Native(m) == [k \in Slots |-> IF k \in trace.native THEN 2 * (Per - m[k]) ELSE 0]
TankAt(m, h) == trace.tank + Heat * Sums(m)[h] - Loss * (Per * h - Sums(m)[h])
RoomAt(m, h) == trace.room - Per * h + Sums(Native(m))[h]

Feasible(m) ==
    \A h \in Slots :
       LET active == m[h] > 0
           peak == TankAt(m, h) + Heat * m[h]
           excess == IF h = 0 THEN Max({0, trace.tank - Ceiling}) ELSE 0
       IN /\ peak <= Ceiling + (IF active THEN 0 ELSE excess)
          /\ active => BelowTarget(TankAt(m, h)) /\ BelowTarget(peak)
          /\ active => TankFloor(h) <= peak
          /\ active => RoomFloor <= RoomAt(m, h) - m[h] /\ RoomAt(m, h) - m[h] <= RoomCeiling
          /\ Within(TankAt(m, h + 1), RoomAt(m, h + 1), h)
          /\ h + 1 \in Deadlines => TankAt(m, h + 1) >= DeadlineFloor

Runtimes == {m \in [Slots -> 0..Per] : Cardinality({h \in Slots : m[h] > 0}) <= MaxPulses}

Pulse(h, n) == IF n > 0 THEN <<On(h), Off(h, h * Per + n)>> ELSE <<>>
Pulses(m) == LET cs[h \in 0..Hours] == IF h = 0 THEN <<>> ELSE cs[h - 1] \o Pulse(h - 1, m[h - 1])
             IN cs
Serialised(m) == Pulses(m)[Hours]

Solve ==
    /\ engine = "milp" /\ at = "deadlines"
    /\ \/ \E m \in Runtimes :
             /\ ValidTrace /\ Feasible(m)
             /\ commands' = Serialised(m)
             /\ at' = IF Accepts(Serialised(m)) THEN "certified" ELSE "refused"
       \/ /\ ~ValidTrace \/ \A m \in Runtimes : ~Feasible(m)
          /\ at' = "refused" /\ UNCHANGED commands
    /\ UNCHANGED <<trace, engine, done>>

\* validate_represented_plan replays the plan that is to be kept once more.
Keep ==
    /\ at = "certified"
    /\ at' = IF Accepts(commands) THEN "kept" ELSE "refused"
    /\ UNCHANGED <<trace, engine, done, commands>>

Next == PlanDeadline \/ Opportunity \/ Certify \/ Solve \/ Keep

Spec == Init /\ [][Next]_tankVars

-----------------------------------------------------------------------------
(* What the commands do to the house, part by part: the pump stops heating *)
(* the tank just below its target, and heats no room when its own gate is  *)
(* shut.                                                                   *)

Lived(s, k) ==
    LET h == k \div Per
        on == IF \E c \in Range(commands) : Is(c, TRUE, k) THEN TRUE
              ELSE IF \E c \in Range(commands) : Is(c, FALSE, k) THEN FALSE ELSE s.on
        heats == on /\ BelowTarget(s.tank)
        warms == ~heats /\ h \in trace.native /\ h \notin trace.blocked
        tank == s.tank + (IF heats THEN Heat ELSE -Loss)
        room == s.room + (IF warms THEN 1 ELSE -1)
    IN [on |-> on, tank |-> tank, room |-> room,
        ok |-> /\ s.ok
               /\ heats => tank <= Ceiling
               /\ (k + 1) % Per = 0 => Within(tank, room, h)
               /\ (k + 1) % Per = 0 /\ h + 1 \in Deadlines => tank >= DeadlineFloor]

House[k \in 0..(Hours * Per)] ==
    IF k = 0 THEN [on |-> trace.forced, tank |-> trace.tank, room |-> trace.room, ok |-> TRUE]
    ELSE Lived(House[k - 1], k - 1)

AtEnd == House[Hours * Per]
Released == ~AtEnd.on \/ \E c \in Restores : c.time = Hours * Per

(***************************************************************************)
(* A plan that is kept does what it was kept for: carried out command by   *)
(* command, it has the tank warm at every deadline and within its bounds,  *)
(* and the house too, although heating the tank takes the heat from it,    *)
(* and what it has forced is released by the end of the horizon.           *)
(***************************************************************************)
KeptPlansWork == at = "kept" => AtEnd.ok /\ Released

(***************************************************************************)
(* The solver and the replay agree: a choice of runtimes satisfies the     *)
(* linear constraints exactly if the replay of its commands is accepted,   *)
(* so that no schedule the solver returns is thrown away.                  *)
(***************************************************************************)
SolverAndReplayAgree ==
    engine = "milp" /\ at = "deadlines" /\ ValidTrace =>
        \A m \in Runtimes : Feasible(m) <=> Accepts(Serialised(m))
=============================================================================
