---------------------------- MODULE MCServices ----------------------------
(***************************************************************************)
(* The services around the safety lane and the planner on small instances. *)
(* A behaviour is one service of one of the three groups: the others rest, *)
(* and their variables are "absent".                                       *)
(***************************************************************************)
EXTENDS AccountServices, CustodyServices, EvidenceServices, TLC
CONSTANTS p, q, r, s,  \* processes, accounts, homes, providers
          None, Other  \* nothing stored yet; the other special value of a service

\* A date without a local midnight in one of the two zones.
SkippedMidnights == {<<1, 2>>}

\* What the scorecard has observed of its two hours.
ObservedHours == (1 :> 1) @@ (2 :> 1)

\* The hours in which a device was commanded.
CommandedHours == {<<r, 2>>}

\* The areas of the two homes.
DistinctDigests == {(r :> 1) @@ (s :> 2)}

\* Prices of the hours: a peak of two hours, and two cheap hours.
CurvesOfPrices == {<<1, 1, 4, 2, 1, 1>>, <<3, 1, 1, 3, 3, 3>>}

\* Outdoor temperatures of the hours: it becomes cold, or stays mild.
ColdAndMild == {<<8, 3, 3, 1, 1, 1>>, <<8, 8, 8, 8, 8, 8>>}

\* The pump's own gate: one hour is blocked, or two are and one is unknown.
HourlyGates == {<<"ALLOWED", "ALLOWED", "ALLOWED", "BLOCKED", "ALLOWED", "ALLOWED">>,
                <<"BLOCKED", "UNKNOWN", "ALLOWED", "BLOCKED", "ALLOWED", "ALLOWED">>}

\* Forecasts of the house: slowly cooling, and from warm to cold.
HouseForecasts == {<<203, 202, 201, 199, 198, 198>>, <<210, 209, 208, 199, 190, 185>>}

\* Forecasts with the least heating: the same, and cold from the beginning.
LowForecasts == {<<203, 202, 201, 199, 198, 198>>, <<178, 177, 176, 175, 174, 173>>}

\* Quiet hours: now, later, and over midnight.
QuietNightHours == {<<0, 3>>, <<3, 5>>, <<6, 2>>}

\* What the two special statuses add to a set point.
SpecialShift == [eco |-> -1, comfort |-> 1]

vars == <<accountVars, custodyVars, verdictVars>>

\* One service of all.
OneActs ==
  Cardinality({i \in 1..3 : <<account, custody, verdict>>[i] # "none"}) = 1

Init ==
  /\ account \in AccountSubjects
  /\ custody \in CustodySubjects
  /\ verdict \in EvidenceSubjects
  /\ OneActs
  /\ AccountInit /\ CustodyInit /\ EvidenceInit

Next == AccountNext /\ CustodyNext /\ EvidenceNext

Spec == Init /\ [][Next]_vars

\* No service treats p and q, which are processes or devices, differently.
Symmetry == Permutations({p, q})

=============================================================================
