---------------------------- MODULE DeviceObject ----------------------------
(***************************************************************************)
(* The device object of aioaquarea and the commands it builds.  An object  *)
(* remembers the last status it has read; a command is built from it and   *)
(* carries, beside what was asked for, parts of that status back to the    *)
(* pump.  Objects of several processes, and the owner at the panel, change *)
(* the same pump.                                                          *)
(*                                                                         *)
(* A pump is a function of fields: <<name, zone>>, with zone 0 for what    *)
(* belongs to no zone.  A command is a function of some of the fields.     *)
(* Cooling set points go wherever the heating ones go, and are left out;   *)
(* "extra" stands for the force heater, the holiday timer and the powerful *)
(* time, which are sent alone and only if they differ from the status.     *)
(***************************************************************************)
EXTENDS Integers
CONSTANTS
  Objects,   \* device objects, one per process that controls the pump
  Bare,      \* those whose device list named the pump by its GUID only
  Zones,     \* its zones, 1, 2, ..
  Choices,   \* temperatures asked for
  Lowest, Highest,  \* heat_min and heat_max of a zone
  Shift,     \* eco_heat and comfort_heat: Shift["eco"], Shift["comfort"]
  None,      \* no call is under way
  MaxTurns   \* bound: commands, refreshes and changes at the panel

VARIABLES
  pump,     \* the pump's fields
  cloud,    \* its fields as the cloud last read them
  seen,     \* object -> _status, with what it lacks
  call,     \* object -> the command under way, or None
  chosen,   \* ghost: zone -> the normal temperatures that somebody chose
  muddled,  \* ghost: a set point was cut off at a limit, or sent for another
            \* special status than the pump had
  turns     \* bound: what happened so far

vars == <<pump, cloud, seen, call, chosen, muddled, turns>>

Power == <<"power", 0>>
Mode == <<"mode", 0>>
TankOn == <<"tank", 0>>
Target == <<"target", 0>>
Special == <<"special", 0>>
Extra == <<"extra", 0>>
On(z) == <<"on", z>>
Heat(z) == <<"heat", z>>
Fields == {Power, Mode, TankOn, Target, Special, Extra} \cup {On(z) : z \in Zones}
            \cup {Heat(z) : z \in Zones}

(* The zones an object knows: get_devices reads them from the device list. *)
ZonesOf(o) == IF o \in Bare THEN {} ELSE Zones
HasTank(o) == o \notin Bare

Modifier(special) == IF special = "none" THEN 0 ELSE Shift[special]
Limit(t) == IF t < Lowest THEN Lowest ELSE IF t > Highest THEN Highest ELSE t

(* A pump in heat mode, everything on, as its owner set it.                *)
Factory ==
  [f \in Fields |->
     IF f = Mode THEN "heat" ELSE IF f = Special THEN "none"
     ELSE IF f[1] \in {"heat", "target"} THEN 2 ELSE IF f = Extra THEN FALSE ELSE TRUE]

(* What a field may hold, and what a status is.                            *)
Fits(f, v) ==
  /\ f = Mode => v \in {"off", "heat", "cool"}
  /\ f = Special => v \in {"none", "eco", "comfort"}
  /\ f \in {Target} \cup {Heat(z) : z \in Zones} => v \in Int
  /\ f \in {Power, TankOn, Extra} \cup {On(z) : z \in Zones} => v \in BOOLEAN
IsStatus(s) == DOMAIN s = Fields /\ \A f \in Fields : Fits(f, s[f])

TypeOK ==
  /\ IsStatus(pump) /\ IsStatus(cloud)
  /\ DOMAIN seen = Objects /\ \A o \in Objects : IsStatus(seen[o])
  /\ DOMAIN call = Objects
  /\ \A o \in Objects : call[o] # None =>
       /\ IsStatus(call[o].saw) /\ DOMAIN call[o].sends \subseteq Fields
       /\ \A f \in DOMAIN call[o].sends : Fits(f, call[o].sends[f])
  /\ chosen \in [Zones -> SUBSET Int]
  /\ muddled \in BOOLEAN /\ turns \in 0..MaxTurns

Init ==
  /\ pump = Factory /\ cloud = Factory
  /\ seen = [o \in Objects |-> Factory]
  /\ call = [o \in Objects |-> None]
  /\ chosen = [z \in Zones |-> {2}]
  /\ muddled = FALSE /\ turns = 0

Turn == turns < MaxTurns /\ turns' = turns + 1

(* A command with the fields it was asked to change, sent from a status.   *)
Send(o, asked, fields) ==
  /\ Turn /\ call[o] = None
  /\ call' = [call EXCEPT ![o] = [asked |-> asked, sends |-> fields, saw |-> seen[o]]]
  /\ UNCHANGED <<pump, cloud, seen, chosen, muddled>>

-----------------------------------------------------------------------------
(* What the commands carry *)

(* set_mode: every zone, the tank and the set points go with it.  The pump *)
(* is switched off with the last zone, if the tank is off as well.         *)
ModeUpdate(o, mode, zone) ==
  LET st == seen[o]
      on == [z \in ZonesOf(o) |-> IF zone \in {0, z} THEN mode # "off" ELSE st[On(z)]]
      tank == HasTank(o) /\ st[TankOn]
      off == mode = "off" /\ ~tank /\ \A z \in ZonesOf(o) : ~on[z]
  IN [f \in {Mode, Power, TankOn} \cup {On(z) : z \in ZonesOf(o)} \cup {Heat(z) : z \in ZonesOf(o)} |->
        CASE f = Mode -> mode
          [] f = Power -> ~off
          [] f = TankOn -> tank
          [] f[1] = "on" -> on[f[2]]
          [] OTHER -> st[f]]

SetMode(o, mode, zone) ==
  /\ zone \in ZonesOf(o) \cup {0}
  /\ Send(o, {Mode, Power} \cup {On(z) : z \in {z \in ZonesOf(o) : zone \in {0, z}}}
               \cup (IF HasTank(o) THEN {} ELSE {TankOn}),
          ModeUpdate(o, mode, zone))

(* __calculate_zone_special_status_update__: back to normal first.         *)
Shifted(s, z, special) ==
  LET normal == IF s[Special] = "none" THEN s[Heat(z)]
                ELSE Limit(s[Heat(z)] - Modifier(s[Special]))
  IN IF special = "none" THEN normal ELSE Limit(normal + Modifier(special))

SetSpecial(o, special) ==
  LET st == seen[o]
      heats == {Heat(z) : z \in ZonesOf(o)} IN
  /\ ZonesOf(o) # {} /\ st[Special] # special
  /\ Send(o, {Special} \cup heats,
          [f \in {Special} \cup heats |-> IF f = Special THEN special ELSE Shifted(st, f[2], special)])

(* set_temperature writes only in the mode that the object has seen.       *)
SetTemperature(o, z, t) ==
  /\ z \in ZonesOf(o) /\ seen[o][Mode] = "heat"
  /\ Send(o, {Heat(z)}, [f \in {Heat(z)} |-> t])

(* turn_on compares with the status, in which a power that is missing      *)
(* reads as off; turn_off does as well, unless the status has a fault.     *)
TurnPower(o, on) ==
  /\ on => ~seen[o][Power]
  /\ Send(o, {Power}, [f \in {Power} |-> on])

(* Tank.turn_off and turn_on send the zones along.                         *)
TurnTank(o, on) ==
  /\ HasTank(o) /\ seen[o][TankOn] # on
  /\ Send(o, {TankOn},
          [f \in {TankOn} \cup {On(z) : z \in ZonesOf(o)} |-> IF f = TankOn THEN on ELSE seen[o][f]])

SetTarget(o, t) ==
  /\ HasTank(o) /\ seen[o][Target] # t /\ t \in Lowest..Highest
  /\ Send(o, {Target}, [f \in {Target} |-> t])

SetExtra(o, on) ==
  /\ seen[o][Extra] # on
  /\ Send(o, {Extra}, [f \in {Extra} |-> on])

-----------------------------------------------------------------------------
(* The pump and the cloud *)

Normal(fields, z) == fields[Heat(z)] - Modifier(fields[Special])

(* A zone has a normal temperature that nobody chose.                      *)
Resent(o) ==
  LET c == call[o] IN
  \E z \in ZonesOf(o) :
    /\ Heat(z) \in DOMAIN c.sends
    /\ \/ Special \notin DOMAIN c.sends /\ c.saw[Special] # pump[Special]
       \/ /\ Special \in DOMAIN c.sends
          /\ c.sends[Heat(z)] - Modifier(c.sends[Special]) # Normal(c.saw, z)
          /\ {c.saw[Heat(z)] - Modifier(c.saw[Special]),
              c.saw[Heat(z)] - Modifier(c.saw[Special]) + Modifier(c.sends[Special])}
               \ (Lowest..Highest) # {}

Apply(o) ==
  /\ call[o] # None
  /\ pump' = [f \in Fields |-> IF f \in DOMAIN call[o].sends THEN call[o].sends[f] ELSE pump[f]]
  /\ chosen' = [z \in Zones |->
       IF Heat(z) \in call[o].asked /\ Special \notin call[o].asked
       THEN chosen[z] \cup {Normal(pump', z)} ELSE chosen[z]]
  /\ muddled' = (muddled \/ Resent(o))
  /\ call' = [call EXCEPT ![o] = None]
  /\ UNCHANGED <<cloud, seen, turns>>

(* The request fails; its caller sees an error and the status is as before.*)
Lose(o) ==
  /\ call[o] # None /\ call' = [call EXCEPT ![o] = None]
  /\ UNCHANGED <<pump, cloud, seen, chosen, muddled, turns>>

(* The owner at the panel, or another app.                                 *)
Owner ==
  /\ Turn
  /\ \/ \E f \in {TankOn, Extra} \cup {On(z) : z \in Zones} :
          pump' = [pump EXCEPT ![f] = ~@] /\ UNCHANGED chosen
     \/ \E z \in Zones, t \in Choices :
          /\ pump' = [pump EXCEPT ![Heat(z)] = t]
          /\ chosen' = [chosen EXCEPT ![z] = @ \cup {Normal(pump', z)}]
  /\ UNCHANGED <<cloud, seen, call, muddled>>

(* get_device_status of the adaptor, which may lack the operation status.  *)
RefreshLive(o) ==
  /\ Turn /\ call[o] = None
  /\ \E s \in {pump, [pump EXCEPT ![Power] = FALSE]} : seen' = [seen EXCEPT ![o] = s]
  /\ cloud' = pump
  /\ UNCHANGED <<pump, call, chosen, muddled>>

(* Without an answer of the adaptor, what the cloud remembers will do.     *)
RefreshCached(o) ==
  /\ Turn /\ call[o] = None /\ seen[o] # cloud
  /\ seen' = [seen EXCEPT ![o] = cloud]
  /\ UNCHANGED <<pump, cloud, call, chosen, muddled>>

Next ==
  \/ \E o \in Objects :
       \/ \E mode \in {"off", "heat", "cool"}, z \in Zones \cup {0} : SetMode(o, mode, z)
       \/ \E special \in {"none", "eco", "comfort"} : SetSpecial(o, special)
       \/ \E z \in Zones, t \in Choices : SetTemperature(o, z, t)
       \/ \E on \in BOOLEAN : TurnPower(o, on) \/ TurnTank(o, on) \/ SetExtra(o, on)
       \/ \E t \in Choices : SetTarget(o, t)
       \/ Apply(o) \/ Lose(o) \/ RefreshLive(o) \/ RefreshCached(o)
  \/ Owner

Spec == Init /\ [][Next]_vars

-----------------------------------------------------------------------------
(***************************************************************************)
(* A command of the device object (set_mode, turn_on, set_special_status,  *)
(* ..) sends back whatever it was not asked to change as the object last   *)
(* saw it; set_mode switches the pump off only with everything that the    *)
(* object knows of switched off; and the set points do not drift: however  *)
(* special statuses follow each other, from whatever objects, what is left *)
(* when they are taken away is a temperature that somebody chose, unless a *)
(* limit cut it off or it was sent back under another special status.      *)
(***************************************************************************)
CommandsAreTheOwners ==
  /\ \A o \in Objects : call[o] # None =>
       LET c == call[o] IN
       /\ \A f \in DOMAIN c.sends \ c.asked : c.sends[f] = c.saw[f]
       /\ {Power, Mode} \subseteq DOMAIN c.sends /\ ~c.sends[Power] =>
            /\ c.sends[Mode] = "off" /\ ~c.sends[TankOn]
            /\ \A z \in ZonesOf(o) : ~c.sends[On(z)]
  /\ ~muddled => \A z \in Zones : Normal(pump, z) \in chosen[z]
=============================================================================
