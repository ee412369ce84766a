----------------------------- MODULE HeatingGate -----------------------------
(***************************************************************************)
(* The space-heating gate (core/space_heating_gate.py) and the transaction *)
(* that stores a status with the gate's transition                         *)
(* (core/device_status_ingestion.py).  The poller and a poll-now of the    *)
(* API each read the pump, then the configuration, and only then take the  *)
(* device's advisory lock; the owner changes the configuration at any      *)
(* time.  A configuration stands for a base temperature and the two        *)
(* offsets stored in the settings with it, which the fingerprint covers;   *)
(* here they differ in the base, and the offsets are OnOffset, OffOffset.  *)
(***************************************************************************)
EXTENDS Integers, Sequences

CONSTANTS Writers,      \* the poller's job and the API's poll-now
          Bases,        \* configured base temperatures
          Temperatures, \* raw outdoor temperatures of the pump
          NoReading,    \* no finite temperature, or a status whose clock is refused
          NoRow,        \* no gate row; a writer that has read nothing
          MaxReadings   \* bound: statuses stored

VARIABLES base,     \* the configuration in the settings
          gate,     \* NoRow, or the row of the device
          writer,   \* what each writer holds
          applied   \* history: the statuses stored, in order of commit

gateVars == <<base, gate, writer, applied>>

OnOffset == 1
OffOffset == 3
Readings == Temperatures \cup {NoReading}

Resting == [at |-> "idle", reading |-> NoReading, base |-> NoRow]

Row == [base : Bases, state : {"UNKNOWN", "ALLOWED", "BLOCKED"}, failures : Nat, last : Readings]
Holding == [at : {"idle", "observed", "locking"}, reading : Readings, base : Bases \cup {NoRow}]

TypeOK == /\ base \in Bases
          /\ gate \in Row \cup {NoRow}
          /\ writer \in [Writers -> Holding]
          /\ \A w \in Writers : writer[w].at = "locking" => writer[w].base \in Bases
          /\ applied \in Seq([base : Bases, reading : Readings])

Init == /\ base \in Bases
        /\ gate = NoRow
        /\ writer = [w \in Writers |-> Resting]
        /\ applied = <<>>

Low(t, b) == t # NoReading /\ t < b + OnOffset
High(t, b) == t # NoReading /\ t > b + OffOffset

\* transition_gate: inside the band, and without a reading, the state stays.
Transition(prior, t, b) ==
    IF Low(t, b) THEN "ALLOWED" ELSE IF High(t, b) THEN "BLOCKED" ELSE prior

\* A row of another configuration is no evidence, for ingestion and readers.
Matches(row, b) == row # NoRow /\ row.base = b

ResolveAnyBase(row, b) == IF row # NoRow THEN row.state ELSE "UNKNOWN"

Resolve(row, b) == IF Matches(row, b) THEN row.state ELSE "UNKNOWN"

\* poll_device_status or _poll_now_with_wrapper: the pump is read.
Observe(w) ==
    /\ writer[w].at = "idle"
    /\ \E t \in Readings :
          writer' = [writer EXCEPT ![w] = [at |-> "observed", reading |-> t, base |-> NoRow]]
    /\ UNCHANGED <<base, gate, applied>>

\* ingest_device_status reads the configuration before it takes the lock.
ReadConfig(w) ==
    /\ writer[w].at = "observed"
    /\ writer' = [writer EXCEPT ![w].at = "locking", ![w].base = base]
    /\ UNCHANGED <<base, gate, applied>>

Failures(row) == IF row = NoRow THEN 0 ELSE row.failures

\* The transaction under the lock: the status, the transition, the counters.
Ingest(w) ==
    /\ writer[w].at = "locking"
    /\ Len(applied) < MaxReadings
    /\ LET t == writer[w].reading
           b == writer[w].base
       IN /\ gate' = [base     |-> b,
                      state    |-> Transition(Resolve(gate, b), t, b),
                      failures |-> IF t = NoReading THEN Failures(gate) + 1 ELSE 0,
                      last     |-> t]
          /\ applied' = Append(applied, [base |-> b, reading |-> t])
    /\ writer' = [writer EXCEPT ![w] = Resting]
    /\ UNCHANGED base

\* The read, the lock or the commit fails: nothing is stored.
Abandon(w) ==
    /\ writer[w].at \in {"observed", "locking"}
    /\ writer' = [writer EXCEPT ![w] = Resting]
    /\ UNCHANGED <<base, gate, applied>>

Configure ==
    /\ base' \in Bases \ {base}
    /\ UNCHANGED <<gate, writer, applied>>

Next == \/ \E w \in Writers : Observe(w) \/ ReadConfig(w) \/ Ingest(w) \/ Abandon(w)
        \/ Configure

Spec == Init /\ [][Next]_gateVars

-----------------------------------------------------------------------------
\* The stored statuses after which only this configuration was applied.
Since(b) == {i \in 1..Len(applied) : \A j \in i..Len(applied) : applied[j].base = b}

Decisive(b) == {i \in Since(b) : \/ Low(applied[i].reading, b)
                                 \/ High(applied[i].reading, b)}

Deserved(b) ==
    IF Decisive(b) = {} THEN "UNKNOWN"
    ELSE LET last == CHOOSE i \in Decisive(b) : \A j \in Decisive(b) : j <= i
         IN IF Low(applied[last].reading, b) THEN "ALLOWED" ELSE "BLOCKED"

TrailingFailures ==
    Len(applied) - CHOOSE n \in 0..Len(applied) :
                      /\ \A i \in (n + 1)..Len(applied) : applied[i].reading = NoReading
                      /\ n > 0 => applied[n].reading # NoReading

(***************************************************************************)
(* Whatever configuration a reader resolves the gate with, it is told what *)
(* the readings stored under that configuration without interruption have  *)
(* earned: ALLOWED or BLOCKED by the last reading outside the band,        *)
(* UNKNOWN if there was none.  Returning to an earlier configuration does  *)
(* not revive its evidence.  The failure counter counts the unreadable     *)
(* statuses since the last readable one, over changes of configuration.    *)
(***************************************************************************)
GateIsEarned ==
    /\ \A b \in Bases : Resolve(gate, b) = Deserved(b)
    /\ gate # NoRow => gate.failures = TrailingFailures
=============================================================================
