---------------------------- MODULE RestoreEvidence ----------------------------
(***************************************************************************)
(* What a linked restore may believe (optimizer/executor_core.py,          *)
(* core/device_data_quality.py).  A restore of force-DHW ends when the     *)
(* pump is known to be off: by the last stored status, or by a live read   *)
(* that is paid for at a checkpoint of the attempt.  RestoreOwnership says *)
(* who may attempt; here one action is attempted again and again.          *)
(***************************************************************************)
EXTENDS Naturals, FiniteSets

CONSTANTS MaxAge,       \* ticks a stored status is fresh
          LiveAge,      \* ticks a live read is fresh, a minute at most
          ReadLimit,    \* EXECUTOR_VERIFY_READ_LIMIT
          Hour,         \* ticks of the window it counts in
          Checkpoints,  \* SAFETY_VERIFY_CHECKPOINTS_S: 1 .. n
          LiveAt,       \* SAFETY_LIVE_CHECKPOINTS_S
          Budget,       \* ticks an attempt may last
          NoTime,
          MaxTurns,     \* bound: times the pump is switched
          MaxAttempts,  \* bound
          Horizon       \* bound: ticks

VARIABLES now,
          pump,         \* the force flag of the pump
          was,          \* history: the flags it had in each tick
          stored,       \* the last DeviceStatusRecord: [ts, clock, value]
          source,       \* when the linked source settled, if that is proven
          attempt,      \* [at, claimed, settled, checkpoint, used, started]
          reads,        \* executor_verification_reads: [at, attempt, checkpoint]
          done,         \* how the action ended: [at, after]: the bound, or NoTime
          turns, attempts

evidenceVars == <<now, pump, was, stored, source, attempt, reads, done, turns, attempts>>
world == <<now, pump, was, stored, source, turns, attempts>>

NoRecord == [ts |-> NoTime, clock |-> NoTime, value |-> "on"]
NoAttempt == [at |-> "rest", claimed |-> 0, settled |-> NoTime, checkpoint |-> 1,
              used |-> {}, started |-> NoTime]
Open == [at |-> NoTime, after |-> NoTime]

Init == /\ now = 0
        /\ pump \in {"on", "off"}
        /\ was = [t \in 0 .. Horizon |-> IF t = 0 THEN {pump} ELSE {}]
        /\ stored = NoRecord
        /\ source \in {0, NoTime}
        /\ attempt = NoAttempt
        /\ reads = {}
        /\ done = Open
        /\ turns = 0 /\ attempts = 0

Goes(to) == attempt' = [attempt EXCEPT !.at = to]
Requeue == attempt' = NoAttempt
Closes(after) == done' = [at |-> now, after |-> after] /\ attempt' = NoAttempt
Live == now - attempt.claimed < Budget

-----------------------------------------------------------------------------
IssueUnbounded(ts, clock, bound, remote, age) ==
    \/ \E c \in {ts, clock} \ {NoTime} : c > now \/ now - c > age
    \/ clock # NoTime /\ clock > ts
    \/ remote /\ clock = NoTime

\* observation_clock_issue: a future, inverted, stale or missing clock, or one
\* that is not after the bound.
Issue(ts, clock, bound, remote, age) ==
    \/ \E c \in {ts, clock} \ {NoTime} : c > now \/ now - c > age
    \/ clock # NoTime /\ clock > ts
    \/ remote /\ clock = NoTime
    \/ bound # NoTime /\ \E c \in {ts, clock} \ {NoTime} : c <= bound

\* get_device_data_quality, as far as a restore looks: it may go on without a
\* status or with an old one, and is deferred by any other clock.
Ready == stored.ts # NoTime /\ ~Issue(stored.ts, stored.clock, NoTime, FALSE, MaxAge)
Deferred == /\ stored.ts # NoTime
            /\ ~Ready
            /\ now - stored.ts <= MaxAge
            /\ stored.clock # NoTime => now - stored.clock <= MaxAge

\* A status that was stored can be evidence only with a clock of the cloud.
Admissible(bound) == /\ stored.ts # NoTime
                     /\ bound # NoTime
                     /\ ~Issue(stored.ts, stored.clock, bound, TRUE, MaxAge)

Claim ==
    /\ attempt.at = "rest" /\ done = Open
    /\ attempts < MaxAttempts
    /\ attempts' = attempts + 1
    /\ attempt' = [NoAttempt EXCEPT !.at = "claimed", !.claimed = now]
    /\ UNCHANGED <<now, pump, was, stored, source, turns, reads, done>>

\* _dispatch_precondition, then _safety_already_safe.
Precondition ==
    /\ attempt.at = "claimed"
    /\ IF Deferred THEN Requeue /\ UNCHANGED done
       ELSE IF Ready /\ Admissible(source) /\ stored.value = "off"
       THEN Closes(source)
       ELSE Goes("pay") /\ UNCHANGED done
    /\ UNCHANGED <<world, reads>>

\* _reserve_verification_read: once for a checkpoint, and so many in an hour
\* for all restores together.
Reserve ==
    /\ attempt.at = "pay"
    /\ LET c == attempt.checkpoint IN
         IF /\ Live
            /\ c \notin attempt.used
            /\ Cardinality({r \in reads : now - r.at < Hour}) < ReadLimit
         THEN /\ reads' = reads \cup {[at |-> now, attempt |-> attempts, checkpoint |-> c]}
              /\ attempt' = [attempt EXCEPT !.at = "read", !.used = @ \cup {c}]
         ELSE Requeue /\ UNCHANGED reads
    /\ UNCHANGED <<world, done>>

ReadBegins ==
    /\ attempt.at = "read"
    /\ attempt' = IF Live THEN [attempt EXCEPT !.at = "reading", !.started = now]
                  ELSE NoAttempt
    /\ UNCHANGED <<world, reads, done>>

\* What the answer of the cloud may say: what the pump was at its clock, or
\* without one at any time while the cloud was asked, or before if it is not live.
Answers(live, clock) ==
    UNION {was[t] : t \in IF clock # NoTime THEN {clock}
                          ELSE IF live THEN attempt.started .. now ELSE 0 .. now}

After == IF attempt.settled # NoTime THEN attempt.settled ELSE source

\* _read_safety_observation.  A status with a clock of the cloud must pass the
\* bound with it; without one, the local clocks of a live read suffice.
ReadEnds ==
    /\ attempt.at = "reading"
    /\ \E live \in BOOLEAN, clock \in {NoTime} \cup (0 .. now) :
       \E value \in Answers(live, clock) :
         IF \/ ~live \/ ~Live
            \/ attempt.started < attempt.claimed
            \/ attempt.settled # NoTime /\ attempt.started < attempt.settled
            \/ Issue(now, clock, After, FALSE, LiveAge)
         THEN Requeue /\ UNCHANGED done
         ELSE IF value = "off"
         THEN Closes(After)
         ELSE /\ UNCHANGED done
              /\ IF attempt.settled = NoTime THEN Goes("send")
                 ELSE IF attempt.checkpoint + 1 \in Checkpoints
                 THEN attempt' = [attempt EXCEPT !.at = "poll", !.checkpoint = @ + 1]
                 ELSE Requeue
    /\ UNCHANGED <<world, reads>>

\* The call to the pump: it settles with an answer or without one, or not
\* while the attempt lasts, and then the attempt is drained and requeued.
Send ==
    /\ attempt.at = "send"
    /\ Live
    /\ Goes("sent")
    /\ UNCHANGED <<world, reads, done>>

Settle ==
    /\ attempt.at = "sent"
    /\ \/ /\ Live
          /\ attempt' = [attempt EXCEPT !.at = "poll", !.settled = now, !.checkpoint = 1]
       \/ Requeue
    /\ UNCHANGED <<world, reads, done>>

\* _poll_until_verified, at one checkpoint: the stored status first, then a
\* live read at the checkpoints that have one and are not consumed.
Poll ==
    /\ attempt.at = "poll"
    /\ Live
    /\ IF Admissible(attempt.settled) /\ stored.value = "off"
       THEN Closes(attempt.settled)
       ELSE /\ UNCHANGED done
            /\ IF attempt.checkpoint \in LiveAt \ attempt.used THEN Goes("pay")
               ELSE IF attempt.checkpoint + 1 \in Checkpoints
               THEN attempt' = [attempt EXCEPT !.checkpoint = @ + 1]
               ELSE Requeue
    /\ UNCHANGED <<world, reads>>

Deadline ==
    /\ attempt.at # "rest"
    /\ ~Live
    /\ Requeue
    /\ UNCHANGED <<world, reads, done>>

-----------------------------------------------------------------------------
\* The poller stores a status.  With a clock of the cloud the value is of that
\* time; without one it may be of any earlier time.
Store ==
    \E clock \in {NoTime} \cup (0 .. now) :
    \E value \in UNION {was[t] : t \in IF clock = NoTime THEN 0 .. now ELSE {clock}} :
        /\ stored' = [ts |-> now, clock |-> clock, value |-> value]
        /\ UNCHANGED <<now, pump, was, source, turns, attempts, attempt, reads, done>>

\* The restore's own call, the owner, or a source that was not proven drained.
Turn ==
    /\ turns < MaxTurns
    /\ turns' = turns + 1
    /\ pump' = IF pump = "on" THEN "off" ELSE "on"
    /\ was' = [was EXCEPT ![now] = @ \cup {pump'}]
    /\ UNCHANGED <<now, stored, source, attempts, attempt, reads, done>>

Tick ==
    /\ now < Horizon
    /\ now' = now + 1
    /\ was' = [was EXCEPT ![now + 1] = {pump}]
    /\ UNCHANGED <<pump, stored, source, turns, attempts, attempt, reads, done>>

Next == \/ Claim \/ Precondition \/ Reserve \/ ReadBegins \/ ReadEnds \/ Send \/ Settle
        \/ Poll \/ Deadline \/ Store \/ Turn \/ Tick

Spec == Init /\ [][Next]_evidenceVars

(***************************************************************************)
(* The types of the clocks, the attempt and the records.                   *)
(***************************************************************************)
Ticks == 0 .. Horizon
Clocks == Ticks \cup {NoTime}
Values == {"on", "off"}
Attempts == [at : {"rest", "claimed", "pay", "read", "reading", "send", "sent", "poll"},
             claimed : Ticks, settled : Clocks, checkpoint : Nat, used : SUBSET Nat,
             started : Clocks]

TypeOK ==
    /\ now \in Ticks
    /\ pump \in Values
    /\ was \in [Ticks -> SUBSET Values]
    /\ stored \in [ts : Clocks, clock : Clocks, value : Values]
    /\ source \in {0, NoTime}
    /\ attempt \in Attempts
    /\ reads \subseteq [at : Ticks, attempt : 0 .. MaxAttempts, checkpoint : Nat]
    /\ done \in [at : Clocks, after : Clocks]
    /\ turns \in 0 .. MaxTurns /\ attempts \in 0 .. MaxAttempts

\* The pump was off after the bound, if there is one, and not long ago.
WasOff(after, at) ==
    \E t \in (IF after = NoTime THEN 0 ELSE after) .. at :
        "off" \in was[t] /\ (at - t < Budget \/ at - t <= MaxAge)

ClosedByEvidence == done # Open => WasOff(done.after, done.at)

ReadIsPaid == attempt.at \in {"read", "reading"} =>
    \E r \in reads : r.attempt = attempts /\ r.checkpoint = attempt.checkpoint

HoursAreWithinLimit ==
    \A r \in reads : Cardinality({s \in reads : s.at \in r.at .. r.at + Hour - 1}) <= ReadLimit

(***************************************************************************)
(* A restore is closed only by something recent that the pump was: it was  *)
(* off after the source was drained, when that is known, and after the     *)
(* restore's own command was settled, if there was one; and not longer ago *)
(* than an attempt lasts or a status is fresh.  An old status that the     *)
(* poller stores late, or a cached answer, never closes it; and the hourly *)
(* ledger has paid for every read (executor_core.py:612, "Post-claim live  *)
(* provenance is not admissible").                                         *)
(***************************************************************************)
EvidenceIsCurrent == ClosedByEvidence /\ ReadIsPaid /\ HoursAreWithinLimit

=============================================================================
