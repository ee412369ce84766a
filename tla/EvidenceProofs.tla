-------------------------- MODULE EvidenceProofs --------------------------
(***************************************************************************)
(* Proofs about the services that judge what happened, for any values of   *)
(* their constants that satisfy the assumptions of EvidenceServices.       *)
(***************************************************************************)
EXTENDS EvidenceServices, FiniteSetTheorems, SequenceTheorems, WellFoundedInduction, TLAPS

-----------------------------------------------------------------------------
(***************************************************************************)
(* The evidence that closes a restore (RestoreEvidence).                   *)
(***************************************************************************)

\* What is stored and read is of the past, and true of it.
EvidenceOfThePast ==
  /\ evidence_stored.clock # evidence_NoTime
       => evidence_stored.clock <= evidence_now
         /\ evidence_stored.value \in evidence_was[evidence_stored.clock]
  /\ evidence_attempt.claimed <= evidence_now
  /\ evidence_attempt.at = "reading" =>
       evidence_attempt.started # evidence_NoTime
         /\ evidence_attempt.claimed <= evidence_attempt.started
         /\ evidence_attempt.started <= evidence_now
  /\ evidence_done # Evidence!Open
       => evidence_done.at # evidence_NoTime /\ evidence_done.at <= evidence_now
  /\ \A r \in evidence_reads : r.at <= evidence_now

EvidenceIInv == /\ Evidence!TypeOK
                /\ EvidenceOfThePast
                /\ IsFiniteSet(evidence_reads)
                /\ Evidence!ClosedByEvidence
                /\ Evidence!ReadIsPaid
                /\ Evidence!HoursAreWithinLimit

\* The module's cardinality is the one of finite sets.
LEMMA EvidenceCardinalityIs == \A S : Evidence!Cardinality(S) = Cardinality(S)
  BY DEF Evidence!Cardinality, Cardinality

\* The first state.
LEMMA EvidenceInvariantInitially == Evidence!Init => EvidenceIInv
<1> SUFFICES ASSUME Evidence!Init PROVE EvidenceIInv
  OBVIOUS
<1>1. Evidence!NoAttempt \in Evidence!Attempts
        /\ Evidence!NoRecord \in [ts : Evidence!Clocks, clock : Evidence!Clocks,
                                  value : Evidence!Values]
      /\ Evidence!Open \in [at : Evidence!Clocks, after : Evidence!Clocks]
           /\ Evidence!NoAttempt.at = "rest"
      /\ Evidence!NoAttempt.claimed = 0 /\ Evidence!NoRecord.clock = evidence_NoTime
  BY EvidenceAssumption DEF Evidence!NoAttempt, Evidence!NoRecord, Evidence!Open,
     Evidence!Attempts, Evidence!Clocks, Evidence!Ticks, Evidence!Values
<1>2. Evidence!TypeOK
  <2>1. evidence_was \in [Evidence!Ticks -> SUBSET Evidence!Values]
          /\ evidence_now \in Evidence!Ticks
    BY EvidenceAssumption DEF Evidence!Init, Evidence!Ticks, Evidence!Values
  <2> QED
    BY <1>1, <2>1, EvidenceAssumption DEF Evidence!Init, Evidence!TypeOK, Evidence!Values
<1>3. IsFiniteSet(evidence_reads)
  BY FS_EmptySet DEF Evidence!Init
<1> QED
  BY <1>1, <1>2, <1>3 DEF Evidence!Init, EvidenceIInv, EvidenceOfThePast,
     Evidence!ClosedByEvidence, Evidence!ReadIsPaid,
     Evidence!HoursAreWithinLimit

\* An attempt moves on, and closes the action or not.
LEMMA EvidenceAttemptStep ==
  ASSUME EvidenceIInv,
         UNCHANGED <<evidence_now, evidence_pump, evidence_was, evidence_stored,
                     evidence_source, evidence_turns, evidence_reads>>,
         evidence_attempts' \in 0 .. evidence_MaxAttempts,
         evidence_attempt' \in Evidence!Attempts, evidence_attempt'.claimed <= evidence_now,
         evidence_attempt'.at = "reading" =>
           evidence_attempt'.started # evidence_NoTime /\ evidence_attempt'.claimed <= evidence_attempt'.started
                                                       /\ evidence_attempt'.started <= evidence_now,
         evidence_attempt'.at \in {"read", "reading"} =>
           /\ evidence_attempt.at \in {"read", "reading"}
           /\ evidence_attempt'.checkpoint = evidence_attempt.checkpoint
           /\ evidence_attempts' = evidence_attempts,
         UNCHANGED evidence_done \/ \E after \in Evidence!Clocks : /\ evidence_done' = [at |-> evidence_now, after |-> after]
                                                                   /\ Evidence!WasOff(after,
                                                                        evidence_now)
  PROVE  EvidenceIInv'
<1> USE DEF EvidenceIInv
<1>1. evidence_done' \in [at : Evidence!Clocks, after : Evidence!Clocks]
  BY DEF Evidence!TypeOK, Evidence!Clocks
<1>2. Evidence!TypeOK'
  BY <1>1 DEF Evidence!TypeOK
<1>3. evidence_done' # Evidence!Open
        => evidence_done'.at # evidence_NoTime /\ evidence_done'.at <= evidence_now
  BY EvidenceAssumption DEF Evidence!TypeOK, EvidenceOfThePast, Evidence!Ticks
<1>4. EvidenceOfThePast'
  BY <1>3 DEF EvidenceOfThePast, Evidence!TypeOK
<1>5. Evidence!ClosedByEvidence'
  BY DEF Evidence!ClosedByEvidence, Evidence!WasOff
<1>6. Evidence!ReadIsPaid' /\ Evidence!HoursAreWithinLimit' /\ IsFiniteSet(evidence_reads')
  BY DEF Evidence!ReadIsPaid, Evidence!HoursAreWithinLimit
<1> QED
  BY <1>2, <1>4, <1>5, <1>6

\* The attempt that is put back.
LEMMA EvidenceNoAttemptIs ==
         Evidence!NoAttempt \in Evidence!Attempts /\ Evidence!NoAttempt.at = "rest"
           /\ Evidence!NoAttempt.claimed = 0
  BY EvidenceAssumption DEF Evidence!NoAttempt, Evidence!Attempts, Evidence!Clocks,
     Evidence!Ticks

\* The world goes on: the pump turns, a status is stored, the clock ticks.
LEMMA EvidenceWorldStep ==
  ASSUME EvidenceIInv, Evidence!TypeOK', evidence_now <= evidence_now',
         \A t \in 0 .. evidence_now : evidence_was[t] \subseteq evidence_was'[t],
         evidence_stored'.clock # evidence_NoTime => /\ evidence_stored'.clock <= evidence_now'
                                                     /\ evidence_stored'.value \in
                                                          evidence_was'[evidence_stored'.clock],
         UNCHANGED <<evidence_attempts, evidence_attempt, evidence_reads, evidence_done>>
  PROVE  EvidenceIInv'
<1> USE DEF EvidenceIInv
<1>1. evidence_now \in Int /\ evidence_now' \in Int
  BY DEF Evidence!TypeOK, Evidence!Ticks
<1>2. EvidenceOfThePast'
  <2>1. evidence_attempt.claimed \in Int
    BY DEF Evidence!TypeOK, Evidence!Attempts, Evidence!Ticks
  <2>2. evidence_attempt'.claimed <= evidence_now'
    BY <1>1, <2>1 DEF EvidenceOfThePast
  <2>3. evidence_attempt'.at = "reading" =>
          evidence_attempt'.started # evidence_NoTime /\ evidence_attempt'.claimed <= evidence_attempt'.started
                                                      /\ evidence_attempt'.started <= evidence_now'
    BY <1>1 DEF EvidenceOfThePast, Evidence!TypeOK, Evidence!Attempts, Evidence!Clocks,
       Evidence!Ticks
  <2>4. evidence_done' # Evidence!Open
          => evidence_done'.at # evidence_NoTime /\ evidence_done'.at <= evidence_now'
    BY <1>1 DEF EvidenceOfThePast, Evidence!TypeOK, Evidence!Clocks, Evidence!Ticks
  <2>5. \A r \in evidence_reads' : r.at <= evidence_now'
    BY <1>1 DEF EvidenceOfThePast, Evidence!TypeOK, Evidence!Ticks
  <2> QED
    BY <2>2, <2>3, <2>4, <2>5 DEF EvidenceOfThePast
<1>3. Evidence!ClosedByEvidence'
  <2> SUFFICES ASSUME evidence_done # Evidence!Open
               PROVE  Evidence!WasOff(evidence_done.after, evidence_done.at)'
    BY DEF Evidence!ClosedByEvidence
  <2>1. PICK t \in (IF evidence_done.after = evidence_NoTime THEN 0
                      ELSE evidence_done.after) .. evidence_done.at :
              "off" \in evidence_was[t]
                /\ (evidence_done.at - t < evidence_Budget
                    \/ evidence_done.at - t <= evidence_MaxAge)
    BY DEF Evidence!ClosedByEvidence, Evidence!WasOff
  <2>2. t \in 0 .. evidence_now
    BY <2>1, <1>1 DEF EvidenceOfThePast, Evidence!TypeOK, Evidence!Clocks, Evidence!Ticks
  <2> QED
    BY <2>1, <2>2 DEF Evidence!WasOff
<1>4. Evidence!ReadIsPaid' /\ Evidence!HoursAreWithinLimit' /\ IsFiniteSet(evidence_reads')
  BY DEF Evidence!ReadIsPaid, Evidence!HoursAreWithinLimit
<1> QED
  BY <1>2, <1>3, <1>4

\* A stored status that is admissible is of a time after the bound.
LEMMA EvidenceAdmissibleIs ==
  ASSUME EvidenceIInv, NEW bound \in Evidence!Clocks, Evidence!Admissible(bound),
         evidence_stored.value = "off"
  PROVE  Evidence!WasOff(bound, evidence_now)
<1>1. /\ bound # evidence_NoTime /\ evidence_stored.clock # evidence_NoTime
      /\ ~(evidence_now - evidence_stored.clock > evidence_MaxAge)
           /\ ~(evidence_stored.clock <= bound)
  BY DEF Evidence!Admissible, Evidence!Issue
<1>2. /\ bound \in Int /\ evidence_stored.clock \in Int /\ evidence_now \in Int
           /\ evidence_MaxAge \in Int
      /\ evidence_stored.clock <= evidence_now /\ "off" \in evidence_was[evidence_stored.clock]
  BY <1>1, EvidenceAssumption DEF EvidenceIInv, Evidence!TypeOK, EvidenceOfThePast,
     Evidence!Clocks, Evidence!Ticks
<1> QED
  BY <1>1, <1>2 DEF Evidence!WasOff

\* An attempt that takes one step of its own.
LEMMA EvidenceGoesIs ==
  ASSUME Evidence!TypeOK, NEW to \in {"pay", "read", "send", "sent", "poll"}, Evidence!Goes(to)
  PROVE  evidence_attempt' \in Evidence!Attempts /\ evidence_attempt'.at = to
           /\ evidence_attempt'.claimed = evidence_attempt.claimed
  BY DEF Evidence!TypeOK, Evidence!Attempts, Evidence!Goes

\* A restore is claimed, until the bound.
LEMMA EvidenceClaimStep == ASSUME EvidenceIInv, Evidence!Claim PROVE EvidenceIInv'
<1> DEFINE one == [Evidence!NoAttempt EXCEPT !.at = "claimed"]
           two == [one EXCEPT !.claimed = evidence_now]
<1>1. one \in Evidence!Attempts /\ one.at = "claimed"
  BY EvidenceNoAttemptIs DEF Evidence!Attempts
<1>2. evidence_now \in Evidence!Ticks /\ evidence_now \in Int
        /\ evidence_attempts \in 0 .. evidence_MaxAttempts /\ evidence_MaxAttempts \in Nat
  BY EvidenceAssumption DEF EvidenceIInv, Evidence!TypeOK, Evidence!Ticks
<1>3. two \in Evidence!Attempts /\ two.at = "claimed" /\ two.claimed = evidence_now
  <2> HIDE DEF one
  <2> QED
    BY <1>1, <1>2 DEF Evidence!Attempts
<1>4. evidence_attempt' = two
  BY DEF Evidence!Claim
<1>5. evidence_attempts' \in 0 .. evidence_MaxAttempts
  BY <1>2 DEF Evidence!Claim
<1> HIDE DEF two
<1> QED
  BY <1>2, <1>3, <1>4, <1>5, EvidenceAttemptStep DEF Evidence!Claim

\* The precondition closes the action, passes or defers it.
LEMMA EvidencePreconditionStep == ASSUME EvidenceIInv, Evidence!Precondition PROVE EvidenceIInv'
<1>1. /\ Evidence!TypeOK /\ evidence_attempts' = evidence_attempts
           /\ evidence_attempts \in 0 .. evidence_MaxAttempts
      /\ UNCHANGED <<evidence_now, evidence_pump, evidence_was, evidence_stored,
                     evidence_source, evidence_turns, evidence_reads>>
      /\ evidence_attempt.claimed <= evidence_now /\ 0 <= evidence_now
           /\ evidence_source \in Evidence!Clocks
  BY EvidenceAssumption DEF EvidenceIInv, Evidence!TypeOK, EvidenceOfThePast,
     Evidence!Precondition, Evidence!world, Evidence!Ticks, Evidence!Clocks
<1>2. CASE Evidence!Requeue /\ UNCHANGED evidence_done
  BY <1>1, <1>2, EvidenceNoAttemptIs, EvidenceAttemptStep DEF Evidence!Requeue
<1>3. CASE Evidence!Admissible(evidence_source) /\ evidence_stored.value = "off"
             /\ Evidence!Closes(evidence_source)
  <2>1. Evidence!WasOff(evidence_source, evidence_now)
    BY <1>1, <1>3, EvidenceAdmissibleIs
  <2> QED
    BY <1>1, <1>3, <2>1, EvidenceNoAttemptIs, EvidenceAttemptStep DEF Evidence!Closes
<1>4. CASE Evidence!Goes("pay") /\ UNCHANGED evidence_done
  BY <1>1, <1>4, EvidenceGoesIs, EvidenceAttemptStep
<1> QED
  BY <1>2, <1>3, <1>4 DEF Evidence!Precondition

\* The read begins, or the attempt is out of time.
LEMMA EvidenceReadBeginsStep == ASSUME EvidenceIInv, Evidence!ReadBegins PROVE EvidenceIInv'
<1>1. /\ Evidence!TypeOK /\ evidence_attempts' = evidence_attempts
           /\ evidence_attempts \in 0 .. evidence_MaxAttempts
      /\ UNCHANGED <<evidence_now, evidence_pump, evidence_was, evidence_stored,
                     evidence_source, evidence_turns, evidence_reads, evidence_done>>
      /\ evidence_attempt.claimed <= evidence_now /\ 0 <= evidence_now
           /\ evidence_now \in Evidence!Ticks /\ evidence_now # evidence_NoTime
      /\ evidence_attempt.at = "read" /\ evidence_attempt \in Evidence!Attempts
           /\ evidence_now \in Int
  BY EvidenceAssumption DEF EvidenceIInv, Evidence!TypeOK, EvidenceOfThePast,
     Evidence!ReadBegins, Evidence!world, Evidence!Ticks
<1>2. CASE evidence_attempt' = Evidence!NoAttempt
  BY <1>1, <1>2, EvidenceNoAttemptIs, EvidenceAttemptStep
<1>3. CASE evidence_attempt' = [evidence_attempt EXCEPT !.at = "reading",
                                                        !.started = evidence_now]
  <2> DEFINE one == [evidence_attempt EXCEPT !.at = "reading"]
             two == [one EXCEPT !.started = evidence_now]
  <2>1. one \in Evidence!Attempts /\ one.at = "reading"
          /\ one.claimed = evidence_attempt.claimed
        /\ one.checkpoint = evidence_attempt.checkpoint
    BY <1>1 DEF Evidence!Attempts
  <2>2. two \in Evidence!Attempts /\ two.at = "reading"
          /\ two.claimed = evidence_attempt.claimed
        /\ two.checkpoint = evidence_attempt.checkpoint /\ two.started = evidence_now
    <3> HIDE DEF one
    <3> QED
      BY <1>1, <2>1 DEF Evidence!Attempts, Evidence!Clocks
  <2>3. evidence_attempt' = two
    BY <1>3
  <2> HIDE DEF two
  <2>4. /\ evidence_attempt' \in Evidence!Attempts /\ evidence_attempt'.claimed <= evidence_now
        /\ evidence_attempt'.started # evidence_NoTime
             /\ evidence_attempt'.claimed <= evidence_attempt'.started
        /\ evidence_attempt'.started <= evidence_now
             /\ evidence_attempt'.checkpoint = evidence_attempt.checkpoint
    BY <1>1, <2>2, <2>3
  <2> QED
    BY <1>1, <2>4, EvidenceAttemptStep
<1> QED
  BY <1>2, <1>3 DEF Evidence!ReadBegins

\* A read that is admissible says what the pump was while the attempt lasted,
\* or at a clock that is after the bound.
LEMMA EvidenceReadIsCurrent ==
  ASSUME EvidenceIInv, evidence_attempt.at = "reading", Evidence!Live,
         NEW clock \in {evidence_NoTime} \cup (0 .. evidence_now),
         "off" \in Evidence!Answers(TRUE, clock),
         ~(evidence_attempt.settled # evidence_NoTime
           /\ evidence_attempt.started < evidence_attempt.settled),
         ~Evidence!Issue(evidence_now, clock, Evidence!After, FALSE, evidence_LiveAge)
  PROVE  Evidence!WasOff(Evidence!After, evidence_now)
<1>1. /\ evidence_now \in Int /\ evidence_attempt.claimed \in Int
           /\ evidence_attempt.started \in Int
      /\ evidence_attempt.started # evidence_NoTime /\ 0 <= evidence_attempt.started
      /\ evidence_attempt.claimed <= evidence_attempt.started
           /\ evidence_attempt.started <= evidence_now
      /\ evidence_source \in {0, evidence_NoTime}
           /\ evidence_attempt.settled \in Evidence!Clocks
      /\ evidence_Budget \in Int /\ evidence_MaxAge \in Int /\ evidence_LiveAge \in Int
           /\ evidence_LiveAge <= evidence_MaxAge
      /\ \A t \in Evidence!Clocks : t = evidence_NoTime \/ (t \in Int /\ 0 <= t)
      /\ evidence_now - evidence_attempt.claimed < evidence_Budget
  BY EvidenceAssumption DEF EvidenceIInv, Evidence!TypeOK, EvidenceOfThePast,
     Evidence!Attempts, Evidence!Clocks, Evidence!Ticks, Evidence!Live
<1>2. Evidence!After \in Evidence!Clocks
        /\ (Evidence!After # evidence_NoTime => Evidence!After <= evidence_attempt.started)
  BY <1>1, EvidenceAssumption DEF Evidence!After, Evidence!Clocks, Evidence!Ticks
<1>3. CASE clock = evidence_NoTime
  <2>1. PICK t \in evidence_attempt.started .. evidence_now : "off" \in evidence_was[t]
    BY <1>3 DEF Evidence!Answers
  <2>2. t \in (IF Evidence!After = evidence_NoTime THEN 0 ELSE Evidence!After) .. evidence_now
          /\ evidence_now - t < evidence_Budget
    BY <1>1, <1>2, <2>1
  <2> QED
    BY <2>1, <2>2 DEF Evidence!WasOff
<1>4. CASE clock # evidence_NoTime
  <2>1. clock \in Int /\ 0 <= clock /\ clock <= evidence_now /\ "off" \in evidence_was[clock]
    BY <1>1, <1>4 DEF Evidence!Answers
  <2>2. evidence_now - clock <= evidence_LiveAge
          /\ (Evidence!After # evidence_NoTime => Evidence!After <= clock)
    BY <1>1, <1>2, <1>4, <2>1 DEF Evidence!Issue
  <2>3. clock \in (IF Evidence!After = evidence_NoTime THEN 0
                     ELSE Evidence!After) .. evidence_now
                       /\ evidence_now - clock <= evidence_MaxAge
    BY <1>1, <1>2, <2>1, <2>2
  <2> QED
    BY <2>1, <2>3 DEF Evidence!WasOff
<1> QED
  BY <1>3, <1>4

\* An attempt that passes to another checkpoint.
LEMMA EvidencePassesIs ==
  ASSUME Evidence!TypeOK, NEW to \in {"poll"}, NEW passed,
         passed = [evidence_attempt EXCEPT !.at = to,
                                           !.checkpoint = evidence_attempt.checkpoint + 1]
  PROVE  passed \in Evidence!Attempts /\ passed.at = to
           /\ passed.claimed = evidence_attempt.claimed
<1> DEFINE one == [evidence_attempt EXCEPT !.at = to]
           two == [one EXCEPT !.checkpoint = evidence_attempt.checkpoint + 1]
<1>1. one \in Evidence!Attempts /\ one.at = to /\ one.claimed = evidence_attempt.claimed
      /\ evidence_attempt.checkpoint + 1 \in Nat
  BY DEF Evidence!TypeOK, Evidence!Attempts
<1>2. two \in Evidence!Attempts /\ two.at = to /\ two.claimed = evidence_attempt.claimed
  <2> HIDE DEF one
  <2> QED
    BY <1>1 DEF Evidence!Attempts
<1>3. passed = two
  OBVIOUS
<1> HIDE DEF two
<1> QED
  BY <1>2, <1>3

\* The read ends: it closes the action, or the attempt goes on or back.
LEMMA EvidenceReadEndsStep == ASSUME EvidenceIInv, Evidence!ReadEnds PROVE EvidenceIInv'
<1>1. /\ Evidence!TypeOK /\ evidence_attempts' = evidence_attempts
           /\ evidence_attempts \in 0 .. evidence_MaxAttempts
      /\ UNCHANGED <<evidence_now, evidence_pump, evidence_was, evidence_stored,
                     evidence_source, evidence_turns, evidence_reads>>
      /\ evidence_attempt.claimed <= evidence_now /\ 0 <= evidence_now
           /\ evidence_attempt.at = "reading"
  BY EvidenceAssumption DEF EvidenceIInv, Evidence!TypeOK, EvidenceOfThePast,
     Evidence!ReadEnds, Evidence!world, Evidence!Ticks
<1>2. Evidence!After \in Evidence!Clocks
  BY <1>1, EvidenceAssumption DEF Evidence!TypeOK, Evidence!Attempts, Evidence!After,
     Evidence!Clocks, Evidence!Ticks
<1> DEFINE Ends(live, clock, value) ==
         IF \/ ~live \/ ~Evidence!Live
            \/ evidence_attempt.started < evidence_attempt.claimed
            \/ evidence_attempt.settled # evidence_NoTime
                 /\ evidence_attempt.started < evidence_attempt.settled
            \/ Evidence!Issue(evidence_now, clock, Evidence!After, FALSE, evidence_LiveAge)
         THEN Evidence!Requeue /\ UNCHANGED evidence_done
         ELSE IF value = "off"
         THEN Evidence!Closes(Evidence!After)
         ELSE /\ UNCHANGED evidence_done
              /\ IF evidence_attempt.settled = evidence_NoTime THEN Evidence!Goes("send")
                 ELSE IF evidence_attempt.checkpoint + 1 \in evidence_Checkpoints
                 THEN evidence_attempt' =
                   [evidence_attempt EXCEPT !.at = "poll", !.checkpoint = @ + 1]
                 ELSE Evidence!Requeue
<1> HIDE DEF Ends
<1>8. PICK live \in BOOLEAN, clock \in {evidence_NoTime} \cup (0 .. evidence_now) :
        \E value \in Evidence!Answers(live, clock) : Ends(live, clock, value)
  BY DEF Evidence!ReadEnds, Ends
<1>3. PICK value \in Evidence!Answers(live, clock) : Ends(live, clock, value)
  BY <1>8
<1>4. CASE Evidence!Requeue /\ UNCHANGED evidence_done
  BY <1>1, <1>4, EvidenceNoAttemptIs, EvidenceAttemptStep DEF Evidence!Requeue
<1>5. CASE /\ live /\ Evidence!Live
           /\ ~(evidence_attempt.settled # evidence_NoTime
                /\ evidence_attempt.started < evidence_attempt.settled)
           /\ ~Evidence!Issue(evidence_now, clock, Evidence!After, FALSE, evidence_LiveAge)
           /\ value = "off" /\ Evidence!Closes(Evidence!After)
  <2>1. "off" \in Evidence!Answers(TRUE, clock)
    BY <1>5
  <2>2. Evidence!WasOff(Evidence!After, evidence_now)
    BY <1>1, <1>5, <2>1, EvidenceReadIsCurrent
  <2> QED
    BY <1>1, <1>2, <1>5, <2>2, EvidenceNoAttemptIs, EvidenceAttemptStep DEF Evidence!Closes
<1>6. CASE Evidence!Goes("send") /\ UNCHANGED evidence_done
  BY <1>1, <1>6, EvidenceGoesIs, EvidenceAttemptStep
<1>7. CASE evidence_attempt' = [evidence_attempt EXCEPT !.at = "poll", !.checkpoint = @ + 1]
             /\ UNCHANGED evidence_done
  <2>1. evidence_attempt' \in Evidence!Attempts /\ evidence_attempt'.at = "poll"
          /\ evidence_attempt'.claimed = evidence_attempt.claimed
    BY <1>1, <1>7, EvidencePassesIs
  <2> QED
    BY <1>1, <1>7, <2>1, EvidenceAttemptStep
<1> QED
  BY <1>3, <1>4, <1>5, <1>6, <1>7 DEF Ends

\* The command is sent.
LEMMA EvidenceSendStep == ASSUME EvidenceIInv, Evidence!Send PROVE EvidenceIInv'
<1>1. /\ Evidence!TypeOK /\ evidence_attempts' = evidence_attempts
           /\ evidence_attempts \in 0 .. evidence_MaxAttempts
      /\ UNCHANGED <<evidence_now, evidence_pump, evidence_was, evidence_stored,
                     evidence_source, evidence_turns, evidence_reads, evidence_done>>
      /\ evidence_attempt.claimed <= evidence_now /\ Evidence!Goes("sent")
  BY DEF EvidenceIInv, Evidence!TypeOK, EvidenceOfThePast, Evidence!Send, Evidence!world
<1> QED
  BY <1>1, EvidenceGoesIs, EvidenceAttemptStep

\* It settles, or the attempt does not last.
LEMMA EvidenceSettleStep == ASSUME EvidenceIInv, Evidence!Settle PROVE EvidenceIInv'
<1>1. /\ Evidence!TypeOK /\ evidence_attempts' = evidence_attempts
           /\ evidence_attempts \in 0 .. evidence_MaxAttempts
      /\ UNCHANGED <<evidence_now, evidence_pump, evidence_was, evidence_stored,
                     evidence_source, evidence_turns, evidence_reads, evidence_done>>
      /\ evidence_attempt.claimed <= evidence_now /\ 0 <= evidence_now
           /\ evidence_now \in Evidence!Clocks /\ evidence_attempt \in Evidence!Attempts
  BY EvidenceAssumption DEF EvidenceIInv, Evidence!TypeOK, EvidenceOfThePast,
     Evidence!Settle, Evidence!world, Evidence!Ticks, Evidence!Clocks
<1>2. CASE Evidence!Requeue
  BY <1>1, <1>2, EvidenceNoAttemptIs, EvidenceAttemptStep DEF Evidence!Requeue
<1>3. CASE evidence_attempt' = [evidence_attempt EXCEPT !.at = "poll",
                                                        !.settled = evidence_now,
                                                        !.checkpoint = 1]
  <2> DEFINE one == [evidence_attempt EXCEPT !.at = "poll"]
             two == [one EXCEPT !.settled = evidence_now]
             three == [two EXCEPT !.checkpoint = 1]
  <2>1. one \in Evidence!Attempts /\ one.at = "poll" /\ one.claimed = evidence_attempt.claimed
    BY <1>1 DEF Evidence!Attempts
  <2>2. two \in Evidence!Attempts /\ two.at = "poll" /\ two.claimed = evidence_attempt.claimed
    <3> HIDE DEF one
    <3> QED
      BY <1>1, <2>1 DEF Evidence!Attempts
  <2>3. three \in Evidence!Attempts /\ three.at = "poll"
          /\ three.claimed = evidence_attempt.claimed
    <3> HIDE DEF two
    <3> QED
      BY <2>2 DEF Evidence!Attempts
  <2>4. evidence_attempt' = three
    BY <1>3
  <2> HIDE DEF three
  <2> QED
    BY <1>1, <2>3, <2>4, EvidenceAttemptStep
<1> QED
  BY <1>2, <1>3 DEF Evidence!Settle

\* A checkpoint looks at the stored status first.
LEMMA EvidencePollStep == ASSUME EvidenceIInv, Evidence!Poll PROVE EvidenceIInv'
<1>1. /\ Evidence!TypeOK /\ evidence_attempts' = evidence_attempts
           /\ evidence_attempts \in 0 .. evidence_MaxAttempts
      /\ UNCHANGED <<evidence_now, evidence_pump, evidence_was, evidence_stored,
                     evidence_source, evidence_turns, evidence_reads>>
      /\ evidence_attempt.claimed <= evidence_now /\ 0 <= evidence_now
           /\ evidence_attempt.settled \in Evidence!Clocks
           /\ evidence_attempt \in Evidence!Attempts
      /\ evidence_attempt.at = "poll"
  BY EvidenceAssumption DEF EvidenceIInv, Evidence!TypeOK, EvidenceOfThePast,
     Evidence!Poll, Evidence!world, Evidence!Ticks, Evidence!Attempts
<1>2. CASE Evidence!Requeue /\ UNCHANGED evidence_done
  BY <1>1, <1>2, EvidenceNoAttemptIs, EvidenceAttemptStep DEF Evidence!Requeue
<1>3. CASE Evidence!Admissible(evidence_attempt.settled) /\ evidence_stored.value = "off"
             /\ Evidence!Closes(evidence_attempt.settled)
  <2>1. Evidence!WasOff(evidence_attempt.settled, evidence_now)
    BY <1>1, <1>3, EvidenceAdmissibleIs
  <2> QED
    BY <1>1, <1>3, <2>1, EvidenceNoAttemptIs, EvidenceAttemptStep DEF Evidence!Closes
<1>4. CASE Evidence!Goes("pay") /\ UNCHANGED evidence_done
  BY <1>1, <1>4, EvidenceGoesIs, EvidenceAttemptStep
<1>5. CASE evidence_attempt' = [evidence_attempt EXCEPT !.checkpoint = @ + 1]
             /\ UNCHANGED evidence_done
  <2>1. evidence_attempt' \in Evidence!Attempts /\ evidence_attempt'.at = "poll"
          /\ evidence_attempt'.claimed = evidence_attempt.claimed
    BY <1>1, <1>5 DEF Evidence!Attempts
  <2> QED
    BY <1>1, <1>5, <2>1, EvidenceAttemptStep
<1> QED
  BY <1>2, <1>3, <1>4, <1>5 DEF Evidence!Poll

\* The attempt's time is over.
LEMMA EvidenceDeadlineStep == ASSUME EvidenceIInv, Evidence!Deadline PROVE EvidenceIInv'
<1>1. /\ Evidence!TypeOK /\ evidence_attempts' = evidence_attempts
           /\ evidence_attempts \in 0 .. evidence_MaxAttempts
      /\ UNCHANGED <<evidence_now, evidence_pump, evidence_was, evidence_stored,
                     evidence_source, evidence_turns, evidence_reads, evidence_done>>
      /\ evidence_attempt' = Evidence!NoAttempt /\ 0 <= evidence_now
  BY EvidenceAssumption DEF EvidenceIInv, Evidence!TypeOK, EvidenceOfThePast,
     Evidence!Deadline, Evidence!Requeue, Evidence!world, Evidence!Ticks
<1> QED
  BY <1>1, EvidenceNoAttemptIs, EvidenceAttemptStep

\* One read more keeps every hour within the limit, if the last one was below.
LEMMA EvidenceOneReadMore ==
  ASSUME IsFiniteSet(evidence_reads), Evidence!HoursAreWithinLimit,
         \A r \in evidence_reads : r.at \in Int /\ r.at <= evidence_now,
         evidence_now \in Int, NEW read, read.at = evidence_now,
         evidence_reads' = evidence_reads \cup {read},
         Cardinality({r \in evidence_reads :
                        evidence_now - r.at < evidence_Hour}) < evidence_ReadLimit
  PROVE  Evidence!HoursAreWithinLimit'
<1> DEFINE last == {r \in evidence_reads : evidence_now - r.at < evidence_Hour}
           hour(all, r) == {s \in all : s.at \in r.at .. r.at + evidence_Hour - 1}
<1>1. IsFiniteSet(last) /\ last \in SUBSET evidence_reads
  BY FS_Subset
<1>2. /\ IsFiniteSet(last \cup {read})
      /\ Cardinality(last \cup {read}) <= evidence_ReadLimit
  <2>1. Cardinality(last) \in Nat /\ Cardinality(last) < evidence_ReadLimit
          /\ evidence_ReadLimit \in Nat
    BY <1>1, FS_CardinalityType, EvidenceAssumption
  <2> HIDE DEF last
  <2>2. /\ IsFiniteSet(last \cup {read})
        /\ Cardinality(last \cup {read}) \in {Cardinality(last), Cardinality(last) + 1}
    BY <1>1, FS_AddElement
  <2> QED
    BY <2>1, <2>2
<1>3. ASSUME NEW r \in evidence_reads'
      PROVE  Cardinality(hour(evidence_reads', r)) <= evidence_ReadLimit
  <2>1. r.at \in Int /\ evidence_Hour \in Int /\ r.at <= evidence_now
    BY EvidenceAssumption
  <2>2. CASE evidence_now \in r.at .. r.at + evidence_Hour - 1
    <3>1. hour(evidence_reads', r) \in SUBSET (last \cup {read})
      <4> SUFFICES ASSUME NEW s \in evidence_reads, s.at \in r.at .. r.at + evidence_Hour - 1
                   PROVE  evidence_now - s.at < evidence_Hour
        OBVIOUS
      <4> QED
        BY <2>1, <2>2
    <3>2. /\ IsFiniteSet(hour(evidence_reads', r))
          /\ Cardinality(hour(evidence_reads', r)) <= Cardinality(last \cup {read})
      BY <1>2, <3>1, FS_Subset
    <3>3. Cardinality(hour(evidence_reads', r)) \in Nat /\ Cardinality(last \cup {read}) \in Nat
      BY <1>2, <3>2, FS_CardinalityType
    <3> HIDE DEF hour, last
    <3> QED
      BY <1>2, <3>2, <3>3, EvidenceAssumption
  <2>3. CASE evidence_now \notin r.at .. r.at + evidence_Hour - 1
    <3>1. hour(evidence_reads', r) = hour(evidence_reads, r)
      BY <2>3
    <3>2. CASE r \in evidence_reads
      BY <3>1, <3>2, EvidenceCardinalityIs DEF Evidence!HoursAreWithinLimit
    <3>3. CASE r = read
      <4>1. evidence_Hour = 0
        BY <2>1, <2>3, <3>3, EvidenceAssumption
      <4>2. hour(evidence_reads', r) = {}
        BY <2>1, <4>1
      <4>3. Cardinality(hour(evidence_reads', r)) = 0
        BY <4>2, FS_EmptySet
      <4> HIDE DEF hour
      <4> QED
        BY <4>3, EvidenceAssumption
    <3> QED
      BY <3>2, <3>3
  <2> QED
    BY <2>2, <2>3
<1> QED
  BY <1>3, EvidenceCardinalityIs DEF Evidence!HoursAreWithinLimit

\* A read is paid for, or the attempt is put back.
LEMMA EvidenceReserveStep == ASSUME EvidenceIInv, Evidence!Reserve PROVE EvidenceIInv'
<1> DEFINE c == evidence_attempt.checkpoint
           read == [at |-> evidence_now, attempt |-> evidence_attempts, checkpoint |-> c]
<1>1. /\ Evidence!TypeOK /\ evidence_attempts' = evidence_attempts
           /\ evidence_attempts \in 0 .. evidence_MaxAttempts
      /\ UNCHANGED <<evidence_now, evidence_pump, evidence_was, evidence_stored,
                     evidence_source, evidence_turns, evidence_done>>
      /\ evidence_attempt.claimed <= evidence_now /\ 0 <= evidence_now
           /\ evidence_attempt \in Evidence!Attempts /\ c \in Nat
      /\ evidence_now \in Evidence!Ticks /\ evidence_now \in Int
  BY EvidenceAssumption DEF EvidenceIInv, Evidence!TypeOK, EvidenceOfThePast,
     Evidence!Reserve, Evidence!world, Evidence!Ticks, Evidence!Attempts
<1>2. CASE Evidence!Requeue /\ UNCHANGED evidence_reads
  BY <1>1, <1>2, EvidenceNoAttemptIs, EvidenceAttemptStep DEF Evidence!Requeue
<1>3. CASE /\ Cardinality({r \in evidence_reads :
                             evidence_now - r.at < evidence_Hour}) < evidence_ReadLimit
           /\ evidence_reads' = evidence_reads \cup {read}
           /\ evidence_attempt' = [evidence_attempt EXCEPT !.at = "read", !.used = @ \cup {c}]
  <2> DEFINE one == [evidence_attempt EXCEPT !.at = "read"]
             two == [one EXCEPT !.used = evidence_attempt.used \cup {c}]
  <2>1. one \in Evidence!Attempts /\ one.at = "read" /\ one.claimed = evidence_attempt.claimed
        /\ one.checkpoint = c /\ evidence_attempt.used \cup {c} \in SUBSET Nat
    BY <1>1 DEF Evidence!Attempts
  <2>2. two \in Evidence!Attempts /\ two.at = "read" /\ two.claimed = evidence_attempt.claimed
        /\ two.checkpoint = c
    <3> HIDE DEF one
    <3> QED
      BY <2>1 DEF Evidence!Attempts
  <2>3. evidence_attempt' = two
    BY <1>3
  <2> HIDE DEF two
  <2>4. Evidence!TypeOK'
    BY <1>1, <1>3, <2>2, <2>3 DEF Evidence!TypeOK
  <2>5. EvidenceOfThePast'
    BY <1>1, <1>3, <2>2, <2>3 DEF EvidenceIInv, EvidenceOfThePast
  <2>6. IsFiniteSet(evidence_reads')
    BY <1>3, FS_AddElement DEF EvidenceIInv
  <2>7. Evidence!ClosedByEvidence'
    BY <1>1 DEF EvidenceIInv, Evidence!ClosedByEvidence, Evidence!WasOff
  <2>8. Evidence!ReadIsPaid'
    <3>1. read \in evidence_reads' /\ read.attempt = evidence_attempts /\ read.checkpoint = c
      BY <1>3
    <3> HIDE DEF read
    <3> QED
      BY <1>1, <2>2, <2>3, <3>1 DEF Evidence!ReadIsPaid
  <2>9. Evidence!HoursAreWithinLimit'
    <3>1. \A r \in evidence_reads : r.at \in Int /\ r.at <= evidence_now
      BY DEF EvidenceIInv, Evidence!TypeOK, EvidenceOfThePast, Evidence!Ticks
    <3>2. read.at = evidence_now
      OBVIOUS
    <3> HIDE DEF read
    <3> QED
      BY <1>1, <1>3, <3>1, <3>2, EvidenceOneReadMore DEF EvidenceIInv
  <2> QED
    BY <2>4, <2>5, <2>6, <2>7, <2>8, <2>9 DEF EvidenceIInv
<1> QED
  BY <1>2, <1>3, EvidenceCardinalityIs DEF Evidence!Reserve

\* The poller stores a status, which is true of its clock.
LEMMA EvidenceStoreStep == ASSUME EvidenceIInv, Evidence!Store PROVE EvidenceIInv'
<1>1. /\ evidence_now \in Evidence!Ticks /\ evidence_now \in Int
           /\ evidence_was \in [Evidence!Ticks -> SUBSET Evidence!Values]
           /\ 0 .. evidence_now \subseteq Evidence!Ticks
      /\ UNCHANGED <<evidence_now, evidence_pump, evidence_was, evidence_source,
                     evidence_turns, evidence_attempts, evidence_attempt, evidence_reads,
                     evidence_done>>
  BY EvidenceAssumption DEF EvidenceIInv, Evidence!TypeOK, Evidence!Store, Evidence!Ticks
<1>2. PICK clock \in {evidence_NoTime} \cup (0 .. evidence_now) :
        \E value \in UNION {evidence_was[t] : t \in IF clock = evidence_NoTime
                              THEN 0 .. evidence_now ELSE {clock}} :
          evidence_stored' = [ts |-> evidence_now, clock |-> clock, value |-> value]
  BY DEF Evidence!Store
<1>3. PICK value \in UNION {evidence_was[t] : t \in IF clock = evidence_NoTime
                              THEN 0 .. evidence_now ELSE {clock}} :
        evidence_stored' = [ts |-> evidence_now, clock |-> clock, value |-> value]
  BY <1>2
<1>4. value \in Evidence!Values
  BY <1>1, <1>3
<1>5. evidence_stored'.clock # evidence_NoTime
        => evidence_stored'.clock <= evidence_now
          /\ evidence_stored'.value \in evidence_was[evidence_stored'.clock]
  BY <1>1, <1>3
<1>6. evidence_stored' \in [ts : Evidence!Clocks, clock : Evidence!Clocks,
                            value : Evidence!Values]
  BY <1>1, <1>3, <1>4 DEF Evidence!Clocks
<1>7. Evidence!TypeOK'
  BY <1>1, <1>6 DEF EvidenceIInv, Evidence!TypeOK
<1> QED
  BY <1>1, <1>5, <1>7, EvidenceWorldStep

\* The pump is switched.
LEMMA EvidenceTurnStep == ASSUME EvidenceIInv, Evidence!Turn PROVE EvidenceIInv'
<1>1. /\ evidence_now \in Evidence!Ticks /\ evidence_now \in Int
           /\ evidence_was \in [Evidence!Ticks -> SUBSET Evidence!Values]
           /\ 0 .. evidence_now \subseteq Evidence!Ticks
      /\ evidence_turns \in 0 .. evidence_MaxTurns /\ evidence_MaxTurns \in Nat
  BY EvidenceAssumption DEF EvidenceIInv, Evidence!TypeOK, Evidence!Ticks
<1>2. /\ evidence_turns < evidence_MaxTurns /\ evidence_turns' = evidence_turns + 1
      /\ evidence_pump' \in Evidence!Values
      /\ evidence_was' = [evidence_was EXCEPT ![evidence_now] = @ \cup {evidence_pump'}]
      /\ UNCHANGED <<evidence_now, evidence_stored, evidence_source, evidence_attempts,
                     evidence_attempt, evidence_reads, evidence_done>>
  BY DEF Evidence!Turn, Evidence!Values
<1>3. evidence_was' \in [Evidence!Ticks -> SUBSET Evidence!Values]
        /\ \A t \in Evidence!Ticks : evidence_was[t] \subseteq evidence_was'[t]
  BY <1>1, <1>2
<1>4. Evidence!TypeOK'
  BY <1>1, <1>2, <1>3 DEF EvidenceIInv, Evidence!TypeOK
<1>5. evidence_stored'.clock # evidence_NoTime
        => evidence_stored'.clock <= evidence_now
          /\ evidence_stored'.value \in evidence_was'[evidence_stored'.clock]
  <2>1. evidence_stored.clock \in Evidence!Clocks
    BY DEF EvidenceIInv, Evidence!TypeOK
  <2>2. evidence_stored.clock # evidence_NoTime =>
          evidence_stored.clock \in Evidence!Ticks /\ evidence_stored.clock <= evidence_now
            /\ evidence_stored.value \in evidence_was[evidence_stored.clock]
    BY <2>1 DEF EvidenceIInv, EvidenceOfThePast, Evidence!Clocks
  <2> QED
    BY <1>2, <1>3, <2>2
<1> QED
  BY <1>1, <1>2, <1>3, <1>4, <1>5, EvidenceWorldStep

\* Time passes.
LEMMA EvidenceTickStep == ASSUME EvidenceIInv, Evidence!Tick PROVE EvidenceIInv'
<1>1. /\ evidence_now \in Evidence!Ticks /\ evidence_now \in Int
           /\ evidence_was \in [Evidence!Ticks -> SUBSET Evidence!Values]
      /\ 0 .. evidence_now \subseteq Evidence!Ticks /\ evidence_pump \in Evidence!Values
           /\ evidence_Horizon \in Nat
  BY EvidenceAssumption DEF EvidenceIInv, Evidence!TypeOK, Evidence!Ticks
<1>2. /\ evidence_now < evidence_Horizon /\ evidence_now' = evidence_now + 1
      /\ evidence_was' = [evidence_was EXCEPT ![evidence_now + 1] = {evidence_pump}]
      /\ UNCHANGED <<evidence_pump, evidence_stored, evidence_source, evidence_turns,
                     evidence_attempts, evidence_attempt, evidence_reads, evidence_done>>
  BY DEF Evidence!Tick
<1>3. evidence_now' \in Evidence!Ticks /\ evidence_now <= evidence_now'
  BY <1>1, <1>2 DEF Evidence!Ticks
<1>4. /\ evidence_was' \in [Evidence!Ticks -> SUBSET Evidence!Values]
      /\ \A t \in 0 .. evidence_now : evidence_was[t] \subseteq evidence_was'[t]
  <2>1. {evidence_pump} \in SUBSET Evidence!Values
          /\ \A t \in 0 .. evidence_now : t \in Evidence!Ticks /\ t # evidence_now + 1
    BY <1>1
  <2>2. evidence_was' \in [Evidence!Ticks -> SUBSET Evidence!Values]
    BY <1>1, <1>2, <2>1
  <2>3. \A t \in 0 .. evidence_now : evidence_was'[t] = evidence_was[t]
    BY <1>1, <1>2, <2>1
  <2> QED
    BY <2>2, <2>3
<1>5. Evidence!TypeOK'
  BY <1>2, <1>3, <1>4 DEF EvidenceIInv, Evidence!TypeOK
<1>6. evidence_stored'.clock # evidence_NoTime
        => evidence_stored'.clock <= evidence_now'
          /\ evidence_stored'.value \in evidence_was'[evidence_stored'.clock]
  <2>1. evidence_stored.clock \in Evidence!Clocks
    BY DEF EvidenceIInv, Evidence!TypeOK
  <2>2. evidence_stored.clock # evidence_NoTime
          => evidence_stored.clock \in 0 .. evidence_now
            /\ evidence_stored.value \in evidence_was[evidence_stored.clock]
    BY <1>1, <2>1 DEF EvidenceIInv, EvidenceOfThePast, Evidence!Clocks, Evidence!Ticks
  <2> QED
    BY <1>1, <1>2, <1>3, <1>4, <2>2
<1> QED
  BY <1>2, <1>3, <1>4, <1>5, <1>6, EvidenceWorldStep

\* Every step, and no step at all.
LEMMA EvidenceInvariantKept == EvidenceIInv /\ [Evidence!Next]_evidenceVars => EvidenceIInv'
<1> SUFFICES ASSUME EvidenceIInv, [Evidence!Next]_evidenceVars
             PROVE  EvidenceIInv'
  OBVIOUS
<1>1. CASE UNCHANGED evidenceVars
  BY <1>1 DEF evidenceVars, EvidenceIInv, Evidence!TypeOK, EvidenceOfThePast,
     Evidence!ClosedByEvidence, Evidence!WasOff, Evidence!ReadIsPaid,
     Evidence!HoursAreWithinLimit
<1> QED
  BY <1>1, EvidenceClaimStep, EvidencePreconditionStep, EvidenceReserveStep,
     EvidenceReadBeginsStep, EvidenceReadEndsStep, EvidenceSendStep,
     EvidenceSettleStep, EvidencePollStep, EvidenceDeadlineStep, EvidenceStoreStep,
     EvidenceTurnStep, EvidenceTickStep DEF Evidence!Next


\* The invariant of this service, whenever it is the one that acts.
LEMMA EvidenceInvariant == EvidenceSpec => [](verdict = "evidence" => EvidenceIInv)
<1>1. EvidenceInit => (verdict = "evidence" => EvidenceIInv)
  BY EvidenceInvariantInitially DEF EvidenceInit
<1>2. (verdict = "evidence" => EvidenceIInv) /\ [EvidenceNext]_verdictVars
        => (verdict = "evidence" => EvidenceIInv)'
  BY EvidenceInvariantKept DEF EvidenceNext, verdictVars
<1> QED
  BY <1>1, <1>2, PTL DEF EvidenceSpec

-----------------------------------------------------------------------------
(***************************************************************************)
(* The showers of a device and their restores (ShowerEvents).              *)
(***************************************************************************)

\* The older build knows no links, and nothing of this build runs with it.
ShowersOldBuildIsAlone ==
  showers_schema = "028" =>
    /\ showers_attempt = Showers!NoAttempt /\ showers_hand = Showers!NoHand
    /\ \A c \in Showers!Checkers : showers_tx[c] = Showers!NoTx
    /\ \A d \in showers_Devices : showers_restore[d] = showers_None /\ showers_closings[d] = 0
    /\ \A d \in showers_Devices : Showers!Open(d) => showers_shower[d] = "active"

\* What a transaction of a checker has locked stays open until it commits.
ShowersLocksHold ==
  /\ \A c \in Showers!Checkers : DOMAIN showers_tx[c].draft \subseteq showers_tx[c].held
  /\ \A c \in Showers!Checkers : \A d \in showers_tx[c].held : Showers!Open(d)
  /\ \A c \in Showers!Checkers : showers_tx[c].at \in {"row", "act"}
       => showers_tx[c].dev \in showers_Devices
  /\ \A c \in Showers!Checkers : showers_tx[c].at = "act"
       => showers_tx[c].dev \in showers_tx[c].held

\* The operator resolves what is owed; a restore that is owed was not closed.
ShowersOwedIsUnclosed ==
  /\ showers_hand # Showers!NoHand => Showers!Unresolved(showers_hand.dev)
  /\ \A d \in showers_Devices : Showers!Unresolved(d) => showers_closings[d] = 0
  /\ \A d \in showers_Devices : showers_closings[d] <= 1

ShowersIInv == Showers!TypeOK /\ ShowersOldBuildIsAlone /\ ShowersLocksHold
  /\ ShowersOwedIsUnclosed /\ Showers!OpenShowersAreOwed

ShowersTxType == [at : {"idle", "next", "row", "act"},
                  dev : showers_Devices \cup {showers_None},
                  todo : SUBSET showers_Devices, held : SUBSET showers_Devices,
                  acted : SUBSET showers_Devices, draft : Showers!Drafts]

\* A transaction that has not begun.
LEMMA ShowersNoTxIs ==
  Showers!NoTx \in ShowersTxType /\ Showers!NoTx.at = "idle" /\ Showers!NoTx.held = {}
    /\ DOMAIN Showers!NoTx.draft = {} /\ Showers!NoTx.dev = showers_None
<1>1. [d \in {} |-> showers_None] \in [{} -> Showers!OPEN_SHOWER_STATUSES]
  OBVIOUS
<1>2. [d \in {} |-> showers_None] \in Showers!Drafts
  BY <1>1 DEF Showers!Drafts
<1> QED
  BY <1>2 DEF Showers!NoTx, ShowersTxType

\* A service that starts.
LEMMA ShowersInvariantInitially == Showers!Init => ShowersIInv
<1> SUFFICES ASSUME Showers!Init
             PROVE  ShowersIInv
  OBVIOUS
<1>2. showers_tx \in [Showers!Checkers -> ShowersTxType]
  BY ShowersNoTxIs DEF Showers!Init
<1>3. showers_shower \in [showers_Devices -> Showers!OPEN_SHOWER_STATUSES
                          \cup {"none", "resolved", "recovered"}]
  BY DEF Showers!Init, Showers!OPEN_SHOWER_STATUSES
<1>4. Showers!TypeOK
  BY <1>2, <1>3, ShowersAssumption DEF Showers!Init, Showers!TypeOK, ShowersTxType
<1>5. \A c \in Showers!Checkers : showers_tx[c].at = "idle" /\ showers_tx[c].held = {}
        /\ DOMAIN showers_tx[c].draft = {}
  BY ShowersNoTxIs DEF Showers!Init
<1>6. ShowersOldBuildIsAlone
  BY DEF Showers!Init, ShowersOldBuildIsAlone, Showers!Open, Showers!OPEN_SHOWER_STATUSES
<1>7. ShowersLocksHold
  BY <1>5 DEF ShowersLocksHold
<1>8. ShowersOwedIsUnclosed /\ Showers!OpenShowersAreOwed
  BY ShowersAssumption DEF Showers!Init, ShowersOwedIsUnclosed,
     Showers!OpenShowersAreOwed, Showers!Unresolved
<1> QED
  BY <1>4, <1>6, <1>7, <1>8 DEF ShowersIInv

\* A step of one checker's transaction, until it commits.
LEMMA ShowersTransactionMoves ==
  ASSUME ShowersIInv, NEW c \in Showers!Checkers, NEW t \in ShowersTxType,
         showers_schema = "029",
         DOMAIN t.draft \subseteq t.held,
         \A d \in t.held : Showers!Open(d),
         t.at \in {"row", "act"} => t.dev \in showers_Devices,
         t.at = "act" => t.dev \in t.held,
         showers_tx' = [showers_tx EXCEPT ![c] = t],
         showers_skipped' \in SUBSET showers_Devices,
         showers_fence' \in [showers_Devices -> Showers!Checkers
                             \cup {"executor", showers_None}],
         showers_faults' \in 0 .. showers_MaxFaults,
         UNCHANGED <<showers_shower, showers_restore, showers_due, showers_claim,
                     showers_closings, showers_schema, showers_expired, showers_seen,
                     showers_showers, showers_attempt, showers_hand>>
  PROVE  ShowersIInv'
<1>1. showers_tx \in [Showers!Checkers -> ShowersTxType]
  BY DEF ShowersIInv, Showers!TypeOK, ShowersTxType
<1>2. showers_tx' \in [Showers!Checkers -> ShowersTxType]
  BY <1>1
<1>3. Showers!TypeOK'
  BY <1>2 DEF ShowersIInv, Showers!TypeOK, ShowersTxType
<1>4. ShowersOldBuildIsAlone'
  BY DEF ShowersOldBuildIsAlone
<1>5. \A x \in Showers!Checkers : showers_tx'[x] = IF x = c THEN t ELSE showers_tx[x]
  BY <1>1
<1>6. ShowersLocksHold'
  <2>1. \A d \in showers_Devices : Showers!Open(d)' <=> Showers!Open(d)
    BY DEF Showers!Open
  <2>2. \A x \in Showers!Checkers : showers_tx'[x].held \subseteq showers_Devices
    BY <1>2 DEF ShowersTxType
  <2>3. \A x \in Showers!Checkers : \A d \in showers_tx'[x].held : Showers!Open(d)
    BY <1>5 DEF ShowersIInv, ShowersLocksHold
  <2> QED
    BY <1>5, <2>1, <2>2, <2>3 DEF ShowersIInv, ShowersLocksHold
<1>7. ShowersOwedIsUnclosed' /\ Showers!OpenShowersAreOwed'
  BY DEF ShowersIInv, ShowersOwedIsUnclosed, Showers!OpenShowersAreOwed, Showers!Open,
     Showers!Unresolved
<1> QED
  BY <1>3, <1>4, <1>6, <1>7 DEF ShowersIInv

\* What is known of the transaction of a checker.
LEMMA ShowersTransactionIs ==
  ASSUME ShowersIInv, NEW c \in Showers!Checkers
  PROVE  /\ showers_tx[c] \in ShowersTxType
         /\ DOMAIN showers_tx[c].draft \subseteq showers_tx[c].held
         /\ \A d \in showers_tx[c].held : Showers!Open(d)
         /\ showers_tx[c].at \in {"row", "act"} => showers_tx[c].dev \in showers_Devices
         /\ showers_tx[c].at = "act" => showers_tx[c].dev \in showers_tx[c].held
         /\ showers_tx[c] # Showers!NoTx => showers_schema = "029"
  BY DEF ShowersIInv, Showers!TypeOK, ShowersTxType, ShowersLocksHold,
     ShowersOldBuildIsAlone

\* A checker begins.
LEMMA ShowersBeginMoves ==
  ASSUME ShowersIInv, NEW c \in Showers!Checkers, NEW todo \in SUBSET showers_Devices,
         Showers!Begin(c, todo), showers_schema = "029",
         showers_skipped' \in SUBSET showers_Devices,
         UNCHANGED <<Showers!rows, Showers!world, showers_fence, showers_attempt, showers_hand,
                     showers_faults>>
  PROVE  ShowersIInv'
<1> DEFINE t == [Showers!NoTx EXCEPT !.at = "next", !.todo = todo]
<1>1. t \in ShowersTxType /\ t.held = {} /\ DOMAIN t.draft = {} /\ t.at = "next"
  BY ShowersNoTxIs DEF ShowersTxType
<1>2. showers_tx' = [showers_tx EXCEPT ![c] = t]
  BY DEF Showers!Begin
<1>3. showers_fence' \in [showers_Devices -> Showers!Checkers \cup {"executor", showers_None}]
        /\ showers_faults' \in 0 .. showers_MaxFaults
  BY DEF ShowersIInv, Showers!TypeOK
<1> HIDE DEF t
<1> QED
  BY <1>1, <1>2, <1>3, ShowersTransactionMoves DEF Showers!rows, Showers!world

\* A checker whose transaction fails.
LEMMA ShowersAbortMoves ==
  ASSUME ShowersIInv, NEW c \in Showers!Checkers, Showers!Abort(c),
         showers_tx[c] # Showers!NoTx, showers_faults' \in 0 .. showers_MaxFaults
  PROVE  ShowersIInv'
<1>1. showers_fence' \in [showers_Devices -> Showers!Checkers \cup {"executor", showers_None}]
        /\ showers_skipped' \in SUBSET showers_Devices
  BY DEF ShowersIInv, Showers!TypeOK, Showers!Abort, Showers!Released
<1>2. showers_tx' = [showers_tx EXCEPT ![c] = Showers!NoTx] /\ showers_schema = "029"
  BY ShowersTransactionIs DEF Showers!Abort
<1> QED
  BY <1>1, <1>2, ShowersNoTxIs, ShowersTransactionMoves DEF Showers!Abort, Showers!rows,
     Showers!world

\* A checker takes devices and rows, or leaves them alone.
LEMMA ShowersCheckerMoves ==
  ASSUME ShowersIInv, NEW c \in Showers!Checkers,
         \/ \E d \in showers_Devices : Showers!TakeDevice(c, d)
         \/ \E warm \in BOOLEAN : Showers!TakeRow(c, warm)
         \/ Showers!Reschedule(c)
  PROVE  ShowersIInv'
<1>1. showers_tx[c] # Showers!NoTx /\ showers_schema = "029" /\ showers_tx[c] \in ShowersTxType
  <2>1. showers_tx[c].at # "idle"
    BY DEF Showers!TakeDevice, Showers!TakeRow, Showers!Reschedule
  <2> QED
    BY <2>1, ShowersNoTxIs, ShowersTransactionIs
<1>2. /\ showers_skipped' \in SUBSET showers_Devices
           /\ showers_faults' \in 0 .. showers_MaxFaults
      /\ UNCHANGED <<showers_shower, showers_restore, showers_due, showers_claim,
                     showers_closings, showers_schema, showers_expired, showers_seen,
                     showers_showers, showers_attempt, showers_hand>>
  BY DEF ShowersIInv, Showers!TypeOK, Showers!TakeDevice, Showers!TakeRow,
     Showers!Reschedule, Showers!rows, Showers!world
<1>3. showers_fence' \in [showers_Devices -> Showers!Checkers \cup {"executor", showers_None}]
  <2>1. showers_fence \in [showers_Devices -> Showers!Checkers \cup {"executor", showers_None}]
    BY DEF ShowersIInv, Showers!TypeOK
  <2>2. showers_fence' = showers_fence
          \/ \E d \in showers_Devices : showers_fence' = [showers_fence EXCEPT ![d] = c]
    BY DEF Showers!TakeDevice, Showers!TakeRow, Showers!Reschedule
  <2> QED
    BY <2>1, <2>2
<1> DEFINE d == showers_tx[c].dev
           left == [showers_tx[c] EXCEPT !.at = "next", !.dev = showers_None, !.todo = @ \ {d}]
<1>4. showers_tx \in [Showers!Checkers -> ShowersTxType]
  BY DEF ShowersIInv, Showers!TypeOK, ShowersTxType
<1>5. left \in ShowersTxType /\ left.held = showers_tx[c].held
        /\ left.draft = showers_tx[c].draft /\ left.at = "next"
  BY <1>1 DEF ShowersTxType
<1>6. ASSUME NEW e \in showers_Devices, Showers!TakeDevice(c, e)
      PROVE  ShowersIInv'
  <2>1. CASE showers_fence[e] = showers_None
    <3> DEFINE t == [showers_tx[c] EXCEPT !.at = "row", !.dev = e]
    <3>1. t \in ShowersTxType /\ t.held = showers_tx[c].held /\ t.draft = showers_tx[c].draft
            /\ t.at = "row" /\ t.dev = e
      BY <1>1 DEF ShowersTxType
    <3>2. showers_tx' = [showers_tx EXCEPT ![c] = t]
      BY <1>4, <1>6, <2>1 DEF Showers!TakeDevice
    <3> HIDE DEF t
    <3> QED
      BY <1>1, <1>2, <1>3, <3>1, <3>2, ShowersTransactionIs, ShowersTransactionMoves
  <2>2. CASE showers_fence[e] # showers_None
    <3> DEFINE t == [showers_tx[c] EXCEPT !.todo = @ \ {e}]
    <3>1. t \in ShowersTxType /\ t.held = showers_tx[c].held /\ t.draft = showers_tx[c].draft
            /\ t.at = showers_tx[c].at /\ t.dev = showers_tx[c].dev
      BY <1>1 DEF ShowersTxType
    <3>2. showers_tx' = [showers_tx EXCEPT ![c] = t]
      BY <1>4, <1>6, <2>2 DEF Showers!TakeDevice
    <3> HIDE DEF t
    <3> QED
      BY <1>1, <1>2, <1>3, <3>1, <3>2, ShowersTransactionIs, ShowersTransactionMoves
  <2> QED
    BY <2>1, <2>2
<1>7. ASSUME NEW warm \in BOOLEAN, Showers!TakeRow(c, warm)
      PROVE  ShowersIInv'
  <2> DEFINE moved == IF showers_expired[d] THEN "timeout_pending"
                      ELSE IF c = "poller" /\ warm THEN "recovery_pending" ELSE showers_None
             keep == [showers_tx[c] EXCEPT !.held = @ \cup {d}]
             draft == [x \in DOMAIN showers_tx[c].draft \cup {d} |-> IF x = d THEN moved
                         ELSE showers_tx[c].draft[x]]
  <2>1. showers_tx[c].at = "row" /\ d \in showers_Devices
    BY <1>7, ShowersTransactionIs DEF Showers!TakeRow
  <2>2. keep \in ShowersTxType /\ keep.held = showers_tx[c].held \cup {d}
          /\ keep.draft = showers_tx[c].draft
        /\ keep.todo = showers_tx[c].todo
    BY <1>1, <2>1 DEF ShowersTxType
  <2>3. CASE ~Showers!StillOpen(d) /\ Showers!Leave(c)
    <3>1. showers_tx' = [showers_tx EXCEPT ![c] = left]
      BY <1>4, <2>3 DEF Showers!Leave
    <3> HIDE DEF left
    <3> QED
      BY <1>1, <1>2, <1>3, <1>5, <3>1, ShowersTransactionIs, ShowersTransactionMoves
  <2>4. CASE Showers!StillOpen(d)
               /\ showers_tx' = [showers_tx EXCEPT ![c] =
                                   [keep EXCEPT !.at = "next", !.dev = showers_None,
                                                !.todo = @ \ {d}]]
    <3> DEFINE t == [keep EXCEPT !.at = "next", !.dev = showers_None, !.todo = @ \ {d}]
    <3> HIDE DEF keep
    <3>1. t \in ShowersTxType /\ t.held = keep.held /\ t.draft = keep.draft /\ t.at = "next"
      BY <2>2 DEF ShowersTxType
    <3>2. \A x \in t.held : Showers!Open(x)
      BY <2>2, <2>4, <3>1, ShowersTransactionIs DEF Showers!StillOpen
    <3> HIDE DEF t
    <3> QED
      BY <1>1, <1>2, <1>3, <2>2, <2>4, <3>1, <3>2, ShowersTransactionIs,
         ShowersTransactionMoves DEF t
  <2>5. CASE Showers!StillOpen(d) /\ moved # showers_None
               /\ showers_tx' = [showers_tx EXCEPT ![c] =
                                   [keep EXCEPT !.at = "act", !.draft = draft]]
    <3> DEFINE t == [keep EXCEPT !.at = "act", !.draft = draft]
    <3>1. draft \in Showers!Drafts /\ DOMAIN draft = DOMAIN showers_tx[c].draft \cup {d}
      <4>1. moved \in Showers!OPEN_SHOWER_STATUSES
        BY <2>5 DEF Showers!OPEN_SHOWER_STATUSES
      <4>2. PICK S \in SUBSET showers_Devices :
              showers_tx[c].draft \in [S -> Showers!OPEN_SHOWER_STATUSES]
        BY <1>1 DEF ShowersTxType, Showers!Drafts
      <4> HIDE DEF moved, d
      <4>3. draft \in [S \cup {d} -> Showers!OPEN_SHOWER_STATUSES]
        BY <4>1, <4>2
      <4>4. S \cup {d} \in SUBSET showers_Devices
        BY <2>1, <4>2
      <4> QED
        BY <4>3, <4>4 DEF Showers!Drafts
    <3> HIDE DEF keep, draft, moved
    <3>2. /\ t \in ShowersTxType /\ t.held = keep.held /\ t.draft = draft /\ t.at = "act"
          /\ t.dev = keep.dev
      BY <2>2, <3>1 DEF ShowersTxType
    <3>3. keep.dev = d
      BY <1>1 DEF keep, ShowersTxType
    <3>4. \A x \in t.held : Showers!Open(x)
      BY <2>2, <2>5, <3>2, ShowersTransactionIs DEF Showers!StillOpen
    <3>5. DOMAIN t.draft \subseteq t.held
      BY <2>2, <3>1, <3>2, ShowersTransactionIs
    <3>6. t.dev \in showers_Devices /\ t.dev \in t.held
      BY <2>1, <2>2, <3>2, <3>3
    <3>7. showers_tx' = [showers_tx EXCEPT ![c] = t]
      BY <2>5
    <3> HIDE DEF t
    <3> QED
      BY <1>1, <1>2, <1>3, <3>2, <3>4, <3>5, <3>6, <3>7, ShowersTransactionMoves
  <2> QED
    <3> HIDE DEF left
    <3>1. \/ ~Showers!StillOpen(d) /\ Showers!Leave(c)
          \/ /\ Showers!StillOpen(d)
             /\ showers_tx' = [showers_tx EXCEPT ![c] =
                                 [keep EXCEPT !.at = "next", !.dev = showers_None,
                                              !.todo = @ \ {d}]]
          \/ Showers!StillOpen(d) /\ moved # showers_None
               /\ showers_tx' = [showers_tx EXCEPT ![c] = [keep EXCEPT !.at = "act",
                              !.draft = [x \in DOMAIN @ \cup {d} |-> IF x = d THEN moved
                                           ELSE @[x]]]]
      BY <1>7, Zenon DEF Showers!TakeRow
    <3>2. [keep EXCEPT !.at = "act",
                      !.draft = [x \in DOMAIN @ \cup {d} |-> IF x = d THEN moved ELSE @[x]]]
           = [keep EXCEPT !.at = "act", !.draft = draft]
      BY <2>2
    <3> HIDE DEF keep, moved, draft, d
    <3> QED
      BY <2>3, <2>4, <2>5, <3>1, <3>2
<1>8. CASE Showers!Reschedule(c)
  <2> DEFINE t == [showers_tx[c] EXCEPT !.at = "next", !.dev = showers_None, !.todo = @ \ {d},
                                 !.acted = @ \cup {x \in {d} : showers_restore[x] = "pending"}]
  <2>1. d \in showers_Devices
    BY <1>8, ShowersTransactionIs DEF Showers!Reschedule
  <2>2. t \in ShowersTxType /\ t.held = showers_tx[c].held /\ t.draft = showers_tx[c].draft
          /\ t.at = "next"
    BY <1>1, <2>1 DEF ShowersTxType
  <2>3. showers_tx' = [showers_tx EXCEPT ![c] = t]
    BY <1>4, <1>8 DEF Showers!Reschedule
  <2> HIDE DEF t
  <2> QED
    BY <1>1, <1>2, <1>3, <2>2, <2>3, ShowersTransactionIs, ShowersTransactionMoves
<1> QED
  BY <1>6, <1>7, <1>8

\* A commit moves the showers it holds to another open status.
LEMMA ShowersCommitMoves ==
  ASSUME ShowersIInv, NEW c \in Showers!Checkers, Showers!Commit(c)
  PROVE  ShowersIInv'
<1>1. /\ showers_tx[c] \in ShowersTxType
           /\ DOMAIN showers_tx[c].draft \subseteq showers_tx[c].held
      /\ \A d \in showers_tx[c].held : Showers!Open(d)
      /\ showers_tx[c].at = "next"
  BY ShowersTransactionIs DEF Showers!Commit
<1>2. showers_schema = "029" /\ showers_schema' = showers_schema
  BY <1>1, ShowersNoTxIs, ShowersTransactionIs DEF Showers!Commit, Showers!world
<1>3. /\ showers_tx' = [showers_tx EXCEPT ![c] = Showers!NoTx]
           /\ showers_fence' = Showers!Released(c)
      /\ showers_due' = [d \in showers_Devices |-> d \in showers_tx[c].acted \/ showers_due[d]]
      /\ showers_claim' = [d \in showers_Devices |->
             IF d \in showers_tx[c].acted
               /\ showers_claim[d] = "drained" THEN "unsettled" ELSE showers_claim[d]]
      /\ showers_shower' = [d \in showers_Devices |-> IF d \in DOMAIN showers_tx[c].draft
                              THEN showers_tx[c].draft[d] ELSE showers_shower[d]]
      /\ UNCHANGED <<showers_schema, showers_expired, showers_seen, showers_showers,
                     showers_restore, showers_skipped, showers_attempt, showers_hand,
                     showers_faults, showers_closings>>
  BY DEF Showers!Commit, Showers!world
<1>4. \A d \in DOMAIN showers_tx[c].draft :
        showers_tx[c].draft[d] \in Showers!OPEN_SHOWER_STATUSES
  BY <1>1 DEF ShowersTxType, Showers!Drafts
<1>5. \A d \in showers_Devices : Showers!Open(d)' <=> Showers!Open(d)
  BY <1>1, <1>3, <1>4 DEF Showers!Open
<1>6. showers_shower' \in [showers_Devices -> Showers!OPEN_SHOWER_STATUSES
                           \cup {"none", "resolved", "recovered"}]
  BY <1>3, <1>4 DEF ShowersIInv, Showers!TypeOK
<1>7. showers_tx \in [Showers!Checkers -> ShowersTxType]
  BY DEF ShowersIInv, Showers!TypeOK, ShowersTxType
<1>8. showers_tx' \in [Showers!Checkers -> ShowersTxType]
        /\ \A x \in Showers!Checkers : showers_tx'[x] = IF x = c THEN Showers!NoTx
             ELSE showers_tx[x]
  BY <1>3, <1>7, ShowersNoTxIs
<1>9. showers_fence' \in [showers_Devices -> Showers!Checkers \cup {"executor", showers_None}]
  BY <1>3 DEF ShowersIInv, Showers!TypeOK, Showers!Released
<1>10. showers_due' \in [showers_Devices -> BOOLEAN]
         /\ showers_claim' \in [showers_Devices -> {"free", "drained", "unsettled"}]
  BY <1>3 DEF ShowersIInv, Showers!TypeOK
<1>11. Showers!TypeOK'
  BY <1>3, <1>6, <1>8, <1>9, <1>10 DEF ShowersIInv, Showers!TypeOK, ShowersTxType
<1>12. ShowersOldBuildIsAlone'
  BY <1>2 DEF ShowersOldBuildIsAlone
<1>13. ShowersLocksHold'
  <2>1. \A x \in Showers!Checkers : showers_tx[x].held \subseteq showers_Devices
    BY <1>7 DEF ShowersTxType
  <2> QED
    BY <1>5, <1>8, <2>1, ShowersNoTxIs DEF ShowersIInv, ShowersLocksHold
<1>14. ShowersOwedIsUnclosed' /\ Showers!OpenShowersAreOwed'
  BY <1>3, <1>5 DEF ShowersIInv, ShowersOwedIsUnclosed, Showers!OpenShowersAreOwed,
     Showers!Unresolved
<1> QED
  BY <1>11, <1>12, <1>13, <1>14 DEF ShowersIInv

\* The migration, its way back, and the older build.
LEMMA ShowersBuildsMove ==
  ASSUME ShowersIInv,
         \/ \E duration, locked \in BOOLEAN,
            named \in SUBSET showers_Devices : Showers!Upgrade(duration, named, locked)
         \/ Showers!Downgrade
         \/ \E d \in showers_Devices : Showers!OldBuild(d)
  PROVE  ShowersIInv'
<1>1. CASE \E duration, locked \in BOOLEAN,
           named \in SUBSET showers_Devices : Showers!Upgrade(duration, named, locked)
  <2> DEFINE legacy == {d \in showers_Devices : showers_shower[d] = "active"}
  <2>1. /\ showers_schema = "028"
        /\ UNCHANGED <<showers_shower, showers_expired, showers_claim, showers_seen,
                       showers_skipped, showers_fence, showers_attempt, showers_tx,
                       showers_hand, showers_showers, showers_faults,
                 showers_closings>>
        /\ \/ UNCHANGED <<showers_schema, showers_restore, showers_due>>
           \/ /\ showers_schema' = "029"
              /\ showers_restore' = [d \in showers_Devices |-> IF d \in legacy THEN "pending"
                                       ELSE showers_restore[d]]
              /\ showers_due' = [d \in showers_Devices |-> IF d \in legacy
                                   THEN showers_expired[d] ELSE showers_due[d]]
    BY <1>1 DEF Showers!Upgrade
  <2>2. CASE UNCHANGED <<showers_schema, showers_restore, showers_due>>
    BY <2>1, <2>2
    DEF ShowersIInv, Showers!TypeOK, ShowersOldBuildIsAlone, ShowersLocksHold,
        ShowersOwedIsUnclosed, Showers!OpenShowersAreOwed, Showers!Open, Showers!Unresolved
  <2>3. CASE /\ showers_schema' = "029"
             /\ showers_restore' = [d \in showers_Devices |-> IF d \in legacy THEN "pending"
                                      ELSE showers_restore[d]]
             /\ showers_due' = [d \in showers_Devices |-> IF d \in legacy
                                  THEN showers_expired[d] ELSE showers_due[d]]
    <3>1. /\ showers_attempt = Showers!NoAttempt /\ showers_hand = Showers!NoHand
               /\ \A c \in Showers!Checkers : showers_tx[c] = Showers!NoTx
          /\ \A d \in showers_Devices : showers_restore[d] = showers_None
               /\ showers_closings[d] = 0
          /\ \A d \in showers_Devices : Showers!Open(d) => showers_shower[d] = "active"
      BY <2>1 DEF ShowersIInv, ShowersOldBuildIsAlone
    <3>2. showers_restore' \in
            [showers_Devices -> Showers!UNRESOLVED_STATUSES \cup {"executed", showers_None}]
              /\ showers_due' \in [showers_Devices -> BOOLEAN]
      BY <2>3 DEF ShowersIInv, Showers!TypeOK, Showers!UNRESOLVED_STATUSES
    <3>3. Showers!TypeOK'
      BY <2>1, <2>3, <3>2 DEF ShowersIInv, Showers!TypeOK
    <3>4. ShowersOldBuildIsAlone' /\ ShowersLocksHold'
      BY <2>1, <2>3 DEF ShowersIInv, ShowersOldBuildIsAlone, ShowersLocksHold, Showers!Open
    <3>5. ShowersOwedIsUnclosed'
      BY <2>1, <3>1 DEF ShowersIInv, ShowersOwedIsUnclosed, Showers!Unresolved
    <3>6. Showers!OpenShowersAreOwed'
      <4>1. \A d \in showers_Devices : Showers!Open(d)' <=> showers_shower[d] = "active"
        BY <2>1, <3>1 DEF Showers!Open, Showers!OPEN_SHOWER_STATUSES
      <4>2. \A d \in showers_Devices : Showers!Unresolved(d)' <=> showers_shower[d] = "active"
        BY <2>3, <3>1, ShowersAssumption DEF Showers!Unresolved, Showers!UNRESOLVED_STATUSES
      <4> QED
        BY <4>1, <4>2 DEF Showers!OpenShowersAreOwed
    <3> QED
      BY <3>3, <3>4, <3>5, <3>6 DEF ShowersIInv
  <2> QED
    BY <2>1, <2>2, <2>3
<1>2. CASE Showers!Downgrade
  <2>1. /\ showers_schema' = "028" /\ Showers!Stopped /\ showers_schema = "029"
        /\ \A d \in showers_Devices : ~Showers!Unresolved(d)
        /\ showers_restore' = [d \in showers_Devices |-> showers_None]
             /\ showers_due' = [d \in showers_Devices |-> FALSE]
        /\ showers_claim' = [d \in showers_Devices |-> "free"]
             /\ showers_closings' = [d \in showers_Devices |-> 0]
        /\ UNCHANGED <<showers_shower, showers_expired, showers_seen, showers_skipped,
                       showers_fence, showers_attempt, showers_tx, showers_hand,
                       showers_showers, showers_faults>>
    BY <1>2 DEF Showers!Downgrade
  <2>2. Showers!TypeOK'
    BY <2>1 DEF ShowersIInv, Showers!TypeOK
  <2>3. \A d \in showers_Devices : ~Showers!Open(d) /\ ~Showers!Open(d)'
    BY <2>1 DEF ShowersIInv, Showers!OpenShowersAreOwed, Showers!Open
  <2>4. ShowersOldBuildIsAlone'
    BY <2>1, <2>3 DEF ShowersOldBuildIsAlone, Showers!Stopped
  <2>5. ShowersLocksHold'
    BY <2>1 DEF ShowersIInv, ShowersLocksHold, Showers!Open
  <2>6. ShowersOwedIsUnclosed' /\ Showers!OpenShowersAreOwed'
    BY <2>1 DEF ShowersOwedIsUnclosed, Showers!OpenShowersAreOwed, Showers!Stopped
  <2> QED
    BY <2>2, <2>4, <2>5, <2>6 DEF ShowersIInv
<1>3. ASSUME NEW d \in showers_Devices, Showers!OldBuild(d)
      PROVE  ShowersIInv'
  <2>1. /\ showers_schema = "028" /\ showers_showers' = showers_showers + 1
             /\ showers_showers < showers_MaxShowers
        /\ showers_shower' = [showers_shower EXCEPT ![d] = "active"]
        /\ showers_expired' = [showers_expired EXCEPT ![d] = FALSE]
        /\ UNCHANGED <<showers_schema, showers_restore, showers_due, showers_claim,
                       showers_seen, showers_skipped, showers_fence, showers_attempt,
                       showers_tx, showers_hand, showers_faults, showers_closings>>
    BY <1>3 DEF Showers!OldBuild
  <2>2. showers_showers' \in 0 .. showers_MaxShowers
    BY <2>1, ShowersAssumption DEF ShowersIInv, Showers!TypeOK
  <2>3. Showers!TypeOK'
    BY <2>1, <2>2 DEF ShowersIInv, Showers!TypeOK, Showers!OPEN_SHOWER_STATUSES
  <2>4. ShowersOldBuildIsAlone'
    BY <2>1 DEF ShowersIInv, Showers!TypeOK, ShowersOldBuildIsAlone, Showers!Open
  <2>5. ShowersLocksHold'
    BY <2>1, ShowersNoTxIs DEF ShowersIInv, ShowersOldBuildIsAlone, ShowersLocksHold
  <2>6. ShowersOwedIsUnclosed' /\ Showers!OpenShowersAreOwed'
    BY <2>1 DEF ShowersIInv, ShowersOwedIsUnclosed, Showers!OpenShowersAreOwed,
       Showers!Unresolved
  <2> QED
    BY <2>3, <2>4, <2>5, <2>6 DEF ShowersIInv
<1> QED
  BY <1>1, <1>2, <1>3

\* What closes a restore closes its shower.
LEMMA ShowersClosingMoves ==
  ASSUME ShowersIInv, showers_schema = "029", NEW d \in showers_Devices,
         NEW status \in {"resolved", "recovered"},
         Showers!Unresolved(d), ~Showers!EventLocked(d),
         showers_restore' = [showers_restore EXCEPT ![d] = "executed"],
         showers_shower' = [showers_shower EXCEPT ![d] = status],
         showers_closings' = [showers_closings EXCEPT ![d] = @ + 1],
         showers_hand' = Showers!NoHand
           \/ (showers_hand' = showers_hand /\ showers_hand # [at |-> "write", dev |-> d]),
         showers_attempt' = Showers!NoAttempt \/ showers_attempt' = showers_attempt,
         showers_fence' \in [showers_Devices -> Showers!Checkers
                             \cup {"executor", showers_None}],
         UNCHANGED <<Showers!world, showers_due, showers_claim, showers_skipped, showers_tx,
                     showers_faults>>
  PROVE  ShowersIInv'
<1>1. showers_restore' \in
        [showers_Devices -> Showers!UNRESOLVED_STATUSES \cup {"executed", showers_None}]
      /\ showers_shower' \in [showers_Devices -> Showers!OPEN_SHOWER_STATUSES
                              \cup {"none", "resolved", "recovered"}]
      /\ showers_closings' \in [showers_Devices -> Nat]
  BY DEF ShowersIInv, Showers!TypeOK
<1>2. showers_hand' \in {Showers!NoHand} \cup [at : {"write"}, dev : showers_Devices]
      /\ showers_attempt' \in {Showers!NoAttempt}
           \cup [dev : showers_Devices, known : {"executing", "dispatched"}]
  BY DEF ShowersIInv, Showers!TypeOK
<1>3. Showers!TypeOK'
  BY <1>1, <1>2 DEF ShowersIInv, Showers!TypeOK, Showers!world
<1>4. ShowersOldBuildIsAlone'
  BY DEF ShowersOldBuildIsAlone, Showers!world
<1>5. \A e \in showers_Devices : e # d => /\ showers_shower'[e] = showers_shower[e] /\ showers_restore'[e] = showers_restore[e]
                                          /\ showers_closings'[e] = showers_closings[e]
  BY DEF ShowersIInv, Showers!TypeOK
<1>6. showers_shower'[d] = status /\ showers_restore'[d] = "executed"
        /\ showers_closings'[d] = showers_closings[d] + 1 /\ showers_closings[d] = 0
  BY DEF ShowersIInv, Showers!TypeOK, ShowersOwedIsUnclosed
<1>7. ShowersLocksHold'
  <2>1. \A c \in Showers!Checkers : d \notin showers_tx[c].held
          /\ showers_tx[c].held \subseteq showers_Devices
    BY DEF Showers!EventLocked, ShowersIInv, Showers!TypeOK
  <2>2. \A c \in Showers!Checkers : \A e \in showers_tx[c].held : Showers!Open(e)'
    BY <1>5, <2>1 DEF ShowersIInv, ShowersLocksHold, Showers!Open
  <2> QED
    BY <2>2 DEF ShowersIInv, ShowersLocksHold
<1>8. ShowersOwedIsUnclosed'
  <2>1. showers_hand' # Showers!NoHand
          => showers_hand' = showers_hand /\ showers_hand.dev \in showers_Devices
            /\ showers_hand.dev # d
    BY DEF ShowersIInv, Showers!TypeOK
  <2>2. showers_hand' # Showers!NoHand => Showers!Unresolved(showers_hand.dev)'
    BY <1>5, <2>1 DEF ShowersIInv, ShowersOwedIsUnclosed, Showers!Unresolved
  <2>3. \A e \in showers_Devices : (Showers!Unresolved(e)' => showers_closings'[e] = 0)
          /\ showers_closings'[e] <= 1
    <3>1. \A e \in showers_Devices : e # d
            => (Showers!Unresolved(e)' => showers_closings'[e] = 0) /\ showers_closings'[e] <= 1
      BY <1>5 DEF ShowersIInv, ShowersOwedIsUnclosed, Showers!Unresolved
    <3>2. ~Showers!Unresolved(d)' /\ showers_closings'[d] <= 1
      BY <1>6 DEF Showers!Unresolved, Showers!UNRESOLVED_STATUSES
    <3> QED
      BY <3>1, <3>2
  <2> QED
    BY <2>1, <2>2, <2>3 DEF ShowersOwedIsUnclosed
<1>9. Showers!OpenShowersAreOwed'
  <2>1. ~Showers!Open(d)' /\ ~Showers!Unresolved(d)'
    BY <1>6 DEF Showers!Open, Showers!Unresolved, Showers!OPEN_SHOWER_STATUSES,
       Showers!UNRESOLVED_STATUSES
  <2>2. \A e \in showers_Devices : e # d => (Showers!Open(e)' <=> Showers!Unresolved(e)')
    BY <1>5 DEF ShowersIInv, Showers!OpenShowersAreOwed, Showers!Open, Showers!Unresolved
  <2> QED
    BY <2>1, <2>2 DEF Showers!OpenShowersAreOwed
<1> QED
  BY <1>3, <1>4, <1>7, <1>8, <1>9 DEF ShowersIInv

\* What moves a restore that is owed, nobody else holding it.
LEMMA ShowersRestoreMoves ==
  ASSUME ShowersIInv, showers_schema = "029", NEW d \in showers_Devices,
         NEW status \in Showers!UNRESOLVED_STATUSES,
         Showers!Unresolved(d),
         showers_restore' = [showers_restore EXCEPT ![d] = status],
         showers_due' \in [showers_Devices -> BOOLEAN],
         showers_claim' \in [showers_Devices -> {"free", "drained", "unsettled"}],
         showers_attempt' \in {Showers!NoAttempt}
           \cup [dev : showers_Devices, known : {"executing", "dispatched"}],
         showers_fence' \in [showers_Devices -> Showers!Checkers
                             \cup {"executor", showers_None}],
         UNCHANGED <<Showers!world, showers_shower, showers_skipped, showers_tx, showers_hand,
                     showers_faults, showers_closings>>
  PROVE  ShowersIInv'
<1>1. showers_restore' \in
        [showers_Devices -> Showers!UNRESOLVED_STATUSES \cup {"executed", showers_None}]
  BY DEF ShowersIInv, Showers!TypeOK
<1>2. Showers!TypeOK'
  BY <1>1 DEF ShowersIInv, Showers!TypeOK, Showers!world
<1>3. \A e \in showers_Devices : Showers!Unresolved(e)' <=> Showers!Unresolved(e)
  BY DEF ShowersIInv, Showers!TypeOK, Showers!Unresolved
<1>4. showers_hand # Showers!NoHand => showers_hand.dev \in showers_Devices
  BY DEF ShowersIInv, Showers!TypeOK
<1>5. ShowersOldBuildIsAlone' /\ ShowersLocksHold' /\ ShowersOwedIsUnclosed'
        /\ Showers!OpenShowersAreOwed'
  BY <1>3, <1>4
  DEF ShowersIInv, ShowersOldBuildIsAlone, ShowersLocksHold, ShowersOwedIsUnclosed,
      Showers!OpenShowersAreOwed, Showers!Open, Showers!world
<1> QED
  BY <1>2, <1>5 DEF ShowersIInv

\* The attempt and its authority.
LEMMA ShowersAttemptMoves ==
  ASSUME ShowersIInv, (\E d \in showers_Devices : Showers!Claim(d)) \/ Showers!Dispatch
           \/ Showers!Verified \/ Showers!Requeue \/ Showers!Lost \/ Showers!Crash
  PROVE  ShowersIInv'
<1>1. ASSUME NEW d \in showers_Devices, Showers!Claim(d)
      PROVE  ShowersIInv'
  <2>1. Showers!Unresolved(d) /\ "executing" \in Showers!UNRESOLVED_STATUSES
          /\ showers_schema = "029"
    BY <1>1 DEF Showers!Claim, Showers!Unresolved, Showers!UNRESOLVED_STATUSES
  <2>2. /\ showers_due' \in [showers_Devices -> BOOLEAN]
             /\ showers_claim' \in [showers_Devices -> {"free", "drained", "unsettled"}]
        /\ showers_attempt' \in {Showers!NoAttempt}
             \cup [dev : showers_Devices, known : {"executing", "dispatched"}]
        /\ showers_fence' \in [showers_Devices -> Showers!Checkers
                               \cup {"executor", showers_None}]
    BY <1>1 DEF Showers!Claim, ShowersIInv, Showers!TypeOK
  <2>3. /\ showers_restore' = [showers_restore EXCEPT ![d] = "executing"]
        /\ UNCHANGED <<Showers!world, showers_shower, showers_skipped, showers_tx,
                       showers_hand, showers_faults, showers_closings>>
    BY <1>1 DEF Showers!Claim
  <2> QED
    BY <2>1, <2>2, <2>3, ShowersRestoreMoves
<1> DEFINE d == showers_attempt.dev
<1>2. showers_attempt # Showers!NoAttempt =>
        d \in showers_Devices /\ showers_attempt.known \in {"executing", "dispatched"}
          /\ showers_schema = "029"
  BY DEF ShowersIInv, Showers!TypeOK, ShowersOldBuildIsAlone
<1>3. showers_attempt # Showers!NoAttempt
        => Showers!Unfenced \in
          [showers_Devices -> Showers!Checkers \cup {"executor", showers_None}]
  BY <1>2 DEF ShowersIInv, Showers!TypeOK, Showers!Unfenced
<1>4. Showers!Current => showers_attempt # Showers!NoAttempt /\ Showers!Unresolved(d)
        /\ showers_hand # [at |-> "write", dev |-> d]
  BY <1>2 DEF Showers!Current, Showers!Unresolved, Showers!UNRESOLVED_STATUSES,
     Showers!ActionLocked
<1>5. CASE Showers!Dispatch
  <2>1. Showers!Current /\ "dispatched" \in Showers!UNRESOLVED_STATUSES
    BY <1>5 DEF Showers!Dispatch, Showers!UNRESOLVED_STATUSES
  <2>2. /\ showers_due' \in [showers_Devices -> BOOLEAN]
             /\ showers_claim' \in [showers_Devices -> {"free", "drained", "unsettled"}]
        /\ showers_fence' \in [showers_Devices -> Showers!Checkers
                               \cup {"executor", showers_None}]
    BY <1>5 DEF Showers!Dispatch, ShowersIInv, Showers!TypeOK
  <2>3. showers_attempt' \in {Showers!NoAttempt}
          \cup [dev : showers_Devices, known : {"executing", "dispatched"}]
    <3>1. showers_attempt \in [dev : showers_Devices, known : {"executing", "dispatched"}]
      BY <1>4, <2>1 DEF ShowersIInv, Showers!TypeOK
    <3> QED
      BY <1>5, <3>1 DEF Showers!Dispatch
  <2> QED
    BY <1>2, <1>4, <1>5, <2>1, <2>2, <2>3, ShowersRestoreMoves DEF Showers!Dispatch
<1>6. CASE Showers!Verified
  <2>1. Showers!Current /\ ~Showers!EventLocked(d)
    BY <1>6 DEF Showers!Verified
  <2>2. Showers!Open(d)
    BY <1>2, <1>4, <2>1 DEF ShowersIInv, Showers!OpenShowersAreOwed
  <2>3. showers_shower' = [showers_shower EXCEPT ![d] = "recovered"]
    BY <1>6, <2>2 DEF Showers!Verified
  <2>4. showers_hand' = showers_hand /\ showers_attempt' = Showers!NoAttempt
          /\ showers_fence' = Showers!Unfenced
        /\ showers_restore' = [showers_restore EXCEPT ![d] = "executed"]
             /\ showers_closings' = [showers_closings EXCEPT ![d] = @ + 1]
        /\ UNCHANGED <<Showers!world, showers_due, showers_claim, showers_skipped, showers_tx,
                       showers_faults>>
    BY <1>6 DEF Showers!Verified
  <2> QED
    BY <1>2, <1>3, <1>4, <2>1, <2>3, <2>4, ShowersClosingMoves
<1>7. CASE Showers!Requeue
  <2>1. Showers!Current /\ "pending" \in Showers!UNRESOLVED_STATUSES
    BY <1>7 DEF Showers!Requeue, Showers!UNRESOLVED_STATUSES
  <2>2. /\ showers_due' \in [showers_Devices -> BOOLEAN]
             /\ showers_claim' \in [showers_Devices -> {"free", "drained", "unsettled"}]
        /\ showers_fence' \in [showers_Devices -> Showers!Checkers
                               \cup {"executor", showers_None}]
                                 /\ showers_attempt' = Showers!NoAttempt
    BY <1>3, <1>4, <1>7, <2>1 DEF Showers!Requeue, ShowersIInv, Showers!TypeOK
  <2> QED
    BY <1>2, <1>4, <1>7, <2>1, <2>2, ShowersRestoreMoves DEF Showers!Requeue
<1>8. CASE Showers!Lost \/ Showers!Crash
  <2>1. /\ showers_attempt # Showers!NoAttempt /\ showers_attempt' = Showers!NoAttempt
             /\ showers_fence' = Showers!Unfenced
        /\ UNCHANGED <<Showers!rows, Showers!world, showers_skipped, showers_tx, showers_hand>>
    BY <1>8 DEF Showers!Lost, Showers!Crash
  <2>2. showers_faults' \in 0 .. showers_MaxFaults
    BY <1>8, ShowersAssumption DEF Showers!Lost, Showers!Crash, ShowersIInv, Showers!TypeOK
  <2>3. Showers!TypeOK'
    BY <1>3, <2>1, <2>2 DEF ShowersIInv, Showers!TypeOK, Showers!rows, Showers!world
  <2> QED
    BY <2>1, <2>3
    DEF ShowersIInv, ShowersOldBuildIsAlone, ShowersLocksHold, ShowersOwedIsUnclosed,
        Showers!OpenShowersAreOwed, Showers!Open, Showers!Unresolved, Showers!rows,
        Showers!world
<1> QED
  BY <1>1, <1>5, <1>6, <1>7, <1>8

\* The operator, and a deadlock between the operator and a checker.
LEMMA ShowersHandMoves ==
  ASSUME ShowersIInv, (\E d \in showers_Devices : Showers!Ask(d)) \/ Showers!Resolve
           \/ \E c \in Showers!Checkers : Showers!Victim(c)
  PROVE  ShowersIInv'
<1>1. ASSUME NEW d \in showers_Devices, Showers!Ask(d)
      PROVE  ShowersIInv'
  <2>1. /\ showers_schema = "029" /\ Showers!Unresolved(d)
             /\ showers_hand' = [at |-> "write", dev |-> d]
        /\ UNCHANGED <<Showers!rows, Showers!world, showers_skipped, showers_fence,
                       showers_attempt, showers_tx, showers_faults>>
    BY <1>1 DEF Showers!Ask
  <2>2. Showers!TypeOK' /\ showers_hand'.dev = d
    BY <2>1 DEF ShowersIInv, Showers!TypeOK, Showers!rows, Showers!world
  <2> QED
    BY <2>1, <2>2
    DEF ShowersIInv, ShowersOldBuildIsAlone, ShowersLocksHold, ShowersOwedIsUnclosed,
        Showers!OpenShowersAreOwed, Showers!Open, Showers!Unresolved, Showers!rows,
        Showers!world
<1>2. CASE Showers!Resolve
  <2> DEFINE d == showers_hand.dev
  <2>1. showers_hand # Showers!NoHand /\ ~Showers!EventLocked(d)
    BY <1>2 DEF Showers!Resolve, Showers!NoHand
  <2>2. d \in showers_Devices /\ Showers!Unresolved(d) /\ showers_schema = "029"
    BY <2>1 DEF ShowersIInv, Showers!TypeOK, ShowersOwedIsUnclosed, ShowersOldBuildIsAlone
  <2>3. showers_fence' \in [showers_Devices -> Showers!Checkers
                            \cup {"executor", showers_None}]
                              /\ showers_attempt' = showers_attempt
    BY <1>2 DEF Showers!Resolve, ShowersIInv, Showers!TypeOK
  <2>4. /\ showers_restore' = [showers_restore EXCEPT ![d] = "executed"]
        /\ showers_shower' = [showers_shower EXCEPT ![d] = "resolved"]
        /\ showers_closings' = [showers_closings EXCEPT ![d] = @ + 1]
        /\ showers_hand' = Showers!NoHand
        /\ UNCHANGED <<Showers!world, showers_due, showers_claim, showers_skipped, showers_tx,
                       showers_faults>>
    BY <1>2 DEF Showers!Resolve
  <2>5. "resolved" \in {"resolved", "recovered"}
    OBVIOUS
  <2>6. \A e \in showers_Devices : showers_hand.dev = e => ShowersIInv'
    <3> SUFFICES ASSUME NEW e \in showers_Devices, showers_hand.dev = e
                 PROVE  ShowersIInv'
      OBVIOUS
    <3>1. Showers!Unresolved(e) /\ ~Showers!EventLocked(e)
      BY <2>1, <2>2
    <3>2. /\ showers_restore' = [showers_restore EXCEPT ![e] = "executed"]
          /\ showers_shower' = [showers_shower EXCEPT ![e] = "resolved"]
          /\ showers_closings' = [showers_closings EXCEPT ![e] = @ + 1]
      BY <2>4
    <3> QED
      BY <2>2, <2>3, <2>4, <2>5, <3>1, <3>2, ShowersClosingMoves, Zenon
  <2> QED
    BY <2>2, <2>6
<1>3. ASSUME NEW c \in Showers!Checkers, Showers!Victim(c)
      PROVE  ShowersIInv'
  <2>1. showers_tx[c] # Showers!NoTx /\ showers_faults' \in 0 .. showers_MaxFaults
    BY <1>3, ShowersNoTxIs DEF Showers!Victim, Showers!Deadlocked, ShowersIInv,
       Showers!TypeOK
  <2>2. CASE Showers!Abort(c)
    BY <2>1, <2>2, ShowersAbortMoves
  <2>3. CASE showers_hand' = Showers!NoHand
               /\ UNCHANGED <<Showers!rows, Showers!world, showers_skipped, showers_fence,
                              showers_attempt, showers_tx>>
    <3>1. Showers!TypeOK'
      BY <2>1, <2>3 DEF ShowersIInv, Showers!TypeOK, Showers!rows, Showers!world
    <3> QED
      BY <2>3, <3>1
      DEF ShowersIInv, ShowersOldBuildIsAlone, ShowersLocksHold, ShowersOwedIsUnclosed,
          Showers!OpenShowersAreOwed, Showers!Open, Showers!Unresolved, Showers!rows,
          Showers!world
  <2> QED
    BY <1>3, <2>2, <2>3 DEF Showers!Victim
<1> QED
  BY <1>1, <1>2, <1>3

\* Time and the pump.
LEMMA ShowersWorldMoves ==
  ASSUME ShowersIInv, NEW d \in showers_Devices,
         Showers!Expire(d) \/ Showers!RetryDue(d)
           \/ \E v \in {"on", "off", showers_None} : Showers!Reading(d, v)
  PROVE  ShowersIInv'
<1>1. UNCHANGED <<showers_schema, showers_shower, showers_restore, showers_claim,
                  showers_skipped, showers_fence, showers_attempt, showers_tx, showers_hand,
                  showers_showers, showers_faults, showers_closings>>
  BY DEF Showers!Expire, Showers!RetryDue, Showers!Reading, Showers!world, Showers!rows
<1>2. showers_expired' \in [showers_Devices -> BOOLEAN]
  BY DEF Showers!Expire, Showers!RetryDue, Showers!Reading, Showers!world, Showers!rows,
     ShowersIInv, Showers!TypeOK
<1>3. showers_seen' \in [showers_Devices -> {"on", "off", showers_None}]
  BY DEF Showers!Expire, Showers!RetryDue, Showers!Reading, Showers!world, Showers!rows,
     ShowersIInv, Showers!TypeOK
<1>4. showers_due' \in [showers_Devices -> BOOLEAN]
  BY DEF Showers!Expire, Showers!RetryDue, Showers!Reading, Showers!world, Showers!rows,
     ShowersIInv, Showers!TypeOK
<1>5. Showers!TypeOK'
  BY <1>1, <1>2, <1>3, <1>4 DEF ShowersIInv, Showers!TypeOK
<1> QED
  BY <1>1, <1>5
  DEF ShowersIInv, ShowersOldBuildIsAlone, ShowersLocksHold, ShowersOwedIsUnclosed,
      Showers!OpenShowersAreOwed, Showers!Open, Showers!Unresolved

\* Every step of the service keeps the invariant.
LEMMA ShowersInvariantKept == ShowersIInv /\ [Showers!Next]_showersVars => ShowersIInv'
<1> SUFFICES ASSUME ShowersIInv, [Showers!Next]_showersVars
             PROVE  ShowersIInv'
  OBVIOUS
<1>1. ASSUME NEW d \in showers_Devices, NEW drop \in BOOLEAN, Showers!PollerCheck(d, drop)
      PROVE  ShowersIInv'
  <2>1. showers_schema = "029" /\ showers_skipped' \in SUBSET showers_Devices
          /\ UNCHANGED <<Showers!rows, Showers!world, showers_fence, showers_attempt,
                         showers_hand, showers_faults>>
    BY <1>1 DEF Showers!PollerCheck, ShowersIInv, Showers!TypeOK
  <2>2. CASE Showers!Open(d)
    BY <1>1, <2>1, <2>2, ShowersBeginMoves DEF Showers!PollerCheck, Showers!Checkers
  <2>3. CASE ~Showers!Open(d)
    <3>1. UNCHANGED showers_tx
      BY <1>1, <2>3 DEF Showers!PollerCheck
    <3> QED
      BY <2>1, <3>1
      DEF Showers!rows, Showers!world, ShowersIInv, Showers!TypeOK, ShowersOldBuildIsAlone,
          ShowersLocksHold, ShowersOwedIsUnclosed, Showers!OpenShowersAreOwed, Showers!Open,
          Showers!Unresolved
  <2> QED
    BY <2>2, <2>3
<1>2. CASE Showers!WatchdogCheck
  <2>1. /\ showers_schema = "029" /\ showers_skipped' \in SUBSET showers_Devices
        /\ UNCHANGED <<Showers!rows, Showers!world, showers_fence, showers_attempt,
                       showers_hand, showers_faults>>
        /\ Showers!Begin("watchdog",
                         {d \in showers_Devices : Showers!Open(d) /\ showers_expired[d]})
    BY <1>2 DEF Showers!WatchdogCheck, ShowersIInv, Showers!TypeOK
  <2>2. {d \in showers_Devices : Showers!Open(d) /\ showers_expired[d]} \in
          SUBSET showers_Devices /\ "watchdog" \in Showers!Checkers
    BY DEF Showers!Checkers
  <2> QED
    BY <2>1, <2>2, ShowersBeginMoves
<1>3. ASSUME NEW c \in Showers!Checkers, Showers!Fail(c)
      PROVE  ShowersIInv'
  <2>1. showers_faults' \in 0 .. showers_MaxFaults
    BY <1>3, ShowersAssumption DEF Showers!Fail, ShowersIInv, Showers!TypeOK
  <2> QED
    BY <1>3, <2>1, ShowersAbortMoves DEF Showers!Fail
<1>4. CASE UNCHANGED showersVars
  BY <1>4
  DEF showersVars, ShowersIInv, Showers!TypeOK, ShowersOldBuildIsAlone, ShowersLocksHold,
      ShowersOwedIsUnclosed, Showers!OpenShowersAreOwed, Showers!Open,
      Showers!Unresolved
<1>5. CASE \/ \E duration, locked \in BOOLEAN,
              named \in SUBSET showers_Devices : Showers!Upgrade(duration, named, locked)
           \/ Showers!Downgrade
           \/ \E d \in showers_Devices : Showers!OldBuild(d)
  BY <1>5, ShowersBuildsMove
<1>6. CASE (\E d \in showers_Devices : Showers!Claim(d)) \/ Showers!Dispatch
             \/ Showers!Verified \/ Showers!Requeue \/ Showers!Lost \/ Showers!Crash
  BY <1>6, ShowersAttemptMoves
<1>7. CASE (\E d \in showers_Devices : Showers!Ask(d)) \/ Showers!Resolve
             \/ \E c \in Showers!Checkers : Showers!Victim(c)
  BY <1>7, ShowersHandMoves
<1>8. ASSUME NEW c \in Showers!Checkers,
             \/ \E d \in showers_Devices : Showers!TakeDevice(c, d)
             \/ \E warm \in BOOLEAN : Showers!TakeRow(c, warm)
             \/ Showers!Reschedule(c)
      PROVE  ShowersIInv'
  BY <1>8, ShowersCheckerMoves
<1>9. ASSUME NEW d \in showers_Devices, Showers!Expire(d) \/ Showers!RetryDue(d)
               \/ \E v \in {"on", "off", showers_None} : Showers!Reading(d, v)
      PROVE  ShowersIInv'
  BY <1>9, ShowersWorldMoves
<1> QED
  BY <1>1, <1>2, <1>3, <1>4, <1>5, <1>6, <1>7, <1>8, <1>9, ShowersCommitMoves DEF
     Showers!Next


\* The invariant of this service, whenever it is the one that acts.
LEMMA ShowersInvariant == EvidenceSpec => [](verdict = "showers" => ShowersIInv)
<1>1. EvidenceInit => (verdict = "showers" => ShowersIInv)
  BY ShowersInvariantInitially DEF EvidenceInit
<1>2. (verdict = "showers" => ShowersIInv) /\ [EvidenceNext]_verdictVars
        => (verdict = "showers" => ShowersIInv)'
  BY ShowersInvariantKept DEF EvidenceNext, verdictVars
<1> QED
  BY <1>1, <1>2, PTL DEF EvidenceSpec

-----------------------------------------------------------------------------
(***************************************************************************)
(* The space-heating gate of a device (HeatingGate).                       *)
(***************************************************************************)

\* The last stored status that was readable is the n-th; 0 if there was none.
GateLastReadable(n) ==
  /\ \A i \in (n + 1)..Len(gate_applied) : gate_applied[i].reading = gate_NoReading
  /\ n > 0 => gate_applied[n].reading # gate_NoReading

\* Of the decisive statuses of a configuration, one is the last.
GateLastDecides(b) == Gate!Decisive(b) # {}
  => \E i \in Gate!Decisive(b) : \A j \in Gate!Decisive(b) : j <= i

GateCountsFailures ==
  \E n \in 0..Len(gate_applied) : /\ GateLastReadable(n)
                                  /\ gate_gate # gate_NoRow
                                       => gate_gate.failures = Len(gate_applied) - n

GateIInv == /\ Gate!TypeOK
            /\ gate_gate = gate_NoRow => gate_applied = <<>>
            /\ \A b \in gate_Bases : GateLastDecides(b)
                 /\ Gate!Resolve(gate_gate, b) = Gate!Deserved(b)
            /\ GateCountsFailures

\* Only one status is the last that was readable.
LEMMA GateLastReadableIsOne ==
  ASSUME Gate!TypeOK, NEW n \in 0..Len(gate_applied), NEW m \in 0..Len(gate_applied),
         GateLastReadable(n), GateLastReadable(m)
  PROVE  n = m
<1>1. Len(gate_applied) \in Nat
  BY LenProperties DEF Gate!TypeOK
<1>2. ASSUME n < m PROVE FALSE
  <2>1. m \in (n + 1)..Len(gate_applied) /\ m > 0
    BY <1>1, <1>2
  <2> QED
    BY <2>1 DEF GateLastReadable
<1>3. ASSUME m < n PROVE FALSE
  <2>1. n \in (m + 1)..Len(gate_applied) /\ n > 0
    BY <1>1, <1>3
  <2> QED
    BY <2>1 DEF GateLastReadable
<1> QED
  BY <1>1, <1>2, <1>3

\* The invariant says that the gate is earned.
LEMMA GateEarnsGate == GateIInv => Gate!GateIsEarned
<1> SUFFICES ASSUME GateIInv, gate_gate # gate_NoRow
             PROVE  gate_gate.failures = Gate!TrailingFailures
  BY DEF GateIInv, Gate!GateIsEarned
<1>1. PICK n \in 0..Len(gate_applied) : GateLastReadable(n)
        /\ gate_gate.failures = Len(gate_applied) - n
  BY DEF GateIInv, GateCountsFailures
<1> DEFINE m == CHOOSE i \in 0..Len(gate_applied) : GateLastReadable(i)
<1>2. m \in 0..Len(gate_applied) /\ GateLastReadable(m)
  BY <1>1
<1>3. m = n
  BY <1>1, <1>2, GateLastReadableIsOne DEF GateIInv
<1>4. Gate!TrailingFailures = Len(gate_applied) - m
  BY DEF Gate!TrailingFailures, GateLastReadable
<1> QED
  BY <1>1, <1>3, <1>4

\* At first nothing is stored, and every configuration deserves UNKNOWN.
LEMMA GateInvariantInitially == ASSUME Gate!Init PROVE GateIInv
<1>1. Gate!Resting \in Gate!Holding
  BY DEF Gate!Resting, Gate!Holding, Gate!Readings
<1>2. Gate!TypeOK
  BY <1>1 DEF Gate!Init, Gate!TypeOK, Gate!Resting
<1>3. Len(gate_applied) = 0
  BY DEF Gate!Init
<1>4. \A b \in gate_Bases : Gate!Decisive(b) = {}
  BY <1>3 DEF Gate!Decisive, Gate!Since, Gate!Low, Gate!High
<1>5. GateCountsFailures
  <2>1. 0 \in 0..Len(gate_applied) /\ GateLastReadable(0)
    BY <1>3 DEF GateLastReadable
  <2> QED
    BY <2>1 DEF GateCountsFailures, Gate!Init
<1> QED
  BY <1>2, <1>4, <1>5 DEF GateIInv, Gate!Init, GateLastDecides, Gate!Resolve,
     Gate!Matches, Gate!Deserved

\* What a writer holds, and the configuration, are no evidence.
LEMMA GateHoldingMoves ==
  ASSUME GateIInv, UNCHANGED <<gate_gate, gate_applied>>, gate_base' \in gate_Bases,
         gate_writer' \in [gate_Writers -> Gate!Holding],
         \A w \in gate_Writers : gate_writer'[w].at = "locking"
           => gate_writer'[w].base \in gate_Bases
  PROVE  GateIInv'
<1>1. Gate!TypeOK'
  BY DEF GateIInv, Gate!TypeOK
<1>2. \A b \in gate_Bases : Gate!Decisive(b)' = Gate!Decisive(b)
  BY DEF Gate!Decisive, Gate!Since, Gate!Low, Gate!High
<1>3. \A b \in gate_Bases : Gate!Deserved(b)' = Gate!Deserved(b)
  BY <1>2 DEF Gate!Deserved, Gate!Low
<1>4. \A b \in gate_Bases : GateLastDecides(b)'
        /\ Gate!Resolve(gate_gate', b) = Gate!Deserved(b)'
  BY <1>2, <1>3 DEF GateIInv, GateLastDecides
<1>5. GateCountsFailures'
  BY DEF GateIInv, GateCountsFailures, GateLastReadable
<1> QED
  BY <1>1, <1>4, <1>5 DEF GateIInv

\* The pump and the configuration are read; a writer gives up.
LEMMA GateWritersMove ==
  ASSUME GateIInv, NEW w \in gate_Writers, Gate!Observe(w) \/ Gate!ReadConfig(w)
           \/ Gate!Abandon(w)
  PROVE  GateIInv'
<1>1. /\ gate_writer \in [gate_Writers -> Gate!Holding] /\ gate_base \in gate_Bases
      /\ \A v \in gate_Writers : gate_writer[v].at = "locking"
           => gate_writer[v].base \in gate_Bases
      /\ UNCHANGED <<gate_base, gate_gate, gate_applied>>
  BY DEF GateIInv, Gate!TypeOK, Gate!Observe, Gate!ReadConfig, Gate!Abandon
<1>2. CASE Gate!Observe(w)
  <2>1. PICK t \in Gate!Readings :
           gate_writer' = [gate_writer EXCEPT ![w] =
                             [at |-> "observed", reading |-> t, base |-> gate_NoRow]]
    BY <1>2 DEF Gate!Observe
  <2>2. [at |-> "observed", reading |-> t, base |-> gate_NoRow] \in Gate!Holding
    BY DEF Gate!Holding
  <2>3. /\ gate_writer' \in [gate_Writers -> Gate!Holding]
        /\ \A v \in gate_Writers : gate_writer'[v].at = "locking"
             => gate_writer'[v].base \in gate_Bases
    BY <1>1, <2>1, <2>2
  <2> QED
    BY <1>1, <2>3, GateHoldingMoves
<1>3. CASE Gate!ReadConfig(w)
  <2> DEFINE x == [gate_writer[w] EXCEPT !.at = "locking", !.base = gate_base]
  <2>1. x \in Gate!Holding /\ x.base = gate_base
    BY <1>1 DEF Gate!Holding
  <2>2. gate_writer' = [gate_writer EXCEPT ![w] = x]
    BY <1>1, <1>3 DEF Gate!ReadConfig, Gate!Holding
  <2> HIDE DEF x
  <2>3. /\ gate_writer' \in [gate_Writers -> Gate!Holding]
        /\ \A v \in gate_Writers : gate_writer'[v].at = "locking"
             => gate_writer'[v].base \in gate_Bases
    BY <1>1, <2>1, <2>2
  <2> QED
    BY <1>1, <2>3, GateHoldingMoves
<1>4. CASE Gate!Abandon(w)
  <2>1. gate_writer' = [gate_writer EXCEPT ![w] = Gate!Resting]
          /\ Gate!Resting \in Gate!Holding /\ Gate!Resting.at = "idle"
    BY <1>4 DEF Gate!Abandon, Gate!Resting, Gate!Holding, Gate!Readings
  <2>2. /\ gate_writer' \in [gate_Writers -> Gate!Holding]
        /\ \A v \in gate_Writers : gate_writer'[v].at = "locking"
             => gate_writer'[v].base \in gate_Bases
    BY <1>1, <2>1
  <2> QED
    BY <1>1, <2>2, GateHoldingMoves
<1> QED
  BY <1>2, <1>3, <1>4

\* A status is stored with the transition of the gate.
LEMMA GateIngestMoves ==
  ASSUME GateIInv, NEW w \in gate_Writers, Gate!Ingest(w)
  PROVE  GateIInv'
<1>0. PICK t \in Gate!Readings, b \in gate_Bases, n \in Nat :
           /\ gate_writer[w].reading = t /\ gate_writer[w].base = b /\ Len(gate_applied) = n
           /\ Gate!Resolve(gate_gate, b) \in {"UNKNOWN", "ALLOWED", "BLOCKED"}
  <2>1. gate_writer[w].reading \in Gate!Readings /\ gate_writer[w].base \in gate_Bases
          /\ Len(gate_applied) \in Nat
    BY LenProperties DEF GateIInv, Gate!TypeOK, Gate!Ingest, Gate!Holding
  <2>2. \A b \in gate_Bases : Gate!Resolve(gate_gate, b) \in {"UNKNOWN", "ALLOWED", "BLOCKED"}
    BY DEF GateIInv, Gate!TypeOK, Gate!Row, Gate!Resolve, Gate!Matches
  <2> QED
    BY <2>1, <2>2
<1> DEFINE state == Gate!Transition(Gate!Resolve(gate_gate, b), t, b)
           row == [base |-> b, state |-> state,
                   failures |-> IF t = gate_NoReading THEN Gate!Failures(gate_gate) + 1 ELSE 0,
                   last |-> t]
<1>1. /\ gate_gate' = row /\ gate_applied' = Append(gate_applied, [base |-> b, reading |-> t])
      /\ gate_writer' = [gate_writer EXCEPT ![w] = Gate!Resting] /\ gate_base' = gate_base
  BY <1>0 DEF Gate!Ingest
<1>2. /\ gate_applied \in Seq([base : gate_Bases, reading : Gate!Readings])
      /\ [base |-> b, reading |-> t] \in [base : gate_Bases, reading : Gate!Readings]
  BY <1>0, <1>1 DEF GateIInv, Gate!TypeOK
<1>3. /\ gate_applied' \in Seq([base : gate_Bases, reading : Gate!Readings])
           /\ Len(gate_applied') = n + 1
      /\ gate_applied'[n + 1] = [base |-> b, reading |-> t]
      /\ \A i \in 1..n : gate_applied'[i] = gate_applied[i]
  BY <1>0, <1>1, <1>2, AppendProperties
<1>4. state \in {"UNKNOWN", "ALLOWED", "BLOCKED"} /\ Gate!Failures(gate_gate) \in Nat
  BY <1>0 DEF GateIInv, Gate!TypeOK, Gate!Row, Gate!Transition, Gate!Failures
<1>5. row \in Gate!Row /\ row # gate_NoRow /\ row.base = b /\ row.state = state
      /\ row.failures = IF t = gate_NoReading THEN Gate!Failures(gate_gate) + 1 ELSE 0
  BY <1>0, <1>1, <1>4, GateAssumption DEF Gate!Row
<1>6. Gate!TypeOK'
  <2>1. Gate!Resting \in Gate!Holding /\ Gate!Resting.at = "idle"
    BY DEF Gate!Resting, Gate!Holding, Gate!Readings
  <2>2. /\ gate_writer' \in [gate_Writers -> Gate!Holding]
        /\ \A v \in gate_Writers : gate_writer'[v].at = "locking"
             => gate_writer'[v].base \in gate_Bases
    BY <1>0, <1>1, <2>1 DEF GateIInv, Gate!TypeOK
  <2> QED
    BY <1>0, <1>1, <1>3, <1>5, <2>2 DEF GateIInv, Gate!TypeOK
<1>7. GateCountsFailures'
  <2>1. PICK m \in 0..n : /\ GateLastReadable(m)
                          /\ gate_gate # gate_NoRow => gate_gate.failures = n - m
    BY <1>0 DEF GateIInv, GateCountsFailures
  <2>2. CASE t = gate_NoReading
    <3>1. m \in 0..Len(gate_applied') /\ GateLastReadable(m)'
      BY <1>0, <1>1, <1>3, <2>1, <2>2 DEF GateLastReadable
    <3>2. Gate!Failures(gate_gate) = n - m
      BY <1>0, <1>1, <2>1 DEF Gate!Failures, GateIInv
    <3>3. gate_gate'.failures = Len(gate_applied') - m
      BY <1>0, <1>1, <1>3, <1>5, <2>2, <3>2
    <3> QED
      BY <3>1, <3>3 DEF GateCountsFailures
  <2>3. CASE t # gate_NoReading
    <3>1. n + 1 \in 0..Len(gate_applied') /\ GateLastReadable(n + 1)'
      BY <1>0, <1>1, <1>3, <2>3 DEF GateLastReadable
    <3>2. gate_gate'.failures = Len(gate_applied') - (n + 1)
      BY <1>0, <1>1, <1>3, <1>5, <2>3
    <3> QED
      BY <3>1, <3>2 DEF GateCountsFailures
  <2> QED
    BY <2>2, <2>3
<1>8. ASSUME NEW c \in gate_Bases
      PROVE  GateLastDecides(c)' /\ Gate!Resolve(gate_gate', c) = Gate!Deserved(c)'
  <2>1. CASE c # b
    <3>1. Gate!Decisive(c)' = {}
      BY <1>0, <1>1, <1>3, <2>1 DEF Gate!Decisive, Gate!Since, Gate!Low, Gate!High
    <3>2. Gate!Resolve(gate_gate', c) = "UNKNOWN"
      BY <1>0, <1>1, <1>5, <2>1 DEF Gate!Resolve, Gate!Matches
    <3> QED
      BY <3>1, <3>2 DEF GateLastDecides, Gate!Deserved
  <2>2. CASE c = b /\ (Gate!Low(t, b) \/ Gate!High(t, b))
    <3>1. n + 1 \in Gate!Decisive(b)' /\ Gate!Decisive(b)' \subseteq 1..(n + 1)
      BY <1>0, <1>1, <1>3, <2>2 DEF Gate!Decisive, Gate!Since, Gate!Low, Gate!High
    <3>2. \A j \in Gate!Decisive(b)' : j <= n + 1
      BY <1>0, <1>1, <3>1
    <3>3. (CHOOSE i \in Gate!Decisive(b)' : \A j \in Gate!Decisive(b)' : j <= i) = n + 1
      <4> DEFINE k == CHOOSE i \in Gate!Decisive(b)' : \A j \in Gate!Decisive(b)' : j <= i
      <4>1. k \in Gate!Decisive(b)' /\ \A j \in Gate!Decisive(b)' : j <= k
        BY <3>1, <3>2
      <4>2. k <= n + 1 /\ n + 1 <= k /\ k \in Int
        BY <3>1, <3>2, <4>1
      <4> HIDE DEF k
      <4>3. k = n + 1
        BY <1>0, <1>1, <4>2
      <4> QED
        BY <4>3 DEF k
    <3>4. Gate!Deserved(b)' = IF Gate!Low(t, b) THEN "ALLOWED" ELSE "BLOCKED"
      BY <1>0, <1>3, <3>1, <3>3 DEF Gate!Deserved, Gate!Low
    <3>5. Gate!Resolve(gate_gate', b) = IF Gate!Low(t, b) THEN "ALLOWED" ELSE "BLOCKED"
      BY <1>0, <1>1, <1>5, <2>2 DEF Gate!Resolve, Gate!Matches, Gate!Transition
    <3> QED
      BY <2>2, <3>1, <3>2, <3>4, <3>5 DEF GateLastDecides
  <2>3. CASE c = b /\ ~(Gate!Low(t, b) \/ Gate!High(t, b))
    <3>1. \A i \in 1..n : i \in Gate!Since(b)' <=> i \in Gate!Since(b)
      BY <1>0, <1>1, <1>3 DEF Gate!Since
    <3>2. \A i \in Gate!Decisive(b)' : i \in 1..n
      BY <1>0, <1>1, <1>3, <2>3 DEF Gate!Decisive, Gate!Since, Gate!Low, Gate!High
    <3>3. \A i \in Gate!Decisive(b) : i \in 1..n
      BY <1>0, <1>1 DEF Gate!Decisive, Gate!Since, Gate!Low, Gate!High
    <3>4. \A i \in 1..n : i \in Gate!Decisive(b)' <=> i \in Gate!Decisive(b)
      BY <1>0, <1>3, <3>1 DEF Gate!Decisive, Gate!Low, Gate!High
    <3>5. Gate!Decisive(b)' = Gate!Decisive(b)
      BY <3>2, <3>3, <3>4
    <3>6. Gate!Deserved(b)' = Gate!Deserved(b)
      <4>1. CASE Gate!Decisive(b) = {}
        BY <3>5, <4>1 DEF Gate!Deserved, Gate!Low
      <4>2. CASE Gate!Decisive(b) # {}
        <5> DEFINE k == CHOOSE i \in Gate!Decisive(b) : \A j \in Gate!Decisive(b) : j <= i
        <5>1. k \in Gate!Decisive(b)
          BY <1>0, <1>1, <4>2 DEF GateIInv, GateLastDecides
        <5>2. gate_applied'[k] = gate_applied[k]
          BY <1>0, <1>3, <3>3, <5>1
        <5>3. Gate!Deserved(b) = IF Gate!Low(gate_applied[k].reading, b) THEN "ALLOWED"
                ELSE "BLOCKED"
          BY <4>2 DEF Gate!Deserved, Gate!Low
        <5>4. Gate!Deserved(b)' = IF Gate!Low(gate_applied'[k].reading, b) THEN "ALLOWED"
                ELSE "BLOCKED"
          BY <3>5, <4>2 DEF Gate!Deserved, Gate!Low
        <5> QED
          BY <5>2, <5>3, <5>4
      <4> QED
        BY <4>1, <4>2
    <3>7. Gate!Resolve(gate_gate', b) = Gate!Resolve(gate_gate, b)
      BY <1>0, <1>1, <1>5, <2>3 DEF Gate!Resolve, Gate!Matches, Gate!Transition
    <3>8. GateLastDecides(b) /\ Gate!Resolve(gate_gate, b) = Gate!Deserved(b)
      BY <1>0, <1>1 DEF GateIInv
    <3>9. GateLastDecides(b)'
      BY <3>5, <3>8 DEF GateLastDecides
    <3> QED
      BY <2>3, <3>6, <3>7, <3>8, <3>9
  <2> QED
    BY <2>1, <2>2, <2>3
<1>9. gate_gate' # gate_NoRow
  BY <1>0, <1>1, <1>5
<1> QED
  BY <1>6, <1>7, <1>8, <1>9 DEF GateIInv

\* Every step keeps the invariant.
LEMMA GateInvariantKept == GateIInv /\ [Gate!Next]_gateVars => GateIInv'
<1> SUFFICES ASSUME GateIInv, [Gate!Next]_gateVars PROVE GateIInv'
  OBVIOUS
<1>1. CASE UNCHANGED gateVars
  BY <1>1, GateHoldingMoves DEF gateVars, GateIInv, Gate!TypeOK
<1>2. CASE Gate!Configure
  BY <1>2, GateHoldingMoves DEF Gate!Configure, GateIInv, Gate!TypeOK
<1>3. CASE \E w \in gate_Writers : Gate!Observe(w) \/ Gate!ReadConfig(w) \/ Gate!Ingest(w)
             \/ Gate!Abandon(w)
  BY <1>3, GateWritersMove, GateIngestMoves
<1> QED
  BY <1>1, <1>2, <1>3 DEF Gate!Next


\* The invariant of this service, whenever it is the one that acts.
LEMMA GateInvariant == EvidenceSpec => [](verdict = "gate" => GateIInv)
<1>1. EvidenceInit => (verdict = "gate" => GateIInv)
  BY GateInvariantInitially DEF EvidenceInit
<1>2. (verdict = "gate" => GateIInv) /\ [EvidenceNext]_verdictVars
        => (verdict = "gate" => GateIInv)'
  BY GateInvariantKept DEF EvidenceNext, verdictVars
<1> QED
  BY <1>1, <1>2, PTL DEF EvidenceSpec

-----------------------------------------------------------------------------
(***************************************************************************)
(* The evidence of a frozen candidate and its qualification                *)
(* (ProspectiveEvidence).                                                  *)
(***************************************************************************)

\* A pair that could be built, and that nothing known in w disturbs.
ProofClean(w, i) == proof_issues[i].built /\ ~Proof!Tainted(w, i)

\* What a scan has passed, and what a page brings to it, in the world as it
\* was when the scan began.
ProofPassed == \A i \in 1..proof_scan.cursor : proof_outcome[i] = "valid"
  => ProofClean(proof_scan.began, i)
ProofPageIs ==
  proof_review.at = "commit" =>
    /\ ~proof_scan.complete
    /\ proof_scan.cursor + Len(proof_review.page) <= proof_scan.high
    /\ proof_review.ends => proof_scan.cursor + Len(proof_review.page) = proof_scan.high
    /\ \A k \in 1..Len(proof_review.page) :
         LET i == proof_scan.cursor + k IN
         /\ proof_review.page[k] = "valid"
              => ProofClean(proof_scan.began, i) /\ Proof!Target(i) <= proof_review.now
         /\ proof_review.page[k] = "pending" => Proof!Target(i) > proof_review.now

ProofScanIs == /\ proof_scan.cursor <= proof_scan.high /\ proof_scan.high <= Len(proof_issues)
               /\ proof_scan.complete => proof_scan.cursor = proof_scan.high

\* Nothing is issued ahead of the clock, and no pair is valid before its target.
ProofMatured ==
  /\ proof_review.at # "idle" => proof_review.now \in Nat /\ proof_review.now <= proof_now
  /\ \A i \in 1..Len(proof_issues) :
       /\ proof_issues[i].at <= proof_now
       /\ proof_outcome[i] = "valid" => /\ Proof!Target(i) <= proof_now
                                        /\ proof_review.at # "idle"
                                             => Proof!Target(i) <= proof_review.now

\* What was known as the scan began is still known.
ProofRemembers ==
  /\ proof_scan.began.overrides \subseteq proof_world.overrides
       /\ proof_scan.began.gaps \subseteq proof_world.gaps
  /\ \A k \in DOMAIN proof_scan.began.acts :
       /\ k \in DOMAIN proof_world.acts /\ proof_world.acts[k].at = proof_scan.began.acts[k].at
       /\ proof_scan.began.acts[k].proof = "sent" => proof_world.acts[k].proof = "sent"
  /\ \A k \in DOMAIN proof_scan.began.restore :
       /\ k \in DOMAIN proof_world.restore
            /\ proof_world.restore[k].from = proof_scan.began.restore[k].from
       /\ \/ proof_world.restore[k].to = proof_scan.began.restore[k].to
          \/ /\ proof_scan.began.restore[k].to = proof_None
             /\ \A i \in 1..proof_scan.high : proof_world.restore[k].to >= proof_issues[i].at

ProofDecided ==
  proof_decision # proof_None => \A i \in proof_decision.pairs : /\ i \in 1..Len(proof_issues)
                                                                 /\ proof_issues[i].at <= proof_decision.cutoff
                                                                 /\ Proof!Target(i) <= proof_decision.now
                                                                 /\ ~Proof!Tainted(proof_decision.began, i)

ProofIInv == Proof!TypeOK /\ ProofPassed /\ ProofPageIs /\ ProofScanIs /\ ProofMatured
  /\ ProofRemembers /\ ProofDecided

\* The invariant says that a qualification is earned.
LEMMA ProofEarnsQualification == ProofIInv => Proof!QualificationIsEarned
<1> SUFFICES ASSUME ProofIInv PROVE Proof!QualificationIsEarned
  OBVIOUS
<1>1. proof_scan.complete => \A i \in 1..proof_scan.high :
         proof_outcome[i] = "valid"
           => proof_issues[i].built /\ ~Proof!Tainted(proof_scan.began, i)
  BY DEF ProofIInv, ProofScanIs, ProofPassed, ProofClean
<1> QED
  BY <1>1 DEF ProofIInv, ProofDecided, Proof!QualificationIsEarned

\* At first there is no issue, and the pump has no past.
LEMMA ProofInvariantInitially == ASSUME Proof!Init PROVE ProofIInv
<1>1. proof_world \in Proof!World /\ <<>> \in Seq(Proof!Scores) /\ Len(proof_issues) = 0
  BY DEF Proof!Init, Proof!World
<1>2. Proof!TypeOK
  <2>1. proof_review \in Proof!Review
    BY <1>1, ProofAssumption DEF Proof!Init, Proof!Resting, Proof!Review
  <2>2. proof_issues \in Seq([at : Nat, built : BOOLEAN])
          /\ proof_outcome \in [1..Len(proof_issues) -> Proof!Scores]
    BY <1>1 DEF Proof!Init
  <2>3. proof_scan \in [end : Nat \cup {-1}, high : Nat, cursor : Nat, complete : BOOLEAN,
                        began : Proof!World]
    BY <1>1 DEF Proof!Init
  <2> QED
    BY <1>1, <2>1, <2>2, <2>3 DEF Proof!Init, Proof!TypeOK
<1>3. proof_scan.cursor = 0 /\ proof_scan.high = 0 /\ proof_scan.complete
        /\ proof_scan.began = proof_world /\ proof_review.at = "idle"
  BY DEF Proof!Init, Proof!Resting
<1> QED
  BY <1>1, <1>2, <1>3 DEF ProofIInv, ProofPassed, ProofPageIs, ProofScanIs, ProofMatured,
     ProofRemembers, ProofDecided, Proof!Init

\* A set of numbers that is not empty has a least one.
LEMMA ProofLeastIs ==
  ASSUME NEW S, S \subseteq Nat, S # {}
  PROVE  Proof!First(S) \in S /\ \A l \in S : Proof!First(S) <= l
<1>1. PICK x \in S : \A y \in S : ~(<<y, x>> \in OpToRel(<, Nat))
  BY NatLessThanWellFounded, WFMin
<1>2. \A y \in S : ~(y < x)
  BY <1>1 DEF OpToRel
<1>3. \E k \in S : \A l \in S : k <= l
  BY <1>2
<1> QED
  BY <1>3 DEF Proof!First

\* What was issued has a time, and a target.
LEMMA ProofIssueIs ==
  ASSUME Proof!TypeOK, NEW i \in 1..Len(proof_issues)
  PROVE  proof_issues[i].at \in Nat /\ proof_issues[i].built \in BOOLEAN
           /\ Proof!Target(i) \in Nat
<1>1. proof_issues \in Seq([at : Nat, built : BOOLEAN])
  BY DEF Proof!TypeOK
<1>2. proof_issues[i] \in [at : Nat, built : BOOLEAN]
  BY <1>1, ElementOfSeq
<1> QED
  BY <1>2, ProofAssumption DEF Proof!Target

\* A pair that is scored as valid has matured, and is clean.
LEMMA ProofValidIsClean ==
  ASSUME Proof!TypeOK, NEW i \in 1..Len(proof_issues), NEW clock, NEW found,
         Proof!Score(i, proof_world, clock, found) = "valid"
  PROVE  ProofClean(proof_world, i) /\ ~(Proof!Target(i) > clock)
<1>1. Proof!Exclusion(i, proof_world, found) = "valid" /\ ~(Proof!Target(i) > clock)
  BY DEF Proof!Score
<1>2. /\ proof_issues[i].built
      /\ ~\E t \in proof_world.overrides : Proof!Within(t, i)
      /\ ~Proof!RestoreStands(proof_world, i)
      /\ Proof!Telling(proof_world, i) = {}
      /\ ~\E t \in proof_world.gaps : Proof!Within(t, i)
  BY <1>1 DEF Proof!Exclusion
<1>3. ~\E k \in Proof!InReach(proof_world, i) : proof_world.acts[k].proof = "sent"
  BY <1>2 DEF Proof!Telling
<1> QED
  BY <1>1, <1>2, <1>3 DEF ProofClean, Proof!Tainted, Proof!RestoreStands

\* A pair that is scored as pending has not matured.
LEMMA ProofPendingIsOpen ==
  ASSUME NEW i, NEW w, NEW clock, NEW found, Proof!Score(i, w, clock, found) = "pending"
  PROVE  Proof!Target(i) > clock
BY DEF Proof!Score, Proof!Exclusion

\* Every pair has a score.
LEMMA ProofScoreIs ==
  ASSUME NEW i, NEW w, NEW clock, NEW found
  PROVE  Proof!Score(i, w, clock, found) \in Proof!Scores
BY DEF Proof!Score, Proof!Exclusion, Proof!Scores

\* What disturbed a pair as the scan began does so still.
LEMMA ProofCleanBefore ==
  ASSUME ProofIInv, NEW i \in 1..proof_scan.high, ProofClean(proof_world, i)
  PROVE  ProofClean(proof_scan.began, i)
<1>1. /\ Len(proof_issues) \in Nat /\ proof_scan.high \in Nat
           /\ proof_scan.high <= Len(proof_issues)
      /\ proof_issues \in Seq([at : Nat, built : BOOLEAN])
  BY LenProperties DEF ProofIInv, Proof!TypeOK, ProofScanIs
<1>2. ~\E k \in Proof!InReach(proof_scan.began, i) : proof_scan.began.acts[k].proof = "sent"
  BY DEF ProofClean, Proof!Tainted, Proof!InReach, ProofIInv, ProofRemembers
<1>3. ~\E t \in proof_scan.began.overrides \cup proof_scan.began.gaps : Proof!Within(t, i)
  BY DEF ProofClean, Proof!Tainted, ProofIInv, ProofRemembers
<1>4. ~\E k \in DOMAIN proof_scan.began.restore : Proof!Overlaps(proof_scan.began.restore[k], i)
  BY DEF ProofClean, Proof!Tainted, ProofIInv, ProofRemembers, Proof!Overlaps
<1> QED
  BY <1>2, <1>3, <1>4 DEF ProofClean, Proof!Tainted

\* What a review becomes.
LEMMA ProofReviewBecomes ==
  ASSUME NEW r \in Proof!Review,
         NEW at \in {"idle", "issue", "scan", "page", "commit", "look", "decide"},
         NEW k \in 0..proof_Looks
  PROVE  /\ [r EXCEPT !.at = at] \in Proof!Review /\ [r EXCEPT !.at = at].at = at
         /\ [r EXCEPT !.at = at].now = r.now
         /\ [r EXCEPT !.at = at, !.look = k] \in Proof!Review
              /\ [r EXCEPT !.at = at, !.look = k].at = at
         /\ [r EXCEPT !.at = at, !.look = k].now = r.now
BY DEF Proof!Review

\* Between two reviews only the clock of the last is kept.
LEMMA ProofRestingIs ==
  /\ Proof!Resting \in Proof!Review /\ Proof!Resting.at = "idle"
  /\ \A n \in Nat : /\ [Proof!Resting EXCEPT !.now = n] \in Proof!Review
                         /\ [Proof!Resting EXCEPT !.now = n].at = "idle"
                    /\ [Proof!Resting EXCEPT !.now = n].now = n
<1>1. <<>> \in Seq(Proof!Scores) /\ 0 \in 0..proof_Looks
  BY ProofAssumption
<1>2. Proof!Resting \in Proof!Review /\ Proof!Resting.at = "idle"
  BY <1>1 DEF Proof!Resting, Proof!Review
<1> QED
  BY <1>2 DEF Proof!Review

\* The review goes on, or ends, and takes no page.
LEMMA ProofReviewMoves ==
  ASSUME ProofIInv, UNCHANGED <<proof_now, proof_issues, proof_outcome, proof_world,
                                proof_scan>>,
         proof_collection' \in [last : Nat \cup {-1}, complete : BOOLEAN],
         proof_looks' \subseteq 1..proof_Looks,
         proof_bound' \in [events : Nat, crashes : Nat],
         proof_decision' \in [pairs : SUBSET Nat, now : Int, cutoff : Int, began : Proof!World]
           \cup {proof_None},
         ProofDecided', proof_review' \in Proof!Review, proof_review'.at # "commit",
         proof_review'.at # "idle" => /\ proof_review'.now \in Nat /\ proof_review'.now <= proof_now
                                      /\ proof_review.at # "idle"
                                           => proof_review'.now = proof_review.now
                                      /\ proof_review.at = "idle"
                                           => proof_review'.now = proof_now
  PROVE  ProofIInv'
<1>1. Proof!TypeOK'
  BY DEF ProofIInv, Proof!TypeOK
<1>2. ProofPassed' /\ ProofRemembers' /\ ProofScanIs'
  BY DEF ProofIInv, ProofPassed, ProofRemembers, ProofScanIs, ProofClean, Proof!Tainted,
     Proof!InReach, Proof!Within, Proof!Overlaps, Proof!Target
<1>3. ProofMatured'
  BY DEF ProofIInv, ProofMatured, Proof!Target
<1>4. ProofPageIs'
  BY DEF ProofPageIs
<1> QED
  BY <1>1, <1>2, <1>3, <1>4 DEF ProofIInv

\* A decision that stays, stays earned.
LEMMA ProofDecidedStays ==
  ASSUME ProofIInv, UNCHANGED proof_decision, Len(proof_issues') \in Nat,
         Len(proof_issues') >= Len(proof_issues),
         \A i \in 1..Len(proof_issues) : proof_issues'[i] = proof_issues[i]
  PROVE  ProofDecided'
<1>1. Len(proof_issues) \in Nat
  BY LenProperties DEF ProofIInv, Proof!TypeOK
<1> QED
  BY <1>1 DEF ProofIInv, ProofDecided, Proof!Tainted, Proof!InReach, Proof!Within,
     Proof!Overlaps, Proof!Target

\* A review starts, consumes a look, or dies.
LEMMA ProofReviewGoesOn ==
  ASSUME ProofIInv, Proof!Start \/ Proof!Look \/ Proof!Crash
  PROVE  ProofIInv'
<1>1. /\ UNCHANGED <<proof_now, proof_issues, proof_outcome, proof_world, proof_scan,
                     proof_collection, proof_decision>>
      /\ proof_now \in Nat /\ proof_review \in Proof!Review /\ Len(proof_issues) \in Nat
           /\ Proof!TypeOK
  BY LenProperties DEF ProofIInv, Proof!TypeOK, Proof!Start, Proof!Look, Proof!Crash
<1>2. ProofDecided'
  BY <1>1, ProofDecidedStays
<1>3. Proof!Resting \in Proof!Review /\ Proof!Resting.at = "idle"
  BY ProofRestingIs
<1>4. CASE Proof!Start
  <2> DEFINE x == [Proof!Resting EXCEPT !.now = proof_now,
                                        !.at = IF proof_collection.last = proof_now THEN "scan"
                                          ELSE "issue"]
  <2>1. x \in Proof!Review /\ x.now = proof_now /\ x.at \in {"scan", "issue"}
    BY <1>1, <1>3, ProofAssumption DEF Proof!Review, Proof!Resting
  <2>2. proof_review' = x /\ proof_review.at = "idle" /\ UNCHANGED <<proof_looks, proof_bound>>
    BY <1>4 DEF Proof!Start
  <2> HIDE DEF x
  <2> QED
    BY <1>1, <1>2, <2>1, <2>2, ProofReviewMoves DEF Proof!TypeOK
<1>5. CASE Proof!Look
  <2>1. proof_review.at = "look" /\ UNCHANGED proof_bound
    BY <1>5 DEF Proof!Look
  <2>2. CASE Proof!Due = {}
    <3> DEFINE x == [Proof!Resting EXCEPT !.now = proof_review.now]
    <3>1. x \in Proof!Review /\ x.at = "idle"
      BY <2>1, ProofRestingIs DEF ProofIInv, ProofMatured
    <3>2. proof_review' = x /\ UNCHANGED proof_looks
      BY <1>5, <2>2 DEF Proof!Look
    <3> HIDE DEF x
    <3> QED
      BY <1>1, <1>2, <2>1, <3>1, <3>2, ProofReviewMoves DEF Proof!TypeOK
  <2>3. CASE Proof!Due # {}
    <3>1. Proof!First(Proof!Due) \in 1..proof_Looks
      <4>1. Proof!Due \subseteq 1..proof_Looks /\ Proof!Due \subseteq Nat
        BY ProofAssumption DEF Proof!Due
      <4> QED
        BY <2>3, <4>1, ProofLeastIs
    <3>2. PICK k \in 0..proof_Looks : k = Proof!First(Proof!Due)
      BY <3>1
    <3>5. /\ [proof_review EXCEPT !.at = "decide", !.look = k] \in Proof!Review
          /\ [proof_review EXCEPT !.at = "decide", !.look = k].at = "decide"
          /\ [proof_review EXCEPT !.at = "decide", !.look = k].now = proof_review.now
      <4>1. proof_review \in Proof!Review
        BY <1>1
      <4> QED
        BY <4>1 DEF Proof!Review
    <3>3. /\ proof_review' = [proof_review EXCEPT !.at = "decide", !.look = k]
          /\ proof_looks' = proof_looks \cup {Proof!First(Proof!Due)}
      BY <1>5, <2>3, <3>2 DEF Proof!Look
    <3>4. proof_review.now \in Nat /\ proof_review.now <= proof_now
      BY <2>1 DEF ProofIInv, ProofMatured
    <3> QED
      BY <1>1, <1>2, <2>1, <3>1, <3>3, <3>4, <3>5, ProofReviewMoves DEF Proof!TypeOK
  <2> QED
    BY <2>2, <2>3
<1>6. CASE Proof!Crash
  <2>1. proof_review' = Proof!Resting
          /\ proof_bound' = [proof_bound EXCEPT !.crashes = proof_bound.crashes + 1]
          /\ UNCHANGED proof_looks
    BY <1>6 DEF Proof!Crash
  <2>2. proof_bound' \in [events : Nat, crashes : Nat]
    BY <1>1, <2>1 DEF Proof!TypeOK
  <2> QED
    BY <1>1, <1>2, <1>3, <2>1, <2>2, ProofReviewMoves DEF Proof!TypeOK
<1> QED
  BY <1>4, <1>5, <1>6

\* A qualification rests on pairs that the complete scan has passed.
LEMMA ProofDecides ==
  ASSUME ProofIInv, Proof!Decide
  PROVE  ProofIInv'
<1>1. /\ UNCHANGED <<proof_now, proof_issues, proof_outcome, proof_world, proof_collection,
                     proof_scan, proof_looks, proof_bound>>
      /\ proof_review' = [Proof!Resting EXCEPT !.now = proof_review.now]
      /\ proof_review \in Proof!Review /\ Len(proof_issues) \in Nat /\ Proof!TypeOK
           /\ proof_scan.high \in Nat
      /\ proof_scan.high <= Len(proof_issues)
  BY LenProperties DEF ProofIInv, Proof!TypeOK, ProofScanIs, Proof!Decide
<1>2. proof_review' \in Proof!Review /\ proof_review'.at = "idle"
  BY <1>1, ProofRestingIs DEF ProofIInv, ProofMatured, Proof!Decide
<1>3. CASE UNCHANGED proof_decision
  <2>1. ProofDecided'
    BY <1>1, <1>3, ProofDecidedStays
  <2> QED
    BY <1>1, <1>2, <1>3, <2>1, ProofReviewMoves DEF Proof!TypeOK
<1>4. CASE /\ proof_scan.complete
           /\ proof_decision' = [pairs |-> Proof!Counted, now |-> proof_review.now,
                                 cutoff |-> Proof!Cutoff,
                                 began |-> proof_scan.began]
  <2>1. Proof!Counted \subseteq 1..proof_scan.high /\ Proof!Counted \subseteq Nat
    <3>1. Proof!Counted \subseteq Proof!Window
      BY Zenon DEF Proof!Counted
    <3>2. Proof!Window \subseteq 1..proof_scan.high
      BY Zenon DEF Proof!Window
    <3>3. 1..proof_scan.high \subseteq Nat
      BY <1>1
    <3> QED
      BY <3>1, <3>2, <3>3, Zenon
  <2>2. Proof!Cutoff \in Int /\ proof_review.now \in Int
    <3>1. proof_review.now \in Int /\ proof_review.look \in Int
      BY <1>1, ProofAssumption DEF Proof!Review
    <3> QED
      BY <3>1, ProofAssumption DEF Proof!Cutoff, Proof!Offset
  <2>3. proof_decision' \in [pairs : SUBSET Nat, now : Int, cutoff : Int, began : Proof!World]
          \cup {proof_None}
    BY <1>1, <1>4, <2>1, <2>2 DEF Proof!TypeOK
  <2>4. \A i \in Proof!Counted : /\ i \in 1..Len(proof_issues)
                                      /\ proof_issues[i].at <= Proof!Cutoff
                                 /\ Proof!Target(i) <= proof_review.now
                                      /\ ~Proof!Tainted(proof_scan.began, i)
    <3>1. \A i \in Proof!Counted : proof_outcome[i] = "valid" /\ i \in 1..proof_scan.cursor
      BY <1>4, <2>1 DEF ProofIInv, ProofScanIs, Proof!Counted
    <3> QED
      BY <1>1, <2>1, <3>1 DEF ProofIInv, ProofPassed, ProofClean, Proof!Counted,
         Proof!Window
  <2>5. ProofDecided'
    BY <1>1, <1>4, <2>4 DEF ProofDecided, Proof!Tainted, Proof!InReach, Proof!Within,
       Proof!Overlaps, Proof!Target
  <2> QED
    BY <1>1, <1>2, <2>3, <2>5, ProofReviewMoves DEF Proof!TypeOK
<1> QED
  BY <1>3, <1>4 DEF Proof!Decide, Proof!Covered

\* A pair is issued: it is pending.
LEMMA ProofIssues ==
  ASSUME ProofIInv, Proof!IssuePair
  PROVE  ProofIInv'
<1> USE DEF Proof!Target
<1>1. PICK n \in Nat, at \in Nat, built \in BOOLEAN :
         /\ Len(proof_issues) = n /\ proof_review.now = at /\ at <= proof_now
         /\ proof_issues' = Append(proof_issues, [at |-> at, built |-> built])
         /\ proof_outcome' = Append(proof_outcome, "pending")
         /\ proof_collection' = [last |-> at, complete |-> at <= proof_collection.last + 1]
         /\ proof_review' = [proof_review EXCEPT !.at = "scan"] /\ proof_review.at = "issue"
         /\ UNCHANGED <<proof_now, proof_world, proof_scan, proof_looks, proof_decision,
                        proof_bound>>
  BY LenProperties DEF ProofIInv, Proof!TypeOK, ProofMatured, Proof!IssuePair,
     Proof!Trajectories
<1>2. /\ proof_issues \in Seq([at : Nat, built : BOOLEAN])
      /\ [at |-> at, built |-> built] \in [at : Nat, built : BOOLEAN]
      /\ proof_outcome \in [1..n -> Proof!Scores] /\ Proof!TypeOK
  BY <1>1 DEF ProofIInv, Proof!TypeOK
<1>3. /\ proof_issues' \in Seq([at : Nat, built : BOOLEAN]) /\ Len(proof_issues') = n + 1
      /\ proof_issues'[n + 1] = [at |-> at, built |-> built]
      /\ \A i \in 1..n : proof_issues'[i] = proof_issues[i]
  BY <1>1, <1>2, AppendProperties
<1>4. /\ proof_outcome' \in [1..(n + 1) -> Proof!Scores] /\ proof_outcome'[n + 1] = "pending"
      /\ \A i \in 1..n : proof_outcome'[i] = proof_outcome[i]
  <2>1. proof_outcome \in Seq(Proof!Scores) /\ "pending" \in Proof!Scores
    BY <1>2, SeqDef DEF Proof!Scores
  <2>2. Len(proof_outcome) = n
    BY <1>2, <2>1, LenProperties
  <2>3. proof_outcome' \in Seq(Proof!Scores) /\ Len(proof_outcome') = n + 1
          /\ proof_outcome'[n + 1] = "pending"
        /\ \A i \in 1..n : proof_outcome'[i] = proof_outcome[i]
    BY <1>1, <2>1, <2>2, AppendProperties
  <2> QED
    BY <2>3, LenProperties, ElementOfSeq
<1>5. proof_review' \in Proof!Review /\ proof_review'.at = "scan" /\ proof_review'.now = at
  <2>1. proof_review \in Proof!Review /\ 0 \in 0..proof_Looks
    BY <1>2, ProofAssumption DEF Proof!TypeOK
  <2>2. /\ [proof_review EXCEPT !.at = "scan"] \in Proof!Review
             /\ [proof_review EXCEPT !.at = "scan"].at = "scan"
        /\ [proof_review EXCEPT !.at = "scan"].now = proof_review.now
    BY <2>1, ProofReviewBecomes
  <2> QED
    BY <1>1, <2>2
<1>6. Proof!TypeOK'
  <2>1. proof_collection' \in [last : Nat \cup {-1}, complete : BOOLEAN]
    BY <1>1
  <2> QED
    BY <1>1, <1>2, <1>3, <1>4, <1>5, <2>1 DEF Proof!TypeOK
<1>7. \A i \in 1..n : ProofClean(proof_scan.began, i)' <=> ProofClean(proof_scan.began, i)
  BY <1>1, <1>3 DEF ProofClean, Proof!Tainted, Proof!InReach, Proof!Within, Proof!Overlaps
<1>8. proof_scan.cursor \in Nat /\ proof_scan.high \in Nat /\ proof_scan.cursor <= n
        /\ proof_scan.high <= n
  BY <1>1, <1>2 DEF ProofIInv, Proof!TypeOK, ProofScanIs
<1>9. ProofPassed' /\ ProofScanIs' /\ ProofPageIs'
  BY <1>1, <1>3, <1>4, <1>5, <1>7, <1>8 DEF ProofIInv, ProofPassed, ProofScanIs, ProofPageIs
<1>10. ProofRemembers'
  BY <1>1, <1>3, <1>8 DEF ProofIInv, ProofRemembers
<1>11. ProofMatured'
  <2> SUFFICES ASSUME NEW i \in 1..(n + 1)
               PROVE  /\ proof_issues'[i].at <= proof_now
                      /\ proof_outcome'[i] = "valid"
                           => Proof!Target(i)' <= proof_now /\ Proof!Target(i)' <= at
    BY <1>1, <1>3, <1>5 DEF ProofMatured
  <2>1. CASE i = n + 1
    BY <1>1, <1>3, <1>4, <2>1
  <2>2. CASE i \in 1..n
    BY <1>1, <1>3, <1>4, <2>2 DEF ProofIInv, ProofMatured
  <2> QED
    BY <2>1, <2>2
<1>12. ProofDecided'
  BY <1>1, <1>3, ProofDecidedStays
<1> QED
  BY <1>6, <1>9, <1>10, <1>11, <1>12 DEF ProofIInv

\* A scan begins: it has passed nothing, and remembers the world as it is.
LEMMA ProofScanBegins ==
  ASSUME ProofIInv, Proof!BeginScan
  PROVE  ProofIInv'
<1>1. /\ UNCHANGED <<proof_now, proof_issues, proof_outcome, proof_world, proof_collection,
                     proof_looks, proof_decision, proof_bound>>
      /\ proof_review.at = "scan" /\ proof_review' = [proof_review EXCEPT !.at = "page"]
      /\ proof_review \in Proof!Review /\ Proof!TypeOK /\ Len(proof_issues) \in Nat
      /\ proof_review.now \in Nat /\ proof_review.now <= proof_now
  BY LenProperties DEF ProofIInv, Proof!TypeOK, Proof!BeginScan, ProofMatured
<1>2. proof_review' \in Proof!Review /\ proof_review'.at = "page"
        /\ proof_review'.now = proof_review.now
  <2>1. 0 \in 0..proof_Looks
    BY ProofAssumption
  <2>2. /\ [proof_review EXCEPT !.at = "page"] \in Proof!Review
             /\ [proof_review EXCEPT !.at = "page"].at = "page"
        /\ [proof_review EXCEPT !.at = "page"].now = proof_review.now
    BY <1>1, <2>1, ProofReviewBecomes
  <2> QED
    BY <1>1, <2>2
<1>3. ProofDecided'
  BY <1>1, ProofDecidedStays
<1>4. CASE proof_scan' = proof_scan
  BY <1>1, <1>2, <1>3, <1>4, ProofReviewMoves DEF Proof!TypeOK
<1>5. CASE proof_scan' = [end |-> proof_review.now, high |-> Len(proof_issues), cursor |-> 0,
                          complete |-> FALSE,
                          began |-> proof_world]
  <2>1. proof_scan' \in [end : Nat \cup {-1}, high : Nat, cursor : Nat, complete : BOOLEAN,
                         began : Proof!World]
    BY <1>1, <1>5 DEF Proof!TypeOK
  <2>2. Proof!TypeOK'
    BY <1>1, <1>2, <2>1 DEF Proof!TypeOK
  <2>3. ProofPassed' /\ ProofScanIs' /\ ProofPageIs' /\ ProofRemembers'
    BY <1>1, <1>2, <1>5 DEF ProofPassed, ProofScanIs, ProofPageIs, ProofRemembers
  <2>4. ProofMatured'
    BY <1>1, <1>2 DEF ProofIInv, ProofMatured, Proof!Target
  <2> QED
    BY <1>3, <2>2, <2>3, <2>4 DEF ProofIInv
<1> QED
  BY <1>4, <1>5 DEF Proof!BeginScan

\* A page is read: what it says is valid is clean, as the scan began too.
LEMMA ProofPageIsRead ==
  ASSUME ProofIInv, Proof!ReadPage
  PROVE  ProofIInv'
<1> DEFINE size == IF proof_scan.high - proof_scan.cursor < proof_PageSize
      THEN proof_scan.high - proof_scan.cursor ELSE proof_PageSize
<1>1. PICK found \in BOOLEAN :
         /\ proof_review' = [proof_review EXCEPT !.at = "commit",
                                                 !.ends = size < proof_PageSize,
               !.page = [k \in 1..size |->
                           Proof!Score(proof_scan.cursor + k, proof_world, proof_review.now,
                                       found)]]
         /\ proof_bound' = IF found THEN proof_bound
              ELSE [proof_bound EXCEPT !.events = proof_bound.events + 1]
  BY DEF Proof!ReadPage
<1>2. /\ UNCHANGED <<proof_now, proof_issues, proof_outcome, proof_world, proof_collection,
                     proof_scan, proof_looks, proof_decision>>
      /\ proof_review.at = "page" /\ ~proof_scan.complete /\ proof_review \in Proof!Review
           /\ Proof!TypeOK
      /\ Len(proof_issues) \in Nat /\ proof_scan.cursor \in Nat /\ proof_scan.high \in Nat
      /\ proof_scan.cursor <= proof_scan.high /\ proof_scan.high <= Len(proof_issues)
      /\ proof_review.now \in Nat /\ proof_review.now <= proof_now
  BY LenProperties DEF ProofIInv, Proof!TypeOK, Proof!ReadPage, ProofScanIs, ProofMatured
<1>3. size \in Nat /\ proof_scan.cursor + size <= proof_scan.high
      /\ (size < proof_PageSize => proof_scan.cursor + size = proof_scan.high)
  BY <1>2, ProofAssumption
<1> DEFINE page == [k \in 1..size |->
                      Proof!Score(proof_scan.cursor + k, proof_world, proof_review.now, found)]
<1>4. page \in Seq(Proof!Scores) /\ Len(page) = size
  <2> HIDE DEF size
  <2>1. page \in [1..size -> Proof!Scores]
    BY ProofScoreIs
  <2>2. page \in Seq(Proof!Scores)
    BY <1>3, <2>1, SeqDef
  <2>3. DOMAIN page = 1..Len(page) /\ DOMAIN page = 1..size /\ Len(page) \in Nat
    BY <2>2, LenProperties
  <2> HIDE DEF page
  <2>4. \A m, n \in Nat : 1..m = 1..n => m = n
    <3>1. \A m, n \in Nat : m > n => m \in 1..m /\ m \notin 1..n
      OBVIOUS
    <3>2. \A m, n \in Nat : m = n \/ m > n \/ n > m
      OBVIOUS
    <3> QED
      BY <3>1, <3>2
  <2> QED
    BY <1>3, <2>2, <2>3, <2>4
<1>5. ASSUME NEW k \in 1..size
      PROVE  LET i == proof_scan.cursor + k IN
             /\ page[k] = "valid" => ProofClean(proof_scan.began, i)
                  /\ Proof!Target(i) <= proof_review.now
             /\ page[k] = "pending" => Proof!Target(i) > proof_review.now
  <2> HIDE DEF size
  <2>1. PICK i \in 1..proof_scan.high : i = proof_scan.cursor + k
    BY <1>2, <1>3
  <2>2. page[k] = Proof!Score(i, proof_world, proof_review.now, found)
    BY <2>1
  <2>3. i \in 1..Len(proof_issues) /\ Proof!Target(i) \in Nat
    <3>1. i \in 1..Len(proof_issues)
      BY <1>2
    <3> QED
      BY <1>2, <3>1, ProofIssueIs
  <2>4. page[k] = "valid" => ProofClean(proof_scan.began, i)
          /\ Proof!Target(i) <= proof_review.now
    BY <1>2, <2>2, <2>3, ProofValidIsClean, ProofCleanBefore
  <2>5. page[k] = "pending" => Proof!Target(i) > proof_review.now
    BY <2>2, ProofPendingIsOpen
  <2> QED
    BY <2>1, <2>4, <2>5
<1>6. PICK ends \in BOOLEAN : ends = (size < proof_PageSize)
  <2>1. (size < proof_PageSize) \in BOOLEAN
    OBVIOUS
  <2> QED
    BY <2>1, Zenon
<1> HIDE DEF size, page
<1>7. /\ proof_review' \in Proof!Review /\ proof_review'.at = "commit"
           /\ proof_review'.now = proof_review.now
      /\ proof_review'.page = page /\ proof_review'.ends = ends
  <2>1. proof_review' = [proof_review EXCEPT !.at = "commit", !.ends = ends, !.page = page]
    BY <1>1, <1>6 DEF page
  <2> QED
    BY <1>2, <1>4, <2>1 DEF Proof!Review
<1>8. Proof!TypeOK'
  <2>1. proof_bound' \in [events : Nat, crashes : Nat]
    <3>1. proof_bound \in [events : Nat, crashes : Nat]
      BY <1>2 DEF Proof!TypeOK
    <3>2. proof_bound' = proof_bound
            \/ proof_bound' = [proof_bound EXCEPT !.events = proof_bound.events + 1]
      BY <1>1
    <3> QED
      BY <3>1, <3>2
  <2> QED
    BY <1>2, <1>7, <2>1 DEF Proof!TypeOK
<1>9. ProofPageIs'
  <2>1. \A k \in 1..size :
          /\ page[k] = "valid" => ProofClean(proof_scan.began, proof_scan.cursor + k)'
                                  /\ Proof!Target(proof_scan.cursor + k)' <= proof_review.now
          /\ page[k] = "pending" => Proof!Target(proof_scan.cursor + k)' > proof_review.now
    BY <1>2, <1>5 DEF ProofClean, Proof!Tainted, Proof!InReach, Proof!Within,
       Proof!Overlaps, Proof!Target
  <2> QED
    BY <1>2, <1>3, <1>4, <1>6, <1>7, <2>1 DEF ProofPageIs
<1>10. ProofPassed' /\ ProofScanIs' /\ ProofRemembers'
  BY <1>2 DEF ProofIInv, ProofPassed, ProofScanIs, ProofRemembers, ProofClean,
     Proof!Tainted, Proof!InReach, Proof!Within, Proof!Overlaps, Proof!Target
<1>11. ProofMatured'
  BY <1>2, <1>7 DEF ProofIInv, ProofMatured, Proof!Target
<1>12. ProofDecided'
  BY <1>2, ProofDecidedStays
<1> QED
  BY <1>8, <1>9, <1>10, <1>11, <1>12 DEF ProofIInv

\* The page is committed: a pair that was valid stays so only if it is clean.
LEMMA ProofPageIsCommitted ==
  ASSUME ProofIInv, Proof!CommitPage
  PROVE  ProofIInv'
<1> DEFINE page == proof_review.page
           size == Len(page)
<1>1. /\ proof_outcome' = [i \in DOMAIN proof_outcome |->
                             IF i - proof_scan.cursor \in DOMAIN page
                             THEN Proof!Upsert(proof_outcome[i], page[i - proof_scan.cursor])
                               ELSE proof_outcome[i]]
      /\ proof_scan' = [proof_scan EXCEPT !.cursor = IF proof_review.ends THEN proof_scan.high
                          ELSE proof_scan.cursor + size,
                                          !.complete = proof_review.ends]
      /\ proof_review' = [proof_review EXCEPT !.at = IF proof_review.ends THEN "look"
                            ELSE "page",
                                              !.page = <<>>, !.ends = FALSE]
      /\ UNCHANGED <<proof_now, proof_issues, proof_world, proof_collection, proof_looks,
                     proof_decision, proof_bound>>
      /\ proof_review.at = "commit"
  BY DEF Proof!CommitPage
<1>2. /\ proof_review \in Proof!Review /\ Proof!TypeOK /\ Len(proof_issues) \in Nat
           /\ proof_scan.cursor \in Nat
      /\ proof_scan.high \in Nat /\ proof_scan.cursor <= proof_scan.high
           /\ proof_scan.high <= Len(proof_issues)
      /\ proof_review.now \in Nat /\ proof_review.now <= proof_now
           /\ proof_outcome \in [1..Len(proof_issues) -> Proof!Scores]
      /\ proof_scan \in [end : Nat \cup {-1}, high : Nat, cursor : Nat, complete : BOOLEAN,
                         began : Proof!World]
  BY <1>1, LenProperties DEF ProofIInv, Proof!TypeOK, ProofScanIs, ProofMatured
<1>3. page \in Seq(Proof!Scores) /\ size \in Nat /\ DOMAIN page = 1..size
      /\ \A k \in 1..size : page[k] \in Proof!Scores
  <2>1. page \in Seq(Proof!Scores)
    BY <1>2 DEF Proof!Review
  <2> HIDE DEF page
  <2> QED
    BY <2>1, LenProperties, ElementOfSeq
<1>4. /\ proof_scan.cursor + size <= proof_scan.high
      /\ proof_review.ends => proof_scan.cursor + size = proof_scan.high
      /\ \A k \in 1..size :
           LET i == proof_scan.cursor + k IN
           /\ page[k] = "valid" => ProofClean(proof_scan.began, i)
                /\ Proof!Target(i) <= proof_review.now
           /\ page[k] = "pending" => Proof!Target(i) > proof_review.now
  BY <1>1 DEF ProofIInv, ProofPageIs
<1>5. proof_scan'.cursor = proof_scan.cursor + size
      /\ UNCHANGED <<proof_scan.high, proof_scan.end, proof_scan.began>>
           /\ proof_scan'.complete = proof_review.ends
      /\ proof_scan' \in [end : Nat \cup {-1}, high : Nat, cursor : Nat, complete : BOOLEAN,
                          began : Proof!World]
  <2>1. proof_review.ends \in BOOLEAN
    BY <1>2 DEF Proof!Review
  <2>2. (IF proof_review.ends THEN proof_scan.high ELSE proof_scan.cursor + size) =
          proof_scan.cursor + size
    BY <1>2, <1>3, <1>4
  <2>3. proof_scan.cursor + size \in Nat
    BY <1>2, <1>3
  <2> HIDE DEF size
  <2> QED
    BY <1>1, <1>2, <2>1, <2>2, <2>3
<1>6. /\ proof_review' \in Proof!Review /\ proof_review'.at \in {"look", "page"}
           /\ proof_review'.now = proof_review.now
  <2>1. <<>> \in Seq(Proof!Scores)
    OBVIOUS
  <2> QED
    BY <1>1, <1>2, <2>1 DEF Proof!Review
<1>7. ASSUME NEW i \in 1..Len(proof_issues)
      PROVE  /\ proof_outcome'[i] \in Proof!Scores
             /\ i \notin (proof_scan.cursor + 1)..(proof_scan.cursor + size)
                  => proof_outcome'[i] = proof_outcome[i]
             /\ i \in (proof_scan.cursor + 1)..(proof_scan.cursor + size)
                  /\ proof_outcome'[i] = "valid"
                  => ProofClean(proof_scan.began, i)
             /\ proof_outcome'[i] = "valid" => Proof!Target(i) <= proof_review.now
  <2> HIDE DEF page, size
  <2>1. proof_outcome[i] \in Proof!Scores
          /\ (proof_outcome[i] = "valid" => Proof!Target(i) <= proof_review.now)
        /\ Proof!Target(i) \in Nat
    BY <1>1, <1>2, ProofIssueIs DEF ProofIInv, ProofMatured
  <2>2. CASE i - proof_scan.cursor \in 1..size
    <3>1. PICK k \in 1..size : k = i - proof_scan.cursor
      BY <2>2
    <3>2. i = proof_scan.cursor + k
            /\ proof_outcome'[i] = Proof!Upsert(proof_outcome[i], page[k])
      BY <1>1, <1>2, <1>3, <3>1
    <3>3. page[k] \in Proof!Scores
            /\ (page[k] = "valid" => ProofClean(proof_scan.began, i)
            /\ Proof!Target(i) <= proof_review.now)
          /\ (page[k] = "pending" => Proof!Target(i) > proof_review.now)
      BY <1>3, <1>4, <3>2
    <3>4. proof_outcome'[i] \in {page[k], proof_outcome[i]}
          /\ (proof_outcome'[i] = "valid" => page[k] \in {"valid", "pending"})
      BY <2>1, <3>2, <3>3 DEF Proof!Upsert, Proof!Scores
    <3>5. proof_outcome'[i] = "valid" => page[k] = "valid"
      BY <1>2, <2>1, <3>3, <3>4
    <3>6. i \in (proof_scan.cursor + 1)..(proof_scan.cursor + size)
      BY <1>2, <1>3, <3>1
    <3> QED
      BY <2>1, <3>3, <3>4, <3>5, <3>6
  <2>3. CASE i - proof_scan.cursor \notin 1..size
    <3>1. proof_outcome'[i] = proof_outcome[i]
      BY <1>1, <1>2, <1>3, <2>3
    <3>2. i \notin (proof_scan.cursor + 1)..(proof_scan.cursor + size)
      BY <1>2, <1>3, <2>3
    <3> QED
      BY <2>1, <3>1, <3>2
  <2> QED
    BY <2>2, <2>3
<1>8. Proof!TypeOK'
  <2>1. proof_outcome' \in [1..Len(proof_issues') -> Proof!Scores]
    BY <1>1, <1>2, <1>7
  <2> QED
    BY <1>1, <1>2, <1>5, <1>6, <2>1 DEF Proof!TypeOK
<1>9. ProofPassed'
  <2>4. PICK n \in Nat : n = proof_scan.cursor + size
    BY <1>2, <1>3
  <2>5. \A i : ProofClean(proof_scan.began, i)' <=> ProofClean(proof_scan.began, i)
    BY <1>1, <1>5 DEF ProofClean, Proof!Tainted, Proof!InReach, Proof!Within,
       Proof!Overlaps, Proof!Target
  <2> HIDE DEF page, size
  <2>6. proof_scan'.cursor = n
    BY <1>5, <2>4
  <2> SUFFICES ASSUME NEW i \in 1..n, proof_outcome'[i] = "valid"
               PROVE  ProofClean(proof_scan.began, i)
    BY <2>5, <2>6 DEF ProofPassed
  <2>1. i \in 1..Len(proof_issues)
    BY <1>2, <1>3, <1>4, <2>4
  <2>2. CASE i \in 1..proof_scan.cursor
    <3>1. proof_outcome[i] = "valid"
      BY <1>2, <1>3, <1>7, <2>1, <2>2
    <3> QED
      BY <2>2, <3>1 DEF ProofIInv, ProofPassed
  <2>3. CASE i \notin 1..proof_scan.cursor
    <3>1. i \in (proof_scan.cursor + 1)..(proof_scan.cursor + size)
      BY <1>2, <1>3, <2>3, <2>4
    <3> QED
      BY <1>7, <2>1, <3>1
  <2> QED
    BY <2>2, <2>3
<1>10. ProofScanIs' /\ ProofPageIs' /\ ProofRemembers'
  BY <1>1, <1>2, <1>3, <1>4, <1>5, <1>6 DEF ProofIInv, ProofScanIs, ProofPageIs,
     ProofRemembers
<1>11. ProofMatured'
  <2> SUFFICES ASSUME NEW i \in 1..Len(proof_issues)
               PROVE  /\ proof_issues[i].at <= proof_now
                      /\ proof_outcome'[i] = "valid"
                           => Proof!Target(i) <= proof_now
                             /\ Proof!Target(i) <= proof_review.now
    BY <1>1, <1>2, <1>6 DEF ProofMatured, Proof!Target
  <2>1. Proof!Target(i) \in Nat /\ proof_now \in Nat
    BY <1>2, ProofIssueIs DEF Proof!TypeOK
  <2> QED
    BY <1>2, <1>7, <2>1 DEF ProofIInv, ProofMatured
<1>12. ProofDecided'
  BY <1>1, <1>2, ProofDecidedStays
<1> QED
  BY <1>8, <1>9, <1>10, <1>11, <1>12 DEF ProofIInv

\* More becomes known of the pump's past, and nothing is forgotten.
LEMMA ProofWorldGrows ==
  ASSUME ProofIInv, UNCHANGED <<proof_issues, proof_outcome, proof_review, proof_collection,
                                proof_scan, proof_looks, proof_decision>>,
         proof_now' \in Nat, proof_now <= proof_now',
         proof_bound' \in [events : Nat, crashes : Nat], proof_world' \in Proof!World,
         proof_world.overrides \subseteq proof_world'.overrides,
         proof_world.gaps \subseteq proof_world'.gaps,
         \A k \in DOMAIN proof_world.acts :
           /\ k \in DOMAIN proof_world'.acts /\ proof_world'.acts[k].at = proof_world.acts[k].at
           /\ proof_world.acts[k].proof = "sent" => proof_world'.acts[k].proof = "sent",
         \A k \in DOMAIN proof_world.restore :
           /\ k \in DOMAIN proof_world'.restore
                /\ proof_world'.restore[k].from = proof_world.restore[k].from
           /\ \/ proof_world'.restore[k].to = proof_world.restore[k].to
              \/ proof_world.restore[k].to = proof_None
                   /\ proof_world'.restore[k].to = proof_now
  PROVE  ProofIInv'
<1>1. /\ Proof!TypeOK /\ Len(proof_issues) \in Nat /\ proof_scan.high \in Nat
           /\ proof_scan.high <= Len(proof_issues)
      /\ proof_now \in Nat
  BY LenProperties DEF ProofIInv, Proof!TypeOK, ProofScanIs
<1>2. Proof!TypeOK'
  BY <1>1 DEF Proof!TypeOK
<1>3. \A i \in 1..proof_scan.high : proof_issues[i].at <= proof_now
  BY <1>1 DEF ProofIInv, ProofMatured
<1>4. ProofRemembers'
  <2>1. /\ proof_scan.began.overrides \subseteq proof_world'.overrides
             /\ proof_scan.began.gaps \subseteq proof_world'.gaps
        /\ \A k \in DOMAIN proof_scan.began.acts :
             /\ k \in DOMAIN proof_world'.acts
                  /\ proof_world'.acts[k].at = proof_scan.began.acts[k].at
             /\ proof_scan.began.acts[k].proof = "sent" => proof_world'.acts[k].proof = "sent"
    BY DEF ProofIInv, ProofRemembers
  <2>2. ASSUME NEW k \in DOMAIN proof_scan.began.restore
        PROVE  /\ k \in DOMAIN proof_world'.restore
               /\ proof_world'.restore[k].from = proof_scan.began.restore[k].from
               /\ \/ proof_world'.restore[k].to = proof_scan.began.restore[k].to
                  \/ /\ proof_scan.began.restore[k].to = proof_None
                     /\ \A i \in 1..proof_scan.high :
                          proof_world'.restore[k].to >= proof_issues[i].at
    <3>1. /\ k \in DOMAIN proof_world.restore
          /\ proof_world.restore[k].from = proof_scan.began.restore[k].from
          /\ \/ proof_world.restore[k].to = proof_scan.began.restore[k].to
             \/ /\ proof_scan.began.restore[k].to = proof_None
                /\ \A i \in 1..proof_scan.high : proof_world.restore[k].to >= proof_issues[i].at
      BY DEF ProofIInv, ProofRemembers
    <3>2. CASE proof_world'.restore[k].to = proof_world.restore[k].to
      BY <3>1, <3>2
    <3>3. CASE proof_world.restore[k].to = proof_None /\ proof_world'.restore[k].to = proof_now
      <4>1. \A i \in 1..proof_scan.high : proof_now >= proof_issues[i].at
        <5> TAKE i \in 1..proof_scan.high
        <5>1. i \in 1..Len(proof_issues)
          BY <1>1
        <5> QED
          BY <1>1, <1>3, <5>1, ProofIssueIs
      <4>2. CASE proof_scan.began.restore[k].to = proof_None
        BY <3>1, <3>3, <4>1, <4>2
      <4>3. CASE proof_scan.began.restore[k].to # proof_None
        BY <3>1, <3>3, <4>3
      <4> QED
        BY <4>2, <4>3
    <3> QED
      BY <3>1, <3>2, <3>3
  <2> QED
    BY <2>1, <2>2 DEF ProofRemembers
<1>5. ProofMatured'
  <2> SUFFICES ASSUME NEW i \in 1..Len(proof_issues)
               PROVE  /\ proof_issues[i].at <= proof_now'
                      /\ proof_outcome[i] = "valid" => /\ Proof!Target(i) <= proof_now'
                                                       /\ proof_review.at # "idle"
                                                            => Proof!Target(i) <= proof_review.now
    BY <1>1 DEF ProofIInv, ProofMatured, Proof!Target
  <2>1. Proof!Target(i) \in Nat /\ proof_issues[i].at \in Nat
    BY <1>1, ProofIssueIs
  <2> QED
    BY <1>1, <2>1 DEF ProofIInv, ProofMatured
<1>6. ProofPassed' /\ ProofPageIs' /\ ProofScanIs' /\ ProofDecided'
  BY DEF ProofIInv, ProofPassed, ProofPageIs, ProofScanIs, ProofDecided, ProofClean,
     Proof!Tainted, Proof!InReach, Proof!Within, Proof!Overlaps, Proof!Target
<1> QED
  BY <1>2, <1>4, <1>5, <1>6 DEF ProofIInv

\* What the database holds of commands, and of restores.
ProofAct == [at : Nat, proof : {"unknown", "sent", "never"}]
ProofOwed == [from : Nat, to : Nat \cup {proof_None}]

\* What is appended takes nothing away.
LEMMA ProofAppendedKeeps ==
  ASSUME NEW S, NEW seq \in Seq(S), NEW e \in S
  PROVE  /\ Append(seq, e) \in Seq(S)
         /\ \A j \in DOMAIN seq : j \in DOMAIN Append(seq, e) /\ Append(seq, e)[j] = seq[j]
<1>1. Len(seq) \in Nat /\ DOMAIN seq = 1..Len(seq)
  BY LenProperties
<1>2. /\ Append(seq, e) \in Seq(S) /\ Len(Append(seq, e)) = Len(seq) + 1
      /\ \A j \in 1..Len(seq) : Append(seq, e)[j] = seq[j]
  BY AppendProperties
<1>3. DOMAIN Append(seq, e) = 1..(Len(seq) + 1)
  BY <1>2, LenProperties
<1> QED
  BY <1>1, <1>2, <1>3

\* Time passes, something happens, or more is learnt of what did.
LEMMA ProofWorldMoves ==
  ASSUME ProofIInv, Proof!Tick \/ Proof!Happen \/ Proof!Learn
  PROVE  ProofIInv'
<1>1. /\ UNCHANGED <<proof_issues, proof_outcome, proof_review, proof_collection, proof_scan,
                     proof_looks, proof_decision>>
      /\ proof_now \in Nat /\ proof_now' \in Nat /\ proof_now <= proof_now'
           /\ proof_world \in Proof!World
      /\ proof_bound \in [events : Nat, crashes : Nat]
  BY DEF ProofIInv, Proof!TypeOK, Proof!Tick, Proof!Happen, Proof!Learn
<1>2. proof_bound' \in [events : Nat, crashes : Nat]
  <2>1. proof_bound' = proof_bound
          \/ proof_bound' = [proof_bound EXCEPT !.events = proof_bound.events + 1]
    BY DEF Proof!Tick, Proof!Happen, Proof!Learn
  <2> QED
    BY <1>1, <2>1
<1>3. /\ proof_world.acts \in Seq(ProofAct) /\ proof_world.restore \in Seq(ProofOwed)
      /\ proof_world.overrides \in SUBSET Nat /\ proof_world.gaps \in SUBSET Nat
           /\ proof_world.read \in SUBSET Nat
  BY <1>1 DEF Proof!World, ProofAct, ProofOwed
<1> DEFINE Acts(a) == \A k \in DOMAIN proof_world.acts :
                        /\ k \in DOMAIN a /\ a[k].at = proof_world.acts[k].at
                        /\ proof_world.acts[k].proof = "sent" => a[k].proof = "sent"
           Restores(r) == \A k \in DOMAIN proof_world.restore :
                            /\ k \in DOMAIN r /\ r[k].from = proof_world.restore[k].from
                            /\ \/ r[k].to = proof_world.restore[k].to
                               \/ proof_world.restore[k].to = proof_None /\ r[k].to = proof_now
<1>4. PICK w \in Proof!World :
        /\ proof_world' = w /\ Acts(w.acts) /\ Restores(w.restore)
        /\ proof_world.overrides \subseteq w.overrides /\ proof_world.gaps \subseteq w.gaps
  <2> USE <1>1, <1>3
  <2>1. CASE \E x \in SUBSET Nat : proof_world' = [proof_world EXCEPT !.read = x]
    <3>1. PICK x \in SUBSET Nat : proof_world' = [proof_world EXCEPT !.read = x]
      BY <2>1
    <3> DEFINE w == [proof_world EXCEPT !.read = x]
    <3>2. w \in Proof!World
      BY DEF Proof!World
    <3>3. w.acts = proof_world.acts /\ w.restore = proof_world.restore
            /\ w.overrides = proof_world.overrides
          /\ w.gaps = proof_world.gaps
      BY DEF Proof!World
    <3> QED
      BY <3>1, <3>2, <3>3
  <2>2. CASE proof_world' = [proof_world EXCEPT !.overrides = proof_world.overrides
                             \cup {proof_now}]
    <3> DEFINE w == [proof_world EXCEPT !.overrides = proof_world.overrides \cup {proof_now}]
    <3>1. w \in Proof!World
      BY DEF Proof!World
    <3>2. w.acts = proof_world.acts /\ w.restore = proof_world.restore
            /\ proof_world.overrides \subseteq w.overrides
          /\ w.gaps = proof_world.gaps
      BY DEF Proof!World
    <3> QED
      BY <2>2, <3>1, <3>2
  <2>3. CASE proof_world' = [proof_world EXCEPT !.gaps = proof_world.gaps \cup {proof_now}]
    <3> DEFINE w == [proof_world EXCEPT !.gaps = proof_world.gaps \cup {proof_now}]
    <3>1. w \in Proof!World
      BY DEF Proof!World
    <3>2. w.acts = proof_world.acts /\ w.restore = proof_world.restore
            /\ w.overrides = proof_world.overrides
          /\ proof_world.gaps \subseteq w.gaps
      BY DEF Proof!World
    <3> QED
      BY <2>3, <3>1, <3>2
  <2>4. CASE \E a \in Seq(ProofAct) : proof_world' = [proof_world EXCEPT !.acts = a] /\ Acts(a)
    <3>1. PICK a \in Seq(ProofAct) : proof_world' = [proof_world EXCEPT !.acts = a] /\ Acts(a)
      BY <2>4
    <3> DEFINE w == [proof_world EXCEPT !.acts = a]
    <3>2. w \in Proof!World
      BY DEF Proof!World, ProofAct
    <3>3. w.acts = a /\ w.restore = proof_world.restore /\ w.overrides = proof_world.overrides
          /\ w.gaps = proof_world.gaps
      BY DEF Proof!World
    <3> QED
      BY <3>1, <3>2, <3>3
  <2>5. CASE \E r \in Seq(ProofOwed) : proof_world' = [proof_world EXCEPT !.restore = r]
               /\ Restores(r)
    <3>1. PICK r \in Seq(ProofOwed) : proof_world' = [proof_world EXCEPT !.restore = r]
            /\ Restores(r)
      BY <2>5
    <3> DEFINE w == [proof_world EXCEPT !.restore = r]
    <3>2. w \in Proof!World
      BY DEF Proof!World, ProofOwed
    <3>3. w.acts = proof_world.acts /\ w.restore = r /\ w.overrides = proof_world.overrides
          /\ w.gaps = proof_world.gaps
      BY DEF Proof!World
    <3> QED
      BY <3>1, <3>2, <3>3
  <2>6. CASE Proof!Tick
    <3>1. PICK x \in SUBSET {proof_now'} :
            proof_world' = [proof_world EXCEPT !.read = proof_world.read \cup x]
      BY <2>6 DEF Proof!Tick
    <3>2. proof_world.read \cup x \in SUBSET Nat
      BY <3>1
    <3> QED
      BY <2>1, <3>1, <3>2
  <2>7. CASE Proof!Happen
    <3>1. CASE proof_world' = [proof_world EXCEPT !.acts =
                                 Append(proof_world.acts,
                                        [at |-> proof_now, proof |-> "unknown"])]
      <4>1. [at |-> proof_now, proof |-> "unknown"] \in ProofAct
        BY DEF ProofAct
      <4>2. /\ Append(proof_world.acts, [at |-> proof_now, proof |-> "unknown"]) \in
                 Seq(ProofAct)
            /\ Acts(Append(proof_world.acts, [at |-> proof_now, proof |-> "unknown"]))
        BY <4>1, ProofAppendedKeeps
      <4> QED
        BY <2>4, <3>1, <4>2
    <3>2. CASE proof_world' = [proof_world EXCEPT !.restore =
                                 Append(proof_world.restore,
                                        [from |-> proof_now, to |-> proof_None])]
      <4>1. [from |-> proof_now, to |-> proof_None] \in ProofOwed
        BY DEF ProofOwed
      <4>2. /\ Append(proof_world.restore, [from |-> proof_now, to |-> proof_None]) \in
                 Seq(ProofOwed)
            /\ Restores(Append(proof_world.restore, [from |-> proof_now, to |-> proof_None]))
        BY <4>1, ProofAppendedKeeps
      <4> QED
        BY <2>5, <3>2, <4>2
    <3>3. CASE proof_world' = [proof_world EXCEPT !.read = 0..proof_now]
      <4>1. 0..proof_now \in SUBSET Nat
        OBVIOUS
      <4> QED
        BY <2>1, <3>3, <4>1
    <3> QED
      BY <2>2, <2>3, <2>7, <3>1, <3>2, <3>3 DEF Proof!Happen
  <2>8. CASE Proof!Learn
    <3>1. CASE \E k \in DOMAIN proof_world.acts, p \in {"sent", "never"} :
                 /\ proof_world.acts[k].proof = "unknown"
                 /\ proof_world' = [proof_world EXCEPT !.acts[k].proof = p]
      <4>1. PICK k \in DOMAIN proof_world.acts, p \in {"sent", "never"} :
                 /\ proof_world.acts[k].proof = "unknown"
                 /\ proof_world' = [proof_world EXCEPT !.acts[k].proof = p]
        BY <3>1
      <4> DEFINE a == [proof_world.acts EXCEPT ![k].proof = p]
      <4>4. Len(proof_world.acts) \in Nat /\ DOMAIN proof_world.acts = 1..Len(proof_world.acts)
            /\ \A j \in DOMAIN proof_world.acts : proof_world.acts[j] \in ProofAct
        BY LenProperties, ElementOfSeq
      <4>5. PICK n \in Nat : n = Len(proof_world.acts)
        BY <4>4
      <4>6. PICK act \in ProofAct : act = [proof_world.acts[k] EXCEPT !.proof = p]
              /\ act.at = proof_world.acts[k].at
        <5>1. PICK old \in ProofAct : old = proof_world.acts[k]
          BY <4>1, <4>4
        <5>2. [old EXCEPT !.proof = p] \in ProofAct /\ [old EXCEPT !.proof = p].at = old.at
          BY ONLY old \in ProofAct, p \in {"sent", "never"} DEF ProofAct
        <5> QED
          BY <5>1, <5>2
      <4>7. DOMAIN a = 1..n /\ a = [j \in 1..n |-> a[j]]
            /\ \A j \in 1..n : a[j] = IF j = k THEN act ELSE proof_world.acts[j]
        <5>1. a = [proof_world.acts EXCEPT ![k] = act]
          BY <4>6
        <5>2. DOMAIN proof_world.acts = 1..n
          BY <4>4, <4>5
        <5> HIDE DEF a
        <5>3. DOMAIN a = 1..n /\ \A j \in 1..n : a[j] = IF j = k THEN act
                ELSE proof_world.acts[j]
          BY ONLY <5>1, <5>2
        <5>4. a = [j \in 1..n |-> a[j]]
          BY ONLY <5>1, <5>2
        <5> QED
          BY <5>3, <5>4
      <4>8. \A j \in 1..n : a[j] \in ProofAct
        BY <4>4, <4>5, <4>6, <4>7
      <4>3. proof_world' = [proof_world EXCEPT !.acts = a]
        BY <4>1
      <4> HIDE DEF a
      <4>9. a \in Seq(ProofAct)
        BY <4>7, <4>8, SeqDef
      <4>2. Acts(a)
        BY <4>1, <4>4, <4>5, <4>6, <4>7
      <4> QED
        BY <2>4, <4>2, <4>3, <4>9
    <3>2. CASE \E k \in DOMAIN proof_world.restore :
                 /\ proof_world.restore[k].to = proof_None
                 /\ proof_world' = [proof_world EXCEPT !.restore[k].to = proof_now]
      <4>1. PICK k \in DOMAIN proof_world.restore :
                 /\ proof_world.restore[k].to = proof_None
                 /\ proof_world' = [proof_world EXCEPT !.restore[k].to = proof_now]
        BY <3>2
      <4> DEFINE r == [proof_world.restore EXCEPT ![k].to = proof_now]
      <4>4. Len(proof_world.restore) \in Nat
              /\ DOMAIN proof_world.restore = 1..Len(proof_world.restore)
            /\ \A j \in DOMAIN proof_world.restore : proof_world.restore[j] \in ProofOwed
        BY LenProperties, ElementOfSeq
      <4>5. PICK n \in Nat : n = Len(proof_world.restore)
        BY <4>4
      <4>6. PICK owed \in ProofOwed : /\ owed = [proof_world.restore[k] EXCEPT !.to = proof_now]
                                      /\ owed.from = proof_world.restore[k].from
                                           /\ owed.to = proof_now
        <5>1. PICK old \in ProofOwed, t \in Nat : old = proof_world.restore[k] /\ t = proof_now
          BY <1>1, <4>1, <4>4
        <5>2. /\ [old EXCEPT !.to = t] \in ProofOwed /\ [old EXCEPT !.to = t].from = old.from
              /\ [old EXCEPT !.to = t].to = t
          BY ONLY old \in ProofOwed, t \in Nat DEF ProofOwed
        <5> QED
          BY <5>1, <5>2
      <4>7. DOMAIN r = 1..n /\ r = [j \in 1..n |-> r[j]]
            /\ \A j \in 1..n : r[j] = IF j = k THEN owed ELSE proof_world.restore[j]
        <5>1. r = [proof_world.restore EXCEPT ![k] = owed]
          BY <4>6
        <5>2. DOMAIN proof_world.restore = 1..n
          BY <4>4, <4>5
        <5> HIDE DEF r
        <5>3. DOMAIN r = 1..n /\ \A j \in 1..n : r[j] = IF j = k THEN owed
                ELSE proof_world.restore[j]
          BY ONLY <5>1, <5>2
        <5>4. r = [j \in 1..n |-> r[j]]
          BY ONLY <5>1, <5>2
        <5> QED
          BY <5>3, <5>4
      <4>8. \A j \in 1..n : r[j] \in ProofOwed
        BY <4>4, <4>5, <4>6, <4>7
      <4>3. proof_world' = [proof_world EXCEPT !.restore = r]
        BY <4>1
      <4> HIDE DEF r
      <4>9. r \in Seq(ProofOwed)
        BY <4>7, <4>8, SeqDef
      <4>2. Restores(r)
        BY <4>1, <4>4, <4>5, <4>6, <4>7
      <4> QED
        BY <2>5, <4>2, <4>3, <4>9
    <3> QED
      BY <2>8, <3>1, <3>2 DEF Proof!Learn
  <2> QED
    BY <2>6, <2>7, <2>8
<1> QED
  BY <1>1, <1>2, <1>4, ProofWorldGrows

\* Every step keeps the invariant.
LEMMA ProofInvariantKept == ASSUME ProofIInv, [Proof!Next]_proofVars PROVE ProofIInv'
<1>1. CASE UNCHANGED proofVars
  BY <1>1 DEF proofVars, ProofIInv, Proof!TypeOK, ProofPassed, ProofPageIs, ProofScanIs,
     ProofMatured, ProofRemembers, ProofDecided,
              ProofClean, Proof!Tainted, Proof!InReach, Proof!Within, Proof!Overlaps,
              Proof!Target
<1>2. CASE Proof!Next
  BY <1>2, ProofReviewGoesOn, ProofIssues, ProofScanBegins, ProofPageIsRead,
     ProofPageIsCommitted, ProofDecides, ProofWorldMoves
  DEF Proof!Next
<1> QED
  BY <1>1, <1>2


\* The invariant of this service, whenever it is the one that acts.
LEMMA ProofInvariant == EvidenceSpec => [](verdict = "proof" => ProofIInv)
<1>1. EvidenceInit => (verdict = "proof" => ProofIInv)
  BY ProofInvariantInitially DEF EvidenceInit
<1>2. (verdict = "proof" => ProofIInv) /\ [EvidenceNext]_verdictVars
        => (verdict = "proof" => ProofIInv)'
  BY ProofInvariantKept DEF EvidenceNext, verdictVars
<1> QED
  BY <1>1, <1>2, PTL DEF EvidenceSpec

-----------------------------------------------------------------------------
(***************************************************************************)
(* What every set of numbers and every sequence has.                       *)
(***************************************************************************)

\* Induction up to a bound, over a set of numbers.
LEMMA UpTo ==
  ASSUME NEW N \in Nat, NEW X, 0 \in X, \A n \in 0..(N - 1) : n \in X => n + 1 \in X
  PROVE  0..N \subseteq X
<1> DEFINE bad == {n \in Nat : n \in 0..N /\ n \notin X}
<1>1. SUFFICES ASSUME bad # {} PROVE FALSE
  OBVIOUS
<1>2. PICK x \in bad : \A y \in bad : ~(<<y, x>> \in OpToRel(<, Nat))
  <2>1. bad \in SUBSET Nat
    OBVIOUS
  <2>2. IsWellFoundedOn(OpToRel(<, Nat), Nat)
    BY NatLessThanWellFounded
  <2> HIDE DEF bad
  <2> QED
    BY <1>1, <2>1, <2>2, WFMin
<1>3. \A y \in bad : ~(y < x)
  BY <1>2 DEF OpToRel
<1>4. x # 0 /\ x - 1 \in 0..(N - 1) /\ x - 1 \in Nat
  OBVIOUS
<1>5. x - 1 \in X
  BY <1>3, <1>4
<1>6. (x - 1) + 1 = x
  BY <1>4
<1> QED
  BY <1>4, <1>5, <1>6

\* A step on data can be repeated.
LEMMA Repeated ==
  ASSUME NEW S, NEW z \in S, NEW N \in Nat, NEW step \in [1..N -> [S -> S]]
  PROVE  \E g \in [0..N -> S] : g[0] = z /\ \A n \in 1..N : g[n] = step[n][g[n - 1]]
<1> DEFINE Good(k, g) == /\ g \in [0..k -> S] /\ g[0] = z
                         /\ \A n \in 1..k : g[n] = step[n][g[n - 1]]
           X == {k \in 0..N : \E g \in [0..k -> S] : Good(k, g)}
<1>1. 0 \in X
  <2> DEFINE g == [i \in 0..0 |-> z]
  <2>1. g \in [0..0 -> S] /\ g[0] = z /\ \A n \in 1..0 : g[n] = step[n][g[n - 1]]
    OBVIOUS
  <2> HIDE DEF g
  <2>2. \E h \in [0..0 -> S] : Good(0, h)
    BY <2>1
  <2> QED
    BY <2>2
<1>2. ASSUME NEW k \in 0..(N - 1), k \in X
      PROVE  k + 1 \in X
  <2>1. PICK g \in [0..k -> S] : Good(k, g)
    BY <1>2
  <2>2. g[k] \in S /\ k + 1 \in 1..N /\ k + 1 \in 0..N
    OBVIOUS
  <2>3. PICK v \in S : v = step[k + 1][g[k]]
    <3>1. step[k + 1] \in [S -> S]
      BY <2>2
    <3> QED
      BY <2>2, <3>1
  <2> DEFINE h == [i \in 0..(k + 1) |-> IF i = k + 1 THEN v ELSE g[i]]
  <2>4. h \in [0..(k + 1) -> S]
    OBVIOUS
  <2>5. h[0] = z
    BY <2>1
  <2>6. ASSUME NEW n \in 1..(k + 1)
        PROVE  h[n] = step[n][h[n - 1]]
    <3>1. CASE n = k + 1
      <4>1. h[n] = v /\ h[n - 1] = g[k]
        BY <3>1
      <4> HIDE DEF h
      <4> QED
        BY <2>3, <3>1, <4>1
    <3>2. CASE n # k + 1
      <4>1. n \in 1..k /\ n \in 0..k /\ n - 1 \in 0..k /\ n - 1 # k + 1
        BY <3>2
      <4>2. h[n] = g[n] /\ h[n - 1] = g[n - 1]
        BY <4>1, <3>2
      <4>3. g[n] = step[n][g[n - 1]]
        BY <2>1, <4>1
      <4> HIDE DEF h
      <4> QED
        BY <4>2, <4>3
    <3> QED
      BY <3>1, <3>2
  <2> HIDE DEF h
  <2>7. Good(k + 1, h)
    BY <2>4, <2>5, <2>6
  <2> QED
    BY <2>2, <2>4, <2>7
<1>3. 0..N \subseteq X
  <2> HIDE DEF X
  <2> QED
    BY <1>1, <1>2, UpTo
<1>4. N \in X
  <2> HIDE DEF X
  <2>1. N \in 0..N
    OBVIOUS
  <2> QED
    BY <1>3, <2>1
<1>5. \E g \in [0..N -> S] : Good(N, g)
  BY <1>4
<1> QED
  BY <1>5

\* A sequence with another behind it ranges over both.
LEMMA RangesJoin ==
  ASSUME NEW S, NEW s \in Seq(S), NEW t \in Seq(S)
  PROVE  s \o t \in Seq(S) /\ Len(s \o t) = Len(s) + Len(t)
           /\ Range(s \o t) = Range(s) \cup Range(t)
<1>1. s \o t \in Seq(S) /\ Len(s \o t) = Len(s) + Len(t) /\ Len(s) \in Nat /\ Len(t) \in Nat
  OBVIOUS
<1>2. \A i \in 1..(Len(s) + Len(t)) : (s \o t)[i] = IF i <= Len(s) THEN s[i] ELSE t[i - Len(s)]
  OBVIOUS
<1>3. ASSUME NEW i \in 1..(Len(s) + Len(t))
      PROVE  (s \o t)[i] \in Range(s) \cup Range(t)
  <2>1. CASE i <= Len(s)
    BY <1>1, <1>2, <2>1 DEF Range
  <2>2. CASE ~(i <= Len(s))
    <3>1. i - Len(s) \in 1..Len(t)
      BY <1>1, <2>2
    <3> QED
      BY <1>1, <1>2, <2>2, <3>1 DEF Range
  <2> QED
    BY <2>1, <2>2
<1>4. ASSUME NEW i \in 1..Len(s)
      PROVE  s[i] \in Range(s \o t)
  <2>1. i \in 1..(Len(s) + Len(t)) /\ i <= Len(s)
    BY <1>1
  <2> QED
    BY <1>1, <1>2, <2>1 DEF Range
<1>5. ASSUME NEW i \in 1..Len(t)
      PROVE  t[i] \in Range(s \o t)
  <2>1. i + Len(s) \in 1..(Len(s) + Len(t)) /\ ~(i + Len(s) <= Len(s))
          /\ (i + Len(s)) - Len(s) = i
    BY <1>1
  <2>2. (s \o t)[i + Len(s)] = t[i]
    BY <1>2, <2>1
  <2> QED
    BY <1>1, <2>1, <2>2 DEF Range
<1>6. Range(s \o t) \subseteq Range(s) \cup Range(t)
  BY <1>1, <1>3 DEF Range
<1>7. Range(s) \subseteq Range(s \o t) /\ Range(t) \subseteq Range(s \o t)
  <2>1. ASSUME NEW x \in Range(s) PROVE x \in Range(s \o t)
    <3>1. PICK i \in 1..Len(s) : x = s[i]
      BY DEF Range
    <3> QED
      BY <1>4, <3>1
  <2>2. ASSUME NEW x \in Range(t) PROVE x \in Range(s \o t)
    <3>1. PICK i \in 1..Len(t) : x = t[i]
      BY DEF Range
    <3> QED
      BY <1>5, <3>1
  <2> QED
    BY <2>1, <2>2
<1> QED
  BY <1>1, <1>6, <1>7


-----------------------------------------------------------------------------
(***************************************************************************)
(* What a scorecard says of its evidence, and the gate that it feeds       *)
(* (ForecastScorecard).                                                    *)
(***************************************************************************)

\* The module's cardinality is the one of finite sets.
LEMMA ScoreCardinalityIs == \A S : Score!Cardinality(S) = Cardinality(S)
  BY DEF Score!Cardinality, Cardinality

\* What is selected so far.
LEMMA ScoreSelectingIs ==
  ASSUME NEW S, NEW ps \in Seq(S), NEW wanted
  PROVE  /\ Score!Selecting(ps, wanted) \in [0..Len(ps) -> Seq(S)]
         /\ Score!Selecting(ps, wanted)[0] = <<>>
         /\ \A n \in 1..Len(ps) : Score!Selecting(ps, wanted)[n]
              = Score!Selecting(ps, wanted)[n - 1] \o Score!Chosen(ps, wanted, n)
<1> DEFINE z == <<>>
           Then(s, n) == s \o Score!Chosen(ps, wanted, n)
           step == [n \in 1..Len(ps) |-> [s \in Seq(S) |-> Then(s, n)]]
           All(g) == g = [n \in 0..Len(ps) |-> IF n = 0 THEN z ELSE Then(g[n - 1], n)]
<1>1. z \in Seq(S)
  OBVIOUS
<1>2. ASSUME NEW n \in 1..Len(ps), NEW s \in Seq(S)
      PROVE  Then(s, n) \in Seq(S)
  <2>1. Score!Chosen(ps, wanted, n) \in Seq(S)
    <3>1. CASE ps[n] \in wanted
      <4>1. ps[n] \in S
        OBVIOUS
      <4>2. <<ps[n]>> \in Seq(S)
        BY <4>1
      <4> QED
        BY <3>1, <4>2 DEF Score!Chosen
    <3>2. CASE ps[n] \notin wanted
      BY <3>2 DEF Score!Chosen
    <3> QED
      BY <3>1, <3>2
  <2> QED
    BY <2>1, RangesJoin

<1>8. Score!Selecting(ps, wanted) = CHOOSE g : All(g)
  BY DEF Score!Selecting
<1> HIDE DEF z, Then
<1>3. step \in [1..Len(ps) -> [Seq(S) -> Seq(S)]]
  BY <1>2
<1>4. Len(ps) \in Nat
  OBVIOUS
<1>5. PICK g \in [0..Len(ps) -> Seq(S)] : g[0] = z
        /\ \A n \in 1..Len(ps) : g[n] = step[n][g[n - 1]]
  <2> HIDE DEF step
  <2>1. SUFFICES ASSUME NEW N \in Nat, N = Len(ps), NEW T, T = Seq(S)
                 PROVE  \E g \in [0..N -> T] : g[0] = z
                          /\ \A n \in 1..N : g[n] = step[n][g[n - 1]]
    BY <1>4
  <2>2. PICK y \in T : y = z
    BY <1>1, <2>1
  <2>3. PICK st \in [1..N -> [T -> T]] : st = step
    BY <1>3, <2>1
  <2>4. \E g \in [0..N -> T] : g[0] = y /\ \A n \in 1..N : g[n] = st[n][g[n - 1]]
    BY Repeated, SMTT(60)
  <2> QED
    BY <2>2, <2>3, <2>4
<1>6. \A n \in 1..Len(ps) : g[n] = Then(g[n - 1], n)
  <2> SUFFICES ASSUME NEW n \in 1..Len(ps)
               PROVE  g[n] = Then(g[n - 1], n)
    OBVIOUS
  <2>1. n - 1 \in 0..Len(ps)
    BY <1>4
  <2>2. g[n - 1] \in Seq(S)
    BY <2>1
  <2> QED
    BY <1>5, <2>2
<1>7. All(g)
  <2>1. ASSUME NEW n \in 0..Len(ps)
        PROVE  g[n] = IF n = 0 THEN z ELSE Then(g[n - 1], n)
    BY <1>4, <1>5, <1>6
  <2> QED
    BY <2>1
<1>9. All(Score!Selecting(ps, wanted))
  <2> HIDE DEF All
  <2> QED
    BY <1>7, <1>8
<1> DEFINE r == Score!Selecting(ps, wanted)
<1> HIDE DEF r
<1>10. r = [n \in 0..Len(ps) |-> IF n = 0 THEN z ELSE Then(r[n - 1], n)]
  BY <1>9 DEF r
<1>11. r[0] = z /\ \A n \in 1..Len(ps) : r[n] = Then(r[n - 1], n)
  BY <1>4, <1>10
<1> DEFINE X == {n \in 0..Len(ps) : r[n] \in Seq(S)}
<1>12. 0..Len(ps) \subseteq X
  <2>1. 0 \in X
    BY <1>1, <1>4, <1>11
  <2>2. ASSUME NEW n \in 0..(Len(ps) - 1), n \in X PROVE n + 1 \in X
    <3>1. n + 1 \in 1..Len(ps) /\ (n + 1) - 1 = n /\ n + 1 \in 0..Len(ps)
      BY <1>4
    <3>2. r[n + 1] = Then(r[(n + 1) - 1], n + 1)
      BY <1>11, <3>1
    <3>3. r[(n + 1) - 1] \in Seq(S)
      BY <2>2, <3>1
    <3> QED
      BY <1>2, <3>1, <3>2, <3>3
  <2> HIDE DEF X
  <2> QED
    BY <1>4, <2>1, <2>2, UpTo
<1>13. r \in [0..Len(ps) -> Seq(S)]
  BY <1>10, <1>12
<1>14. \A n \in 1..Len(ps) : r[n] = r[n - 1] \o Score!Chosen(ps, wanted, n)
  BY <1>11 DEF Then
<1>15. r[0] = <<>>
  BY <1>11 DEF z
<1> QED
  BY <1>13, <1>14, <1>15, Zenon DEF r

\* The evidence so far.
LEMMA ScoreReadingIs ==
  ASSUME NEW S, NEW ps, NEW clear \in Seq(S)
  PROVE  /\ Score!Reading(ps, clear)[0] = Score!Start
         /\ \A n \in 1..Len(clear) : Score!Reading(ps, clear)[n]
              = Score!Visited(Score!Reading(ps, clear)[n - 1], ps, clear[Len(clear) - n + 1])
<1> DEFINE z == Score!Start
           Then(s, n) == Score!Visited(s, ps, clear[Len(clear) - n + 1])
           Upto(g, k) == g = [n \in 0..k |-> IF n = 0 THEN z ELSE Then(g[n - 1], n)]
<1>1. Score!Reading(ps, clear) = CHOOSE g : Upto(g, Len(clear))
  BY DEF Score!Reading
<1>2. Len(clear) \in Nat
  OBVIOUS
<1> HIDE DEF z, Then
<1>3. \E g : Upto(g, Len(clear))
  <2>1. SUFFICES ASSUME NEW N \in Nat
                 PROVE  \E g : Upto(g, N)
    BY <1>2
  <2> DEFINE X == {k \in 0..N : \E g : Upto(g, k)}
  <2>2. 0 \in X
    <3>1. Upto([n \in 0..0 |-> z], 0)
      OBVIOUS
    <3>2. 0 \in 0..N
      OBVIOUS
    <3> HIDE DEF Upto
    <3> QED
      BY <3>1, <3>2
  <2>3. ASSUME NEW k \in 0..(N - 1), k \in X
        PROVE  k + 1 \in X
    <3>1. PICK g : Upto(g, k)
      BY <2>3
    <3> DEFINE h == [n \in 0..(k + 1) |-> IF n = 0 THEN z ELSE IF n = k + 1
                       THEN Then(g[k], k + 1) ELSE g[n]]
    <3>2. ASSUME NEW n \in 0..(k + 1)
          PROVE  h[n] = IF n = 0 THEN z ELSE Then(h[n - 1], n)
      <4>1. CASE n = 0
        BY <4>1
      <4>2. CASE n = k + 1
        <5>1. h[n] = Then(g[k], k + 1)
          BY <4>2
        <5>2. h[k] = g[k]
          <6>1. CASE k = 0
            BY <3>1, <6>1
          <6>2. CASE k # 0
            BY <6>2
          <6> QED
            BY <6>1, <6>2
        <5>3. n - 1 = k /\ n # 0
          BY <4>2
        <5> QED
          BY <4>2, <5>1, <5>2, <5>3
      <4>3. CASE n # 0 /\ n # k + 1
        <5>1. h[n] = g[n] /\ n \in 0..k /\ n - 1 \in 0..(k + 1)
          BY <4>3
        <5>2. g[n] = Then(g[n - 1], n)
          BY <3>1, <4>3, <5>1
        <5>3. h[n - 1] = g[n - 1]
          <6>1. CASE n = 1
            BY <3>1, <6>1
          <6>2. CASE n # 1
            BY <4>3, <6>2
          <6> QED
            BY <6>1, <6>2
        <5> QED
          BY <4>3, <5>1, <5>2, <5>3
      <4> QED
        BY <4>1, <4>2, <4>3
    <3>3. Upto(h, k + 1)
      <4>1. h = [n \in 0..(k + 1) |-> h[n]]
        OBVIOUS
      <4> HIDE DEF h
      <4> QED
        BY <3>2, <4>1
    <3>4. k + 1 \in 0..N
      OBVIOUS
    <3> QED
      BY <3>3, <3>4
  <2>4. 0..N \subseteq X
    <3> HIDE DEF X
    <3> QED
      BY <2>2, <2>3, UpTo
  <2>5. N \in 0..N
    OBVIOUS
  <2> QED
    BY <2>4, <2>5
<1>4. Upto(Score!Reading(ps, clear), Len(clear))
  <2> HIDE DEF Upto
  <2> QED
    BY <1>1, <1>3
<1>5. PICK r : r = Score!Reading(ps, clear)
  OBVIOUS
<1>6. Upto(r, Len(clear))
  BY <1>4, <1>5
<1>7. r[0] = z /\ \A n \in 1..Len(clear) : r[n] = Then(r[n - 1], n)
  BY <1>2, <1>6
<1> QED
  BY <1>5, <1>7 DEF z, Then

\* The pairs so far.
LEMMA ScorePairingIs ==
  ASSUME NEW S, NEW clear \in Seq(S)
  PROVE  /\ Score!Pairing(clear)[0] = Score!Start
         /\ \A n \in 1..Len(clear) : Score!Pairing(clear)[n]
              = Score!Paired(Score!Pairing(clear)[n - 1], clear[Len(clear) - n + 1])
<1> DEFINE z == Score!Start
           Then(s, n) == Score!Paired(s, clear[Len(clear) - n + 1])
           Upto(g, k) == g = [n \in 0..k |-> IF n = 0 THEN z ELSE Then(g[n - 1], n)]
<1>1. Score!Pairing(clear) = CHOOSE g : Upto(g, Len(clear))
  BY DEF Score!Pairing
<1>2. Len(clear) \in Nat
  OBVIOUS
<1> HIDE DEF z, Then
<1>3. \E g : Upto(g, Len(clear))
  <2>1. SUFFICES ASSUME NEW N \in Nat
                 PROVE  \E g : Upto(g, N)
    BY <1>2
  <2> DEFINE X == {k \in 0..N : \E g : Upto(g, k)}
  <2>2. 0 \in X
    <3>1. Upto([n \in 0..0 |-> z], 0)
      OBVIOUS
    <3>2. 0 \in 0..N
      OBVIOUS
    <3> HIDE DEF Upto
    <3> QED
      BY <3>1, <3>2
  <2>3. ASSUME NEW k \in 0..(N - 1), k \in X
        PROVE  k + 1 \in X
    <3>1. PICK g : Upto(g, k)
      BY <2>3
    <3> DEFINE h == [n \in 0..(k + 1) |-> IF n = 0 THEN z ELSE IF n = k + 1
                       THEN Then(g[k], k + 1) ELSE g[n]]
    <3>2. ASSUME NEW n \in 0..(k + 1)
          PROVE  h[n] = IF n = 0 THEN z ELSE Then(h[n - 1], n)
      <4>1. CASE n = 0
        BY <4>1
      <4>2. CASE n = k + 1
        <5>1. h[n] = Then(g[k], k + 1)
          BY <4>2
        <5>2. h[k] = g[k]
          <6>1. CASE k = 0
            BY <3>1, <6>1
          <6>2. CASE k # 0
            BY <6>2
          <6> QED
            BY <6>1, <6>2
        <5>3. n - 1 = k /\ n # 0
          BY <4>2
        <5> QED
          BY <4>2, <5>1, <5>2, <5>3
      <4>3. CASE n # 0 /\ n # k + 1
        <5>1. h[n] = g[n] /\ n \in 0..k /\ n - 1 \in 0..(k + 1)
          BY <4>3
        <5>2. g[n] = Then(g[n - 1], n)
          BY <3>1, <4>3, <5>1
        <5>3. h[n - 1] = g[n - 1]
          <6>1. CASE n = 1
            BY <3>1, <6>1
          <6>2. CASE n # 1
            BY <4>3, <6>2
          <6> QED
            BY <6>1, <6>2
        <5> QED
          BY <4>3, <5>1, <5>2, <5>3
      <4> QED
        BY <4>1, <4>2, <4>3
    <3>3. Upto(h, k + 1)
      <4>1. h = [n \in 0..(k + 1) |-> h[n]]
        OBVIOUS
      <4> HIDE DEF h
      <4> QED
        BY <3>2, <4>1
    <3>4. k + 1 \in 0..N
      OBVIOUS
    <3> QED
      BY <3>3, <3>4
  <2>4. 0..N \subseteq X
    <3> HIDE DEF X
    <3> QED
      BY <2>2, <2>3, UpTo
  <2>5. N \in 0..N
    OBVIOUS
  <2> QED
    BY <2>4, <2>5
<1>4. Upto(Score!Pairing(clear), Len(clear))
  <2> HIDE DEF Upto
  <2> QED
    BY <1>1, <1>3
<1>5. PICK r : r = Score!Pairing(clear)
  OBVIOUS
<1>6. Upto(r, Len(clear))
  BY <1>4, <1>5
<1>7. r[0] = z /\ \A n \in 1..Len(clear) : r[n] = Then(r[n - 1], n)
  BY <1>2, <1>6
<1> QED
  BY <1>5, <1>7 DEF z, Then

\* What is selected of a sequence.
LEMMA ScoreSelectedIs ==
  ASSUME NEW S, NEW ps \in Seq(S), NEW wanted
  PROVE  /\ Score!Selected(ps, wanted) \in Seq(S)
         /\ \A p : p \in Score!Range2(Score!Selected(ps, wanted)) <=> p \in Score!Range2(ps)
              /\ p \in wanted
<1> DEFINE r == Score!Selecting(ps, wanted)
           X == {n \in 0..Len(ps) : \A p :
                   p \in Score!Range2(r[n]) <=> (\E i \in 1..n : p = ps[i]) /\ p \in wanted}
<1>1. /\ r \in [0..Len(ps) -> Seq(S)] /\ r[0] = <<>>
      /\ \A n \in 1..Len(ps) : r[n] = r[n - 1] \o Score!Chosen(ps, wanted, n)
  BY ScoreSelectingIs
<1>2. Score!Selected(ps, wanted) = r[Len(ps)] /\ Len(ps) \in Nat
  BY DEF Score!Selected
<1> HIDE DEF r
<1>3. 0 \in X
  <2>1. Score!Range2(r[0]) = {} /\ 1..0 = {}
    BY <1>1 DEF Score!Range2
  <2> QED
    BY <1>2, <2>1
<1>4. ASSUME NEW n \in 0..(Len(ps) - 1), n \in X
      PROVE  n + 1 \in X
  <2>1. n + 1 \in 1..Len(ps) /\ (n + 1) - 1 = n /\ n + 1 \in 0..Len(ps) /\ n \in 0..Len(ps)
          /\ n \in Nat
    OBVIOUS
  <2>2. PICK c \in Seq(S) : c = Score!Chosen(ps, wanted, n + 1)
          /\ \A p : p \in Score!Range2(c) <=> p = ps[n + 1] /\ p \in wanted
    <3>1. ps[n + 1] \in S
      BY <2>1
    <3>2. CASE ps[n + 1] \in wanted
      <4>1. Score!Chosen(ps, wanted, n + 1) = <<ps[n + 1]>>
        BY <3>2 DEF Score!Chosen
      <4>2. <<ps[n + 1]>> \in Seq(S)
              /\ \A p : p \in Score!Range2(<<ps[n + 1]>>) <=> p = ps[n + 1]
        BY <3>1 DEF Score!Range2
      <4>3. PICK c : c = <<ps[n + 1]>>
        OBVIOUS
      <4>4. c \in Seq(S) /\ \A p : p \in Score!Range2(c) <=> p = ps[n + 1]
        BY <4>2, <4>3
      <4>5. \A p : p \in Score!Range2(c) <=> p = ps[n + 1] /\ p \in wanted
        BY <3>2, <4>4
      <4> QED
        BY <4>1, <4>3, <4>4, <4>5
    <3>3. CASE ps[n + 1] \notin wanted
      <4>1. Score!Chosen(ps, wanted, n + 1) = <<>>
        BY <3>3 DEF Score!Chosen
      <4>2. <<>> \in Seq(S) /\ \A p : p \notin Score!Range2(<<>>)
        BY DEF Score!Range2
      <4> QED
        BY <3>3, <4>1, <4>2
    <3> QED
      BY <3>2, <3>3
  <2>3. PICK u \in Seq(S) : u = r[n]
    BY <1>1, <2>1
  <2>4. r[n + 1] = u \o c
    BY <1>1, <2>1, <2>2, <2>3
  <2>5. Score!Range2(u \o c) = Score!Range2(u) \cup Score!Range2(c)
    <3>1. Range(u \o c) = Range(u) \cup Range(c) /\ u \o c \in Seq(S)
      BY RangesJoin
    <3>2. \A s \in Seq(S) : Score!Range2(s) = Range(s)
      BY DEF Range, Score!Range2
    <3> QED
      BY <3>1, <3>2
  <2>6. \A p : p \in Score!Range2(u) <=> (\E i \in 1..n : p = ps[i]) /\ p \in wanted
    BY <1>4, <2>3
  <2>7. \A p : (\E i \in 1..(n + 1) : p = ps[i]) <=> (\E i \in 1..n : p = ps[i])
          \/ p = ps[n + 1]
    BY <2>1
  <2>8. \A p : p \in Score!Range2(r[n + 1]) <=> (\E i \in 1..(n + 1) : p = ps[i])
          /\ p \in wanted
    BY <2>2, <2>4, <2>5, <2>6, <2>7
  <2> QED
    BY <2>1, <2>8
<1>5. Len(ps) \in X
  <2> HIDE DEF X
  <2>1. 0..Len(ps) \subseteq X
    BY <1>2, <1>3, <1>4, UpTo
  <2>2. Len(ps) \in 0..Len(ps)
    BY <1>2
  <2> QED
    BY <2>1, <2>2
<1>6. Score!Selected(ps, wanted) \in Seq(S)
  BY <1>1, <1>2
<1> QED
  BY <1>2, <1>5, <1>6 DEF Score!Range2

\* What a reading has found is a record.
ScoreIsEvidence(e) ==
  e = [first |-> e.first, conflicts |-> e.conflicts, outcomes |-> e.outcomes,
       points |-> e.points, sources |-> e.sources, series |-> e.series]

\* An entry: what a point says under its key.
ScoreId(n) == <<n.key, n.t>>
ScoreWhat(n) == <<n.v, n.st>>
ScoreRecordable(n) == n.v # score_Bad /\ score_Observed[n.t] # score_None
ScoreDiffers(n, m) == m.key = n.key /\ (m.t # n.t \/ m.v # n.v \/ m.st # n.st)

\* An entry is taken: its target first, then its outcome.
ScoreTake(e, n) ==
  LET e1 == Score!Targeted(e, n.key, n.t) IN
  IF n.v = score_Bad THEN [e1 EXCEPT !.conflicts = @ \cup {ScoreId(n)}]
  ELSE IF score_Observed[n.t] = score_None THEN e1
  ELSE Score!Recorded(e1, ScoreId(n), ScoreWhat(n))

\* First targets are those of entries, one for each key.
ScoreFirsts(f, E) ==
  /\ \A x \in f : \E n \in E : x = <<n.key, n.t>>
  /\ \A n \in E : \E x \in f : x[1] = n.key
  /\ \A x, y \in f : x[1] = y[1] => x = y
\* Entries with another target conflict, as do the first ones of their keys.
ScoreOthers(f, c, E) == \A n \in E, x \in f : x[1] = n.key /\ x[2] # n.t
  => ScoreId(n) \in c /\ x \in c
\* What conflicts has an entry that is bad or differs from another.
ScoreConflictsAre(c, E) ==
  \A i \in c : \E n \in E : i = ScoreId(n)
    /\ (n.v = score_Bad \/ \E m \in E : ScoreDiffers(n, m))
ScoreBadConflict(c, E) == \A n \in E : n.v = score_Bad => ScoreId(n) \in c
\* Outcomes are those of entries, one for each target, and none is missing that does not conflict.
ScoreOutcomesAre(o, E) == \A x \in o : \E n \in E : ScoreRecordable(n)
  /\ x = <<ScoreId(n), ScoreWhat(n)>>
ScoreOutcomesAll(o, c, E) == \A n \in E : ScoreRecordable(n)
  => <<ScoreId(n), ScoreWhat(n)>> \in o \/ ScoreId(n) \in c
ScoreOutcomesOnce(o) == \A x, y \in o : x[1] = y[1] => x = y

ScoreHolds(e, E) ==
  /\ ScoreFirsts(e.first, E) /\ ScoreOthers(e.first, e.conflicts, E)
  /\ ScoreConflictsAre(e.conflicts, E) /\ ScoreBadConflict(e.conflicts, E)
  /\ ScoreOutcomesAre(e.outcomes, E) /\ ScoreOutcomesAll(e.outcomes, e.conflicts, E)
  /\ ScoreOutcomesOnce(e.outcomes) /\ IsFiniteSet(e.outcomes)

\* The fields that taking an entry leaves alone.
ScoreSameMarks(d, e) == d.points = e.points /\ d.sources = e.sources /\ d.series = e.series

\* The target of an entry.
LEMMA ScoreTargetedIs ==
  ASSUME NEW e, ScoreIsEvidence(e), NEW key, NEW t
  PROVE  LET d == Score!Targeted(e, key, t)
             before == {f \in e.first : f[1] = key}
         IN /\ ScoreIsEvidence(d) /\ ScoreSameMarks(d, e) /\ d.outcomes = e.outcomes
            /\ before = {} => d.first = e.first \cup {<<key, t>>} /\ d.conflicts = e.conflicts
            /\ before # {} => /\ d.first = e.first
                              /\ d.conflicts = e.conflicts \cup
                                   UNION {{<<key, f[2]>>, <<key, t>>} :
                                            f \in {f \in before : f[2] # t}}
<1> DEFINE before == {f \in e.first : f[1] = key}
           clash == UNION {{<<key, f[2]>>, <<key, t>>} : f \in {f \in before : f[2] # t}}
           d == Score!Targeted(e, key, t)
<1>1. CASE before = {}
  <2>1. d = [e EXCEPT !.first = e.first \cup {<<key, t>>}]
    BY <1>1 DEF Score!Targeted
  <2> QED
    BY <1>1, <2>1 DEF ScoreIsEvidence, ScoreSameMarks
<1>2. CASE before # {}
  <2>1. d = [e EXCEPT !.conflicts = e.conflicts \cup clash]
    BY <1>2 DEF Score!Targeted
  <2> HIDE DEF clash, before
  <2>2. /\ ScoreIsEvidence(d) /\ ScoreSameMarks(d, e) /\ d.outcomes = e.outcomes
        /\ d.first = e.first /\ d.conflicts = e.conflicts \cup clash
    BY <2>1 DEF ScoreIsEvidence, ScoreSameMarks
  <2> QED
    BY <1>2, <2>2 DEF clash, before
<1> QED
  BY <1>1, <1>2

\* The outcome of an entry.
LEMMA ScoreRecordedIs ==
  ASSUME NEW e, ScoreIsEvidence(e), NEW id, NEW what
  PROVE  LET d == Score!Recorded(e, id, what)
             before == {o \in e.outcomes : o[1] = id}
         IN /\ ScoreIsEvidence(d) /\ ScoreSameMarks(d, e) /\ d.first = e.first
            /\ \/ id \in e.conflicts /\ d.conflicts = e.conflicts /\ d.outcomes = e.outcomes
               \/ before = {} /\ d.conflicts = e.conflicts
                    /\ d.outcomes = e.outcomes \cup {<<id, what>>}
               \/ /\ \E o \in before : o[2] # what
                  /\ d.outcomes = e.outcomes \ before /\ d.conflicts = e.conflicts \cup {id}
               \/ /\ before # {} /\ \A o \in before : o[2] = what
                  /\ d.conflicts = e.conflicts /\ d.outcomes = e.outcomes
<1> DEFINE before == {o \in e.outcomes : o[1] = id}
           d == Score!Recorded(e, id, what)
<1>1. CASE id \in e.conflicts
  <2>1. d = e
    BY <1>1 DEF Score!Recorded
  <2> QED
    BY <1>1, <2>1 DEF ScoreSameMarks
<1>2. CASE id \notin e.conflicts /\ before = {}
  <2>1. d = [e EXCEPT !.outcomes = e.outcomes \cup {<<id, what>>}]
    BY <1>2 DEF Score!Recorded
  <2> QED
    BY <1>2, <2>1 DEF ScoreIsEvidence, ScoreSameMarks
<1>3. CASE id \notin e.conflicts /\ before # {} /\ \E o \in before : o[2] # what
  <2>1. d = [e EXCEPT !.outcomes = e.outcomes \ before, !.conflicts = e.conflicts \cup {id}]
    BY <1>3 DEF Score!Recorded
  <2> HIDE DEF before
  <2>2. /\ ScoreIsEvidence(d) /\ ScoreSameMarks(d, e) /\ d.first = e.first
        /\ d.outcomes = e.outcomes \ before /\ d.conflicts = e.conflicts \cup {id}
    BY <2>1 DEF ScoreIsEvidence, ScoreSameMarks
  <2> QED
    BY <1>3, <2>2 DEF before
<1>4. CASE id \notin e.conflicts /\ before # {} /\ \A o \in before : o[2] = what
  <2>1. d = e
    BY <1>4 DEF Score!Recorded
  <2> QED
    BY <1>4, <2>1 DEF ScoreSameMarks
<1> QED
  BY <1>1, <1>2, <1>3, <1>4

\* The target of an entry is the first one of its key, or conflicts with it.
LEMMA ScoreTargetedHolds ==
  ASSUME NEW e, ScoreIsEvidence(e), NEW E, ScoreHolds(e, E), NEW n
  PROVE  LET d == Score!Targeted(e, n.key, n.t)
         IN /\ ScoreIsEvidence(d) /\ ScoreSameMarks(d, e) /\ d.outcomes = e.outcomes
            /\ e.conflicts \subseteq d.conflicts
            /\ ScoreFirsts(d.first, E \cup {n}) /\ ScoreOthers(d.first, d.conflicts, E \cup {n})
            /\ ScoreConflictsAre(d.conflicts, E \cup {n})
<1> DEFINE before == {f \in e.first : f[1] = n.key}
<1>1. PICK d : d = Score!Targeted(e, n.key, n.t)
  OBVIOUS
<1>2. /\ ScoreIsEvidence(d) /\ ScoreSameMarks(d, e) /\ d.outcomes = e.outcomes
      /\ before = {} => d.first = e.first \cup {<<n.key, n.t>>} /\ d.conflicts = e.conflicts
      /\ before # {} => /\ d.first = e.first
                        /\ d.conflicts = e.conflicts \cup
                             UNION {{<<n.key, f[2]>>, <<n.key, n.t>>} :
                                      f \in {f \in before : f[2] # n.t}}
  BY <1>1, ScoreTargetedIs
<1>3. /\ \A x \in e.first : \E m \in E : x = <<m.key, m.t>>
      /\ \A m \in E : \E x \in e.first : x[1] = m.key
      /\ \A x, y \in e.first : x[1] = y[1] => x = y
      /\ \A m \in E, x \in e.first : x[1] = m.key /\ x[2] # m.t
           => ScoreId(m) \in e.conflicts /\ x \in e.conflicts
      /\ \A i \in e.conflicts : \E m \in E : i = ScoreId(m)
           /\ (m.v = score_Bad \/ \E k \in E : ScoreDiffers(m, k))
  BY DEF ScoreHolds, ScoreFirsts, ScoreOthers, ScoreConflictsAre
<1>4. CASE before = {}
  <2>1. d.first = e.first \cup {<<n.key, n.t>>} /\ d.conflicts = e.conflicts
    BY <1>2, <1>4
  <2>2. \A m \in E : m.key # n.key
    BY <1>3, <1>4
  <2>3. ScoreFirsts(d.first, E \cup {n})
    <3>1. \A x \in d.first : \E m \in E \cup {n} : x = <<m.key, m.t>>
      BY <1>3, <2>1
    <3>2. \A m \in E \cup {n} : \E x \in d.first : x[1] = m.key
      <4>1. \E x \in d.first : x[1] = n.key
        <5>1. PICK y : y = <<n.key, n.t>>
          OBVIOUS
        <5>2. y \in d.first /\ y[1] = n.key
          BY <2>1, <5>1
        <5> QED
          BY <5>2
      <4>2. ASSUME NEW m \in E
            PROVE  \E x \in d.first : x[1] = m.key
        <5>1. PICK x \in e.first : x[1] = m.key
          BY <1>3
        <5>2. x \in d.first
          BY <2>1
        <5> QED
          BY <5>1, <5>2
      <4> QED
        BY <4>1, <4>2
    <3>3. ASSUME NEW x \in d.first, NEW y \in d.first, x[1] = y[1]
          PROVE  x = y
      <4>1. \A z \in e.first : z[1] # n.key
        BY <1>4
      <4> QED
        BY <1>3, <2>1, <3>3, <4>1
    <3> QED
      BY <3>1, <3>2, <3>3 DEF ScoreFirsts
  <2>4. ScoreOthers(d.first, d.conflicts, E \cup {n})
    <3> SUFFICES ASSUME NEW m \in E \cup {n}, NEW x \in d.first, x[1] = m.key, x[2] # m.t
                 PROVE  ScoreId(m) \in d.conflicts /\ x \in d.conflicts
      BY DEF ScoreOthers
    <3>1. CASE x \in e.first
      <4>1. m \in E
        BY <1>4, <3>1
      <4> QED
        BY <1>3, <2>1, <3>1, <4>1
    <3>2. CASE x = <<n.key, n.t>>
      <4>1. m \in E
        BY <3>2
      <4> QED
        BY <2>2, <3>2, <4>1
    <3> QED
      BY <2>1, <3>1, <3>2
  <2>5. ScoreConflictsAre(d.conflicts, E \cup {n})
    BY <1>3, <2>1 DEF ScoreConflictsAre
  <2> QED
    BY <1>1, <1>2, <2>1, <2>3, <2>4, <2>5
<1>5. CASE before # {}
  <2>1. PICK f \in e.first : f[1] = n.key
    BY <1>5
  <2>2. \A x \in e.first : x[1] = n.key => x = f
    BY <1>3, <2>1
  <2>3. PICK q \in E : f = <<q.key, q.t>>
    BY <1>3
  <2>4. /\ d.first = e.first
        /\ d.conflicts = e.conflicts
             \cup (IF f[2] # n.t THEN {<<n.key, f[2]>>, <<n.key, n.t>>} ELSE {})
    <3>1. before = {f}
      BY <2>1, <2>2
    <3>2. CASE f[2] # n.t
      <4>1. {x \in before : x[2] # n.t} = {f}
        BY <3>1, <3>2
      <4>2. UNION {{<<n.key, x[2]>>, <<n.key, n.t>>} : x \in {x \in before : x[2] # n.t}} =
              {<<n.key, f[2]>>, <<n.key, n.t>>}
        BY <4>1
      <4> QED
        BY <1>2, <1>5, <3>2, <4>2
    <3>3. CASE f[2] = n.t
      <4>1. {x \in before : x[2] # n.t} = {}
        BY <3>1, <3>3
      <4>2. UNION {{<<n.key, x[2]>>, <<n.key, n.t>>} : x \in {x \in before : x[2] # n.t}} = {}
        BY <4>1
      <4> QED
        BY <1>2, <1>5, <3>3, <4>2
    <3> QED
      BY <3>2, <3>3
  <2>5. <<n.key, f[2]>> = f /\ <<n.key, n.t>> = ScoreId(n) /\ f = ScoreId(q) /\ q.key = n.key
          /\ f[2] = q.t
    BY <2>1, <2>3 DEF ScoreId
  <2>6. d.conflicts = e.conflicts \cup (IF q.t # n.t THEN {ScoreId(q), ScoreId(n)} ELSE {})
    BY <2>4, <2>5
  <2>7. ScoreFirsts(d.first, E \cup {n})
    <3>1. \A m \in E \cup {n} : \E x \in d.first : x[1] = m.key
      BY <1>3, <2>1, <2>4
    <3> QED
      BY <1>3, <2>4, <3>1 DEF ScoreFirsts
  <2>8. ScoreOthers(d.first, d.conflicts, E \cup {n})
    <3> SUFFICES ASSUME NEW m \in E \cup {n}, NEW x \in d.first, x[1] = m.key, x[2] # m.t
                 PROVE  ScoreId(m) \in d.conflicts /\ x \in d.conflicts
      BY DEF ScoreOthers
    <3>1. CASE m \in E
      BY <1>3, <2>4, <3>1
    <3>2. CASE m = n
      <4>1. x = f
        BY <2>2, <2>4, <3>2
      <4>2. q.t # n.t
        BY <2>5, <3>2, <4>1
      <4> QED
        BY <2>5, <2>6, <3>2, <4>1, <4>2
    <3> QED
      BY <3>1, <3>2
  <2>9. ScoreConflictsAre(d.conflicts, E \cup {n})
    <3> SUFFICES ASSUME NEW i \in d.conflicts
                 PROVE  \E m \in E \cup {n} : i = ScoreId(m)
                          /\ (m.v = score_Bad \/ \E k \in E \cup {n} : ScoreDiffers(m, k))
      BY DEF ScoreConflictsAre
    <3>1. CASE i \in e.conflicts
      BY <1>3, <3>1
    <3>2. CASE i \notin e.conflicts
      <4>1. q.t # n.t /\ i \in {ScoreId(q), ScoreId(n)}
        BY <2>6, <3>2
      <4>2. ScoreDiffers(q, n) /\ ScoreDiffers(n, q)
        BY <2>5, <4>1 DEF ScoreDiffers
      <4> QED
        BY <4>1, <4>2
    <3> QED
      BY <3>1, <3>2
  <2> QED
    BY <1>1, <1>2, <2>6, <2>7, <2>8, <2>9
<1> QED
  BY <1>4, <1>5

\* Taking an entry keeps what holds, for one entry more.
LEMMA ScoreTakeHolds ==
  ASSUME NEW e, ScoreIsEvidence(e), NEW E, ScoreHolds(e, E), NEW n
  PROVE  /\ ScoreIsEvidence(ScoreTake(e, n)) /\ ScoreSameMarks(ScoreTake(e, n), e)
         /\ ScoreHolds(ScoreTake(e, n), E \cup {n})
<1>1. PICK d : d = Score!Targeted(e, n.key, n.t)
  OBVIOUS
<1>2. /\ ScoreIsEvidence(d) /\ ScoreSameMarks(d, e) /\ d.outcomes = e.outcomes
      /\ e.conflicts \subseteq d.conflicts
      /\ ScoreFirsts(d.first, E \cup {n}) /\ ScoreOthers(d.first, d.conflicts, E \cup {n})
      /\ ScoreConflictsAre(d.conflicts, E \cup {n})
  BY <1>1, ScoreTargetedHolds
<1>3. /\ \A m \in E : m.v = score_Bad => ScoreId(m) \in e.conflicts
      /\ \A x \in e.outcomes : \E m \in E : ScoreRecordable(m)
           /\ x = <<ScoreId(m), ScoreWhat(m)>>
      /\ \A m \in E : ScoreRecordable(m)
           => <<ScoreId(m), ScoreWhat(m)>> \in e.outcomes \/ ScoreId(m) \in e.conflicts
      /\ \A x, y \in e.outcomes : x[1] = y[1] => x = y
      /\ IsFiniteSet(e.outcomes)
  BY DEF ScoreHolds, ScoreBadConflict, ScoreOutcomesAre, ScoreOutcomesAll, ScoreOutcomesOnce
<1>4. CASE n.v = score_Bad
  <2>1. PICK b : b = [d EXCEPT !.conflicts = d.conflicts \cup {ScoreId(n)}]
    OBVIOUS
  <2>2. /\ ScoreIsEvidence(b) /\ ScoreSameMarks(b, e) /\ b.outcomes = e.outcomes
             /\ b.first = d.first
        /\ b.conflicts = d.conflicts \cup {ScoreId(n)}
    <3> HIDE DEF ScoreId
    <3>1. ScoreIsEvidence(b) /\ ScoreSameMarks(b, d)
      BY <1>2, <2>1 DEF ScoreIsEvidence, ScoreSameMarks
    <3> QED
      BY <1>2, <2>1, <3>1 DEF ScoreIsEvidence, ScoreSameMarks
  <2>3. b = ScoreTake(e, n)
    BY <1>1, <1>4, <2>1 DEF ScoreTake
  <2>4. ScoreOthers(b.first, b.conflicts, E \cup {n})
    BY <1>2, <2>2 DEF ScoreOthers
  <2>5. ScoreConflictsAre(b.conflicts, E \cup {n})
    BY <1>2, <1>4, <2>2 DEF ScoreConflictsAre
  <2>6. ScoreBadConflict(b.conflicts, E \cup {n})
    BY <1>2, <1>3, <2>2 DEF ScoreBadConflict
  <2>7. ScoreOutcomesAre(b.outcomes, E \cup {n})
    BY <1>3, <2>2 DEF ScoreOutcomesAre
  <2>8. ScoreOutcomesAll(b.outcomes, b.conflicts, E \cup {n})
    BY <1>2, <1>3, <2>2 DEF ScoreOutcomesAll
  <2>9. ScoreOutcomesOnce(b.outcomes)
    BY <1>3, <2>2 DEF ScoreOutcomesOnce
  <2>10. ScoreHolds(b, E \cup {n})
    BY <1>2, <1>3, <2>2, <2>4, <2>5, <2>6, <2>7, <2>8, <2>9 DEF ScoreHolds
  <2> QED
    BY <2>2, <2>3, <2>10
<1>5. CASE n.v # score_Bad /\ score_Observed[n.t] = score_None
  <2>1. d = ScoreTake(e, n)
    BY <1>1, <1>5 DEF ScoreTake
  <2>2. ~ScoreRecordable(n)
    BY <1>5 DEF ScoreRecordable
  <2>6. ScoreBadConflict(d.conflicts, E \cup {n})
    BY <1>2, <1>3, <1>5 DEF ScoreBadConflict
  <2>7. ScoreOutcomesAre(d.outcomes, E \cup {n})
    BY <1>2, <1>3 DEF ScoreOutcomesAre
  <2>8. ScoreOutcomesAll(d.outcomes, d.conflicts, E \cup {n})
    BY <1>2, <1>3, <2>2 DEF ScoreOutcomesAll
  <2>9. ScoreOutcomesOnce(d.outcomes)
    BY <1>2, <1>3 DEF ScoreOutcomesOnce
  <2>10. ScoreHolds(d, E \cup {n})
    BY <1>2, <1>3, <2>6, <2>7, <2>8, <2>9 DEF ScoreHolds
  <2> QED
    BY <1>2, <2>1, <2>10
<1>6. CASE n.v # score_Bad /\ score_Observed[n.t] # score_None
  <2> DEFINE before == {o \in d.outcomes : o[1] = ScoreId(n)}
  <2>1. PICK b : b = Score!Recorded(d, ScoreId(n), ScoreWhat(n))
    OBVIOUS
  <2>2. b = ScoreTake(e, n)
    BY <1>1, <1>6, <2>1 DEF ScoreTake
  <2>3. ScoreRecordable(n)
    BY <1>6 DEF ScoreRecordable
  <2>4. /\ ScoreIsEvidence(b) /\ ScoreSameMarks(b, d) /\ b.first = d.first
        /\ \/ ScoreId(n) \in d.conflicts /\ b.conflicts = d.conflicts /\ b.outcomes = d.outcomes
           \/ before = {} /\ b.conflicts = d.conflicts
                /\ b.outcomes = d.outcomes \cup {<<ScoreId(n), ScoreWhat(n)>>}
           \/ /\ \E o \in before : o[2] # ScoreWhat(n)
              /\ b.outcomes = d.outcomes \ before /\ b.conflicts = d.conflicts \cup {ScoreId(n)}
           \/ /\ before # {} /\ \A o \in before : o[2] = ScoreWhat(n)
              /\ b.conflicts = d.conflicts /\ b.outcomes = d.outcomes
    <3>1. PICK i, w : i = ScoreId(n) /\ w = ScoreWhat(n)
      OBVIOUS
    <3> HIDE DEF ScoreId, ScoreWhat
    <3> QED
      BY <1>2, <2>1, <3>1, ScoreRecordedIs
  <2>5. ScoreSameMarks(b, e)
    BY <1>2, <2>4 DEF ScoreSameMarks
  <2>6. ASSUME d.conflicts \subseteq b.conflicts, ScoreConflictsAre(b.conflicts, E \cup {n}),
               ScoreOutcomesAre(b.outcomes, E \cup {n}),
               ScoreOutcomesAll(b.outcomes, b.conflicts, E \cup {n}),
               ScoreOutcomesOnce(b.outcomes), IsFiniteSet(b.outcomes)
        PROVE  ScoreHolds(b, E \cup {n})
    <3>1. ScoreBadConflict(b.conflicts, E \cup {n})
      BY <1>2, <1>3, <1>6, <2>6 DEF ScoreBadConflict
    <3>2. ScoreOthers(b.first, b.conflicts, E \cup {n})
      BY <1>2, <2>4, <2>6 DEF ScoreOthers
    <3> QED
      BY <1>2, <2>4, <2>6, <3>1, <3>2 DEF ScoreHolds
  <2>7. CASE ScoreId(n) \in d.conflicts /\ b.conflicts = d.conflicts /\ b.outcomes = d.outcomes
    <3>1. ScoreOutcomesAre(b.outcomes, E \cup {n}) /\ ScoreOutcomesOnce(b.outcomes)
      BY <1>2, <1>3, <2>7 DEF ScoreOutcomesAre, ScoreOutcomesOnce
    <3>2. ScoreOutcomesAll(b.outcomes, b.conflicts, E \cup {n})
      BY <1>2, <1>3, <2>7 DEF ScoreOutcomesAll
    <3>3. ScoreHolds(b, E \cup {n})
      BY <1>2, <1>3, <2>6, <2>7, <3>1, <3>2
    <3> QED
      BY <2>2, <2>4, <2>5, <3>3
  <2>8. CASE before = {} /\ b.conflicts = d.conflicts
               /\ b.outcomes = d.outcomes \cup {<<ScoreId(n), ScoreWhat(n)>>}
    <3>1. ScoreOutcomesAre(b.outcomes, E \cup {n})
      BY <1>2, <1>3, <2>3, <2>8 DEF ScoreOutcomesAre
    <3>2. ScoreOutcomesAll(b.outcomes, b.conflicts, E \cup {n})
      BY <1>2, <1>3, <2>8 DEF ScoreOutcomesAll
    <3>3. ScoreOutcomesOnce(b.outcomes)
      <4>1. \A x \in e.outcomes : x[1] # ScoreId(n)
        BY <1>2, <2>8
      <4>2. PICK w : w = <<ScoreId(n), ScoreWhat(n)>>
        OBVIOUS
      <4>3. w[1] = ScoreId(n)
        BY <4>2
      <4>4. b.outcomes = e.outcomes \cup {w}
        BY <1>2, <2>8, <4>2
      <4> HIDE DEF ScoreId, ScoreWhat
      <4>5. \A x, y \in e.outcomes : x[1] = y[1] => x = y
        BY <1>3
      <4>6. SUFFICES ASSUME NEW x \in b.outcomes, NEW y \in b.outcomes, x[1] = y[1]
                     PROVE  x = y
        BY DEF ScoreOutcomesOnce
      <4>7. CASE x \in e.outcomes /\ y \in e.outcomes
        BY <4>5, <4>6, <4>7
      <4>8. CASE x \notin e.outcomes \/ y \notin e.outcomes
        BY <4>1, <4>3, <4>4, <4>6, <4>8
      <4> QED
        BY <4>7, <4>8
    <3>4. IsFiniteSet(b.outcomes)
      <4>1. PICK w : w = <<ScoreId(n), ScoreWhat(n)>>
        OBVIOUS
      <4>2. b.outcomes = e.outcomes \cup {w}
        BY <1>2, <2>8, <4>1
      <4> QED
        BY <1>3, <4>2, FS_AddElement
    <3>5. ScoreHolds(b, E \cup {n})
      BY <1>2, <2>6, <2>8, <3>1, <3>2, <3>3, <3>4
    <3> QED
      BY <2>2, <2>4, <2>5, <3>5
  <2>9. CASE /\ \E o \in before : o[2] # ScoreWhat(n)
             /\ b.outcomes = d.outcomes \ before /\ b.conflicts = d.conflicts \cup {ScoreId(n)}
    <3>1. PICK o \in before : o[2] # ScoreWhat(n)
      BY <2>9
    <3>2. PICK m \in E : ScoreRecordable(m) /\ o = <<ScoreId(m), ScoreWhat(m)>>
      BY <1>2, <1>3
    <3>3. ScoreId(m) = ScoreId(n) /\ ScoreWhat(m) # ScoreWhat(n)
      BY <3>1, <3>2
    <3>4. ScoreDiffers(n, m)
      BY <3>3 DEF ScoreDiffers, ScoreId, ScoreWhat
    <3>5. ScoreConflictsAre(b.conflicts, E \cup {n})
      BY <1>2, <2>9, <3>4 DEF ScoreConflictsAre
    <3>6. ScoreOutcomesAre(b.outcomes, E \cup {n}) /\ ScoreOutcomesOnce(b.outcomes)
      BY <1>2, <1>3, <2>9 DEF ScoreOutcomesAre, ScoreOutcomesOnce
    <3>7. ScoreOutcomesAll(b.outcomes, b.conflicts, E \cup {n})
      <4> SUFFICES ASSUME NEW k \in E, ScoreRecordable(k), ScoreId(k) # ScoreId(n),
                          <<ScoreId(k), ScoreWhat(k)>> \in e.outcomes
                   PROVE  <<ScoreId(k), ScoreWhat(k)>> \in b.outcomes
        BY <1>2, <1>3, <2>9 DEF ScoreOutcomesAll
      <4>1. <<ScoreId(k), ScoreWhat(k)>>[1] # ScoreId(n)
        OBVIOUS
      <4> QED
        BY <1>2, <2>9, <4>1
    <3>8. IsFiniteSet(b.outcomes)
      BY <1>2, <1>3, <2>9, FS_Subset
    <3>9. ScoreHolds(b, E \cup {n})
      BY <1>2, <2>6, <2>9, <3>5, <3>6, <3>7, <3>8
    <3> QED
      BY <2>2, <2>4, <2>5, <3>9
  <2>10. CASE /\ before # {} /\ \A o \in before : o[2] = ScoreWhat(n)
              /\ b.conflicts = d.conflicts /\ b.outcomes = d.outcomes
    <3>1. PICK o \in before : o[2] = ScoreWhat(n)
      BY <2>10
    <3>2. PICK m \in E : ScoreRecordable(m) /\ o = <<ScoreId(m), ScoreWhat(m)>>
      BY <1>2, <1>3
    <3>3. o[1] = ScoreId(n) /\ o \in e.outcomes
      BY <1>2
    <3>4. <<ScoreId(n), ScoreWhat(n)>> \in b.outcomes
      <4>1. ScoreId(m) = ScoreId(n) /\ ScoreWhat(m) = ScoreWhat(n)
        BY <3>1, <3>2, <3>3
      <4> QED
        BY <1>2, <2>10, <3>2, <3>3, <4>1
    <3>5. ScoreOutcomesAre(b.outcomes, E \cup {n}) /\ ScoreOutcomesOnce(b.outcomes)
      BY <1>2, <1>3, <2>10 DEF ScoreOutcomesAre, ScoreOutcomesOnce
    <3>6. ScoreOutcomesAll(b.outcomes, b.conflicts, E \cup {n})
      BY <1>2, <1>3, <2>10, <3>4 DEF ScoreOutcomesAll
    <3>7. ScoreHolds(b, E \cup {n})
      BY <1>2, <1>3, <2>6, <2>10, <3>5, <3>6
    <3> QED
      BY <2>2, <2>4, <2>5, <3>7
  <2> QED
    BY <2>4, <2>7, <2>8, <2>9, <2>10
<1> QED
  BY <1>4, <1>5, <1>6

\* The marks a plan leaves: of its broken curves, of its unknown and of its undated points.
ScoreBreaks(ps, p) ==
  UNION {{<<Score!Scope(p), r>> : r \in Score!Roles(ps, Score!Scope(p), c[1])} :
           c \in {c \in Score!Curves(p) : c[2] = score_None}}
ScoreUnknowns(ps, p) ==
  UNION {{<<Score!Scope(p), r>> : r \in Score!Roles(ps, Score!Scope(p), c[1])} :
         c \in {c \in Score!Curves(p) : c[2] # score_None /\ c[2].source = "unknown"}}
ScoreUndated(p) ==
  {<<Score!Scope(p), Score!Role(c[1], c[2].source), c[2].source>> :
   c \in {c \in Score!Curves(p) : c[2] # score_None /\ c[2].source # "unknown"
          /\ c[2].t = score_None}}

\* A point that is evidence, and its entry.
ScoreLive(p, c) ==
  /\ c[2] # score_None /\ c[2].t # score_None /\ c[2].source # "unknown"
  /\ ~(p.status = "fallback" /\ c[1] = "forecast" /\ c[2].source = "learned")
  /\ ~(c[1] = "shadow" /\ c[2].source # "learned")
ScoreEntryOf(p, c) ==
  [key |-> <<Score!Scope(p), Score!Role(c[1], c[2].source), c[2].source>>, t |-> c[2].t,
   v |-> c[2].v, st |-> p.status]
ScoreEntriesOf(p) ==
  IF p.forecast = score_None THEN {}
    ELSE {ScoreEntryOf(p, c) : c \in {c \in Score!Curves(p) : ScoreLive(p, c)}}

\* A plan has one shadow curve at most.
ScoreOneShadow(p) == p.shadow = {} \/ \E x : p.shadow = {x}

\* What the visit of a plan leaves.
LEMMA ScoreMarkedIs ==
  ASSUME NEW e, ScoreIsEvidence(e), NEW ps, NEW p
  PROVE  LET m == Score!Marked(e, ps, p)
         IN /\ ScoreIsEvidence(m)
            /\ m.first = e.first /\ m.conflicts = e.conflicts /\ m.outcomes = e.outcomes
            /\ m.series = e.series \cup ScoreBreaks(ps, p)
            /\ m.points = e.points \cup ScoreUnknowns(ps, p)
            /\ m.sources = e.sources \cup ScoreUndated(p)
<1> DEFINE broken == {c \in Score!Curves(p) : c[2] = score_None}
           unknown == {c \in Score!Curves(p) \ broken : c[2].source = "unknown"}
           undated == {c \in Score!Curves(p) \ (broken \cup unknown) : c[2].t = score_None}
           S == UNION {{<<Score!Scope(p), r>> : r \in Score!Roles(ps, Score!Scope(p), c[1])} :
                         c \in broken}
           P == UNION {{<<Score!Scope(p), r>> : r \in Score!Roles(ps, Score!Scope(p), c[1])} :
                         c \in unknown}
           U == {<<Score!Scope(p), Score!Role(c[1], c[2].source), c[2].source>> : c \in undated}
<1>1. PICK m : m = Score!Marked(e, ps, p)
  OBVIOUS
<1>2. m = [e EXCEPT !.series = e.series \cup S, !.points = e.points \cup P,
                    !.sources = e.sources \cup U]
  BY <1>1 DEF Score!Marked
<1>3. S = ScoreBreaks(ps, p)
  BY DEF ScoreBreaks
<1>4. P = ScoreUnknowns(ps, p)
  <2>1. unknown = {c \in Score!Curves(p) : c[2] # score_None /\ c[2].source = "unknown"}
    OBVIOUS
  <2> HIDE DEF unknown
  <2> QED
    BY <2>1 DEF ScoreUnknowns
<1>5. U = ScoreUndated(p)
  <2>1. undated = {c \in Score!Curves(p) : c[2] # score_None /\ c[2].source # "unknown"
                   /\ c[2].t = score_None}
    OBVIOUS
  <2> HIDE DEF undated
  <2> QED
    BY <2>1 DEF ScoreUndated
<1> HIDE DEF S, P, U
<1>6. /\ ScoreIsEvidence(m)
      /\ m.first = e.first /\ m.conflicts = e.conflicts /\ m.outcomes = e.outcomes
      /\ m.series = e.series \cup S /\ m.points = e.points \cup P
           /\ m.sources = e.sources \cup U
  BY <1>2 DEF ScoreIsEvidence
<1> QED
  BY <1>1, <1>3, <1>4, <1>5, <1>6

\* A point is taken if it is evidence.
LEMMA ScorePointedIs ==
  ASSUME NEW e, NEW p, NEW c
  PROVE  Score!Pointed(e, p, c) = IF ScoreLive(p, c) THEN ScoreTake(e, ScoreEntryOf(p, c))
           ELSE e
<1>1. CASE ScoreLive(p, c)
  <2>1. PICK n : n = ScoreEntryOf(p, c)
    OBVIOUS
  <2>2. /\ n.key = <<Score!Scope(p), Score!Role(c[1], c[2].source), c[2].source>>
        /\ n.t = c[2].t /\ n.v = c[2].v /\ n.st = p.status
    BY <2>1 DEF ScoreEntryOf
  <2> QED
    BY <1>1, <2>1, <2>2 DEF ScoreLive, Score!Pointed, ScoreTake, ScoreId, ScoreWhat
<1>2. CASE ~ScoreLive(p, c)
  BY <1>2 DEF ScoreLive, Score!Pointed
<1> QED
  BY <1>1, <1>2

LEMMA ScorePointedHolds ==
  ASSUME NEW e, ScoreIsEvidence(e), NEW E, ScoreHolds(e, E), NEW p, NEW c
  PROVE  LET d == Score!Pointed(e, p, c)
             N == IF ScoreLive(p, c) THEN {ScoreEntryOf(p, c)} ELSE {}
         IN ScoreIsEvidence(d) /\ ScoreSameMarks(d, e) /\ ScoreHolds(d, E \cup N)
<1>1. CASE ScoreLive(p, c)
  <2>1. PICK n : n = ScoreEntryOf(p, c)
    OBVIOUS
  <2>2. Score!Pointed(e, p, c) = ScoreTake(e, n)
    BY <1>1, <2>1, ScorePointedIs
  <2>3. ScoreIsEvidence(ScoreTake(e, n)) /\ ScoreSameMarks(ScoreTake(e, n), e)
          /\ ScoreHolds(ScoreTake(e, n), E \cup {n})
    BY ScoreTakeHolds
  <2> QED
    BY <1>1, <2>1, <2>2, <2>3
<1>2. CASE ~ScoreLive(p, c)
  <2>1. Score!Pointed(e, p, c) = e
    BY <1>2, ScorePointedIs
  <2>2. E \cup {} = E
    OBVIOUS
  <2> QED
    BY <1>2, <2>1, <2>2 DEF ScoreSameMarks
<1> QED
  BY <1>1, <1>2

\* The visit of a plan takes its entries.
LEMMA ScoreVisitedHolds ==
  ASSUME NEW e, ScoreIsEvidence(e), NEW E, ScoreHolds(e, E), NEW ps, NEW p, ScoreOneShadow(p)
  PROVE  LET d == Score!Visited(e, ps, p)
         IN /\ ScoreIsEvidence(d) /\ ScoreHolds(d, E \cup ScoreEntriesOf(p))
            /\ d.series = e.series \cup ScoreBreaks(ps, p)
            /\ d.points = e.points \cup ScoreUnknowns(ps, p)
            /\ d.sources = e.sources \cup ScoreUndated(p)
<1> DEFINE c1 == <<"forecast", p.forecast>>
<1>1. PICK m : m = Score!Marked(e, ps, p)
  OBVIOUS
<1>2. /\ ScoreIsEvidence(m)
      /\ m.first = e.first /\ m.conflicts = e.conflicts /\ m.outcomes = e.outcomes
      /\ m.series = e.series \cup ScoreBreaks(ps, p)
      /\ m.points = e.points \cup ScoreUnknowns(ps, p)
      /\ m.sources = e.sources \cup ScoreUndated(p)
  BY <1>1, ScoreMarkedIs
<1>3. ScoreHolds(m, E)
  BY <1>2 DEF ScoreHolds
<1>4. CASE p.forecast = score_None
  <2>1. Score!Visited(e, ps, p) = m
    BY <1>1, <1>4 DEF Score!Visited
  <2>2. E \cup ScoreEntriesOf(p) = E
    BY <1>4 DEF ScoreEntriesOf
  <2> QED
    BY <1>2, <1>3, <2>1, <2>2
<1>5. PICK f : f = Score!Pointed(m, p, c1)
  OBVIOUS
<1>6. PICK N : N = IF ScoreLive(p, c1) THEN {ScoreEntryOf(p, c1)} ELSE {}
  OBVIOUS
<1>7. ScoreIsEvidence(f) /\ ScoreSameMarks(f, m) /\ ScoreHolds(f, E \cup N)
  BY <1>2, <1>3, <1>5, <1>6, ScorePointedHolds
<1>8. CASE p.forecast # score_None /\ p.shadow = {}
  <2>1. Score!Visited(e, ps, p) = f
    BY <1>1, <1>5, <1>8 DEF Score!Visited
  <2>2. Score!Curves(p) = {c1}
    BY <1>8 DEF Score!Curves
  <2>3. ScoreEntriesOf(p) = N
    <3> HIDE DEF c1
    <3> QED
      BY <1>6, <1>8, <2>2 DEF ScoreEntriesOf
  <2> QED
    BY <1>2, <1>7, <2>1, <2>3 DEF ScoreSameMarks
<1>9. ASSUME p.forecast # score_None, NEW x, p.shadow = {x}
      PROVE  LET d == Score!Visited(e, ps, p)
             IN /\ ScoreIsEvidence(d) /\ ScoreHolds(d, E \cup ScoreEntriesOf(p))
                /\ d.series = e.series \cup ScoreBreaks(ps, p)
                /\ d.points = e.points \cup ScoreUnknowns(ps, p)
                /\ d.sources = e.sources \cup ScoreUndated(p)
  <2> DEFINE c2 == <<"shadow", x>>
  <2>1. (CHOOSE y \in p.shadow : TRUE) = x
    BY <1>9
  <2>2. PICK g : g = Score!Pointed(f, p, c2)
    OBVIOUS
  <2>3. Score!Visited(e, ps, p) = g
    BY <1>1, <1>5, <1>9, <2>1, <2>2 DEF Score!Visited
  <2>4. PICK M : M = IF ScoreLive(p, c2) THEN {ScoreEntryOf(p, c2)} ELSE {}
    OBVIOUS
  <2>5. PICK D : D = E \cup N
    OBVIOUS
  <2>6. ScoreIsEvidence(g) /\ ScoreSameMarks(g, f) /\ ScoreHolds(g, D \cup M)
    BY <1>7, <2>2, <2>4, <2>5, ScorePointedHolds
  <2>7. Score!Curves(p) = {c1, c2}
    BY <1>9 DEF Score!Curves
  <2>8. ScoreEntriesOf(p) = N \cup M
    <3> HIDE DEF c1, c2
    <3> QED
      BY <1>6, <1>9, <2>4, <2>7 DEF ScoreEntriesOf
  <2>9. D \cup M = E \cup ScoreEntriesOf(p)
    BY <2>5, <2>8
  <2> QED
    BY <1>2, <1>7, <2>3, <2>6, <2>9 DEF ScoreSameMarks
<1> QED
  BY <1>4, <1>8, <1>9 DEF ScoreOneShadow

\* The entries and the marks of several plans.
ScoreEntries(V) == UNION {ScoreEntriesOf(p) : p \in V}
ScoreAllBreaks(ps, V) == UNION {ScoreBreaks(ps, p) : p \in V}
ScoreAllUnknowns(ps, V) == UNION {ScoreUnknowns(ps, p) : p \in V}
ScoreAllUndated(V) == UNION {ScoreUndated(p) : p \in V}
\* The evidence e is that of the plans in V.
ScoreReadFrom(e, ps, V) ==
  /\ ScoreIsEvidence(e) /\ ScoreHolds(e, ScoreEntries(V))
  /\ e.series = ScoreAllBreaks(ps, V) /\ e.points = ScoreAllUnknowns(ps, V)
       /\ e.sources = ScoreAllUndated(V)

LEMMA ScoreStartHolds ==
  ASSUME NEW ps
  PROVE  ScoreReadFrom(Score!Start, ps, {})
<1>1. /\ ScoreEntries({}) = {} /\ ScoreAllBreaks(ps, {}) = {} /\ ScoreAllUnknowns(ps, {}) = {}
           /\ ScoreAllUndated({}) = {}
  BY DEF ScoreEntries, ScoreAllBreaks, ScoreAllUnknowns, ScoreAllUndated
<1>2. IsFiniteSet({})
  BY FS_EmptySet
<1>3. /\ ScoreIsEvidence(Score!Start) /\ Score!Start.first = {} /\ Score!Start.conflicts = {}
           /\ Score!Start.outcomes = {}
      /\ Score!Start.points = {} /\ Score!Start.sources = {} /\ Score!Start.series = {}
  BY DEF Score!Start, ScoreIsEvidence
<1>4. ScoreHolds(Score!Start, {})
  BY <1>2, <1>3 DEF ScoreHolds, ScoreFirsts, ScoreOthers, ScoreConflictsAre,
     ScoreBadConflict, ScoreOutcomesAre, ScoreOutcomesAll, ScoreOutcomesOnce
<1> QED
  BY <1>1, <1>3, <1>4 DEF ScoreReadFrom

LEMMA ScoreVisitedFrom ==
  ASSUME NEW e, NEW ps, NEW V, ScoreReadFrom(e, ps, V), NEW p, ScoreOneShadow(p)
  PROVE  ScoreReadFrom(Score!Visited(e, ps, p), ps, V \cup {p})
<1>1. /\ ScoreEntries(V \cup {p}) = ScoreEntries(V) \cup ScoreEntriesOf(p)
      /\ ScoreAllBreaks(ps, V \cup {p}) = ScoreAllBreaks(ps, V) \cup ScoreBreaks(ps, p)
      /\ ScoreAllUnknowns(ps, V \cup {p}) = ScoreAllUnknowns(ps, V) \cup ScoreUnknowns(ps, p)
      /\ ScoreAllUndated(V \cup {p}) = ScoreAllUndated(V) \cup ScoreUndated(p)
  BY DEF ScoreEntries, ScoreAllBreaks, ScoreAllUnknowns, ScoreAllUndated
<1>2. PICK d : d = Score!Visited(e, ps, p)
  OBVIOUS
<1>3. ScoreIsEvidence(e) /\ ScoreHolds(e, ScoreEntries(V))
  BY DEF ScoreReadFrom
<1>4. PICK E : E = ScoreEntries(V)
  OBVIOUS
<1>6. ScoreIsEvidence(e) /\ ScoreHolds(e, E)
  BY <1>3, <1>4
<1>5. /\ ScoreIsEvidence(d) /\ ScoreHolds(d, E \cup ScoreEntriesOf(p))
      /\ d.series = e.series \cup ScoreBreaks(ps, p)
      /\ d.points = e.points \cup ScoreUnknowns(ps, p)
      /\ d.sources = e.sources \cup ScoreUndated(p)
  BY <1>2, <1>6, ScoreVisitedHolds, SMTT(60)
<1> QED
  BY <1>1, <1>2, <1>4, <1>5 DEF ScoreReadFrom

\* The reading of clear plans takes the entries of all of them.
LEMMA ScoreReadingHolds ==
  ASSUME NEW ps, NEW clear \in Seq({p \in Score!Savable : ScoreOneShadow(p)})
  PROVE  ScoreReadFrom(Score!Reading(ps, clear)[Len(clear)], ps, Score!Range2(clear))
<1> DEFINE r == Score!Reading(ps, clear)
           L == Len(clear)
           V(n) == {clear[i] : i \in (L - n + 1)..L}
           X == {n \in 0..L : ScoreReadFrom(r[n], ps, V(n))}
<1>1. r[0] = Score!Start /\ \A n \in 1..L : r[n] = Score!Visited(r[n - 1], ps, clear[L - n + 1])
  BY ScoreReadingIs
<1>2. L \in Nat /\ \A i \in 1..L : ScoreOneShadow(clear[i])
  OBVIOUS
<1> HIDE DEF r, L
<1>3. 0 \in X
  <2>1. V(0) = {}
    BY <1>2
  <2>2. 0 \in 0..L
    BY <1>2
  <2>3. ScoreReadFrom(r[0], ps, {})
    BY <1>1, ScoreStartHolds
  <2> HIDE DEF V
  <2> QED
    BY <2>1, <2>2, <2>3
<1>4. \A n \in 0..(L - 1) : n \in X => n + 1 \in X
  <2>1. SUFFICES ASSUME NEW n \in 0..(L - 1), ScoreReadFrom(r[n], ps, V(n))
                 PROVE  n + 1 \in X
    OBVIOUS
  <2>2. n + 1 \in 1..L /\ (n + 1) - 1 = n /\ L - (n + 1) + 1 = L - n /\ L - n \in 1..L
          /\ n + 1 \in 0..L
    BY <1>2
  <2>3. r[n + 1] = Score!Visited(r[n], ps, clear[L - n])
    BY <1>1, <2>2
  <2>4. V(n + 1) = V(n) \cup {clear[L - n]}
    <3>1. ((L - (n + 1) + 1)..L) = ((L - n + 1)..L) \cup {L - n}
      BY <1>2, <2>2
    <3> QED
      BY <3>1
  <2>5. PICK p : p = clear[L - n]
    OBVIOUS
  <2>6. PICK W : W = V(n)
    OBVIOUS
  <2> HIDE DEF V
  <2>7. ScoreOneShadow(p)
    BY <1>2, <2>2, <2>5
  <2>8. ScoreReadFrom(Score!Visited(r[n], ps, p), ps, W \cup {p})
    BY <2>1, <2>6, <2>7, ScoreVisitedFrom
  <2> QED
    BY <2>2, <2>3, <2>4, <2>5, <2>6, <2>8
<1>5. L \in X
  <2> HIDE DEF X
  <2>1. 0..L \subseteq X
    BY <1>2, <1>3, <1>4, UpTo
  <2>2. L \in 0..L
    BY <1>2
  <2> QED
    BY <2>1, <2>2
<1>6. V(L) = Score!Range2(clear)
  BY <1>2 DEF Score!Range2, L
<1> QED
  BY <1>5, <1>6 DEF r, L

\* A curve has no point, or one that is given by what it says.
ScoreIsCurve(x) == x = score_None \/ x = [t |-> x.t, v |-> x.v, source |-> x.source]
ScoreDrawn(p) == \A c \in Score!Curves(p) : ScoreIsCurve(c[2])

LEMMA ScorePointsAre ==
  ASSUME NEW t, NEW v, NEW source
  PROVE  ScoreIsCurve(Score!Point(t, v, source))
<1>1. PICK x : x = Score!Point(t, v, source)
  OBVIOUS
<1>2. x.t = t /\ x.v = v /\ x.source = source
  BY <1>1 DEF Score!Point
<1> QED
  BY <1>1, <1>2 DEF Score!Point, ScoreIsCurve

LEMMA ScoreSavableIs ==
  ASSUME NEW p \in Score!Savable
  PROVE  ScoreOneShadow(p) /\ ScoreDrawn(p)
<1>1. PICK d \in score_Devices :
        p \in {Score!Sound(d)} \cup Score!Damaged(Score!Sound(d))
          \cup Score!Different(Score!Sound(d))
  BY DEF Score!Savable
<1>2. PICK s : s = Score!Sound(d)
  OBVIOUS
<1>3. s.forecast = Score!Point(1, 1, "learned") /\ s.shadow = {}
  BY <1>2 DEF Score!Sound
<1>4. \A x \in Score!Learned : ScoreIsCurve(x)
  BY ScorePointsAre DEF Score!Learned, ScoreIsCurve
<1>5. ScoreIsCurve(Score!Point(1, 1, "learned")) /\ ScoreIsCurve(Score!Point(1, 1, "rule"))
        /\ ScoreIsCurve(Score!Point(1, 2, "learned"))
  BY ScorePointsAre
<1>6. ScoreIsCurve(p.forecast) /\ (p.shadow = {} \/ \E x : p.shadow = {x} /\ ScoreIsCurve(x))
  <2> HIDE DEF ScoreIsCurve, Score!Point
  <2>0. \/ p = s
        \/ p \in Score!Damaged(s)
        \/ p \in Score!Different(s)
    BY <1>1, <1>2
  <2>1. CASE p = s
    BY <1>3, <1>5, <2>1
  <2>2. CASE p \in Score!Damaged(s)
    <3>1. p.forecast = s.forecast /\ p.shadow = s.shadow
      BY <1>2, <2>2 DEF Score!Damaged, Score!Sound
    <3> QED
      BY <1>3, <1>5, <3>1
  <2>3. CASE p \in Score!Different(s)
    <3>1. \/ p.forecast = s.forecast /\ p.shadow = s.shadow
          \/ p.forecast = s.forecast /\ p.shadow = {Score!Point(1, 2, "learned")}
          \/ p.forecast = Score!Point(1, 1, "rule") /\ p.shadow = {Score!Point(1, 1, "learned")}
          \/ p.forecast \in Score!Learned /\ p.shadow = s.shadow
          \/ p.forecast = s.forecast /\ \E x \in Score!Learned : p.shadow = {x}
      <4>1. p \in {[s EXCEPT !.issue = 2], [s EXCEPT !.status = "fallback"],
                             [s EXCEPT !.live = TRUE],
                   [s EXCEPT !.status = "fallback", !.shadow = {Score!Point(1, 2, "learned")}],
                   [s EXCEPT !.forecast = Score!Point(1, 1, "rule"),
                             !.shadow = {Score!Point(1, 1, "learned")}]}
            \/ (\E x \in Score!Learned : p = [s EXCEPT !.forecast = x])
            \/ (\E x \in Score!Learned : p = [s EXCEPT !.shadow = {x}])
            \/ (\E x \in Score!Pair : p = [s EXCEPT !.zero = x])
        BY <2>3 DEF Score!Different
      <4> QED
        BY <1>2, <4>1 DEF Score!Sound
    <3> QED
      BY <1>3, <1>4, <1>5, <3>1
  <2> QED
    BY <2>0, <2>1, <2>2, <2>3
<1> QED
  BY <1>6 DEF ScoreOneShadow, ScoreDrawn, Score!Curves

\* The whole plans of an issue.
ScoreOf(ps, sc) == {p \in Score!Range2(ps) : Score!Whole(p) /\ Score!Scope(p) = sc}
\* An issue is clear if no damaged plan fits it, and its plans have one status.
ScoreIsClear(ps, sc) ==
  /\ \A p \in Score!Range2(ps) : ~Score!Whole(p)
       => ~\E q \in Score!Range2(ps) : Score!Whole(q) /\ Score!Scope(q) = sc /\ Score!Fits(p, q)
  /\ \A p, q \in Score!Range2(ps) : Score!Whole(p) /\ Score!Whole(q) /\ Score!Scope(p) = sc
       /\ Score!Scope(q) = sc =>
       p.status = q.status

LEMMA ScoreClearIs ==
  ASSUME NEW ps, NEW sc
  PROVE  sc \notin Score!AmbiguousScopes(ps) <=> ScoreIsClear(ps, sc)
<1> DEFINE W == Score!Range2(ps)
           whole == {p \in W : Score!Whole(p)}
           bad == {p \in whole :
             \/ \E q \in whole : Score!Scope(q) = Score!Scope(p) /\ q.status # p.status
             \/ \E q \in W : ~Score!Whole(q) /\ Score!Fits(q, p)}
<1>1. Score!AmbiguousScopes(ps) = {Score!Scope(p) : p \in bad}
  BY DEF Score!AmbiguousScopes
<1> HIDE DEF W
<1>2. ScoreIsClear(ps, sc) <=>
        /\ \A p \in W : ~Score!Whole(p)
             => ~\E q \in W : Score!Whole(q) /\ Score!Scope(q) = sc /\ Score!Fits(p, q)
        /\ \A p, q \in W : Score!Whole(p) /\ Score!Whole(q) /\ Score!Scope(p) = sc
             /\ Score!Scope(q) = sc => p.status = q.status
  BY DEF ScoreIsClear, W
<1> QED
  BY <1>1, <1>2

LEMMA ScoreClearOf ==
  ASSUME NEW ps
  PROVE  \A p : p \in Score!Clear(ps) <=> p \in ScoreOf(ps, Score!Scope(p))
           /\ ScoreIsClear(ps, Score!Scope(p))
BY ScoreClearIs DEF Score!Clear, ScoreOf

\* The curves in which a learned prediction is served for an issue.
ScoreServed(ps, sc) ==
  {c[1] : c \in UNION {{c \in Score!Curves(p) : c[2] # score_None /\ c[2].source = "learned"} :
                         p \in ScoreOf(ps, sc)}}
\* The curves of an issue that serve learned predictions are sound.
ScoreUnmarked(ps, sc) ==
  \A p \in ScoreOf(ps, sc) : \A c \in Score!Curves(p) : c[1] \in ScoreServed(ps, sc) =>
    c[2] # score_None /\ c[2].source # "unknown"
      /\ (c[2].source = "learned" => c[2].t # score_None)

\* A curve has the learned role where it serves.
LEMMA ScoreRolesAre ==
  ASSUME NEW ps, NEW sc, NEW s \in {"forecast", "shadow"}
  PROVE  "learned" \in Score!Roles(ps, sc, s) <=> s \in ScoreServed(ps, sc)
<1> DEFINE all == UNION {Score!Curves(p) : p \in ScoreOf(ps, sc)}
           cs == {c \in all : c[1] = s /\ c[2] # score_None /\ c[2].source # "unknown"}
           known == {Score!Role(s, c[2].source) : c \in cs}
<1>1. Score!Roles(ps, sc, s) = IF known = {} THEN {s} ELSE known
  BY DEF Score!Roles, ScoreOf
<1>2. \A x : Score!Role(s, x) = "learned" <=> x = "learned"
  BY DEF Score!Role
<1>3. "learned" \in known <=> \E c \in all : c[1] = s /\ c[2] # score_None
        /\ c[2].source = "learned"
  <2> HIDE DEF all
  <2> QED
    BY <1>2
<1>4. s \in ScoreServed(ps, sc) <=> \E c \in all : c[1] = s /\ c[2] # score_None
        /\ c[2].source = "learned"
  BY DEF ScoreServed
<1>5. "learned" \in Score!Roles(ps, sc, s) <=> "learned" \in known
  <2> HIDE DEF known
  <2> QED
    BY <1>1
<1> QED
  BY <1>3, <1>4, <1>5

\* What marks the learned role of a clear issue.
LEMMA ScoreUnmarkedIs ==
  ASSUME NEW ps, NEW sc, ScoreIsClear(ps, sc)
  PROVE  ScoreUnmarked(ps, sc) <=> /\ <<sc, "learned">> \notin ScoreAllBreaks(ps, Score!Clear(ps))
                                   /\ <<sc, "learned">> \notin ScoreAllUnknowns(ps,
                                                            Score!Clear(ps))
                                   /\ <<sc, "learned", "learned">> \notin ScoreAllUndated(Score!Clear(ps))
<1>0. \A p : p \in Score!Clear(ps) /\ Score!Scope(p) = sc <=> p \in ScoreOf(ps, sc)
  BY ScoreClearOf DEF ScoreOf
<1>1. \A p : \A c \in Score!Curves(p) : c[1] \in {"forecast", "shadow"}
  BY DEF Score!Curves
<1>2. <<sc, "learned">> \in ScoreAllBreaks(ps, Score!Clear(ps)) <=>
        \E p \in ScoreOf(ps, sc) : \E c \in Score!Curves(p) : c[2] = score_None
          /\ c[1] \in ScoreServed(ps, sc)
  <2>1. <<sc, "learned">> \in ScoreAllBreaks(ps, Score!Clear(ps)) <=>
          \E p \in Score!Clear(ps) : Score!Scope(p) = sc
            /\ \E c \in Score!Curves(p) : c[2] = score_None
            /\ "learned" \in Score!Roles(ps, sc, c[1])
    BY DEF ScoreAllBreaks, ScoreBreaks
  <2> QED
    BY <1>0, <1>1, <2>1, ScoreRolesAre
<1>3. <<sc, "learned">> \in ScoreAllUnknowns(ps, Score!Clear(ps)) <=>
        \E p \in ScoreOf(ps, sc) : \E c \in Score!Curves(p) :
          c[2] # score_None /\ c[2].source = "unknown" /\ c[1] \in ScoreServed(ps, sc)
  <2>1. <<sc, "learned">> \in ScoreAllUnknowns(ps, Score!Clear(ps)) <=>
          \E p \in Score!Clear(ps) : Score!Scope(p) = sc /\ \E c \in Score!Curves(p) :
            c[2] # score_None /\ c[2].source = "unknown"
              /\ "learned" \in Score!Roles(ps, sc, c[1])
    BY DEF ScoreAllUnknowns, ScoreUnknowns
  <2> QED
    BY <1>0, <1>1, <2>1, ScoreRolesAre
<1>4. <<sc, "learned", "learned">> \in ScoreAllUndated(Score!Clear(ps)) <=>
        \E p \in ScoreOf(ps, sc) : \E c \in Score!Curves(p) : c[2] # score_None
          /\ c[2].source = "learned" /\ c[2].t = score_None
  <2>1. <<sc, "learned", "learned">> \in ScoreAllUndated(Score!Clear(ps)) <=>
          \E p \in Score!Clear(ps) : Score!Scope(p) = sc /\ \E c \in Score!Curves(p) :
            c[2] # score_None /\ c[2].source = "learned" /\ c[2].t = score_None
    <3>1. \A s : Score!Role(s, "learned") = "learned"
      BY DEF Score!Role
    <3>2. <<sc, "learned", "learned">> \in ScoreAllUndated(Score!Clear(ps)) <=>
            \E p \in Score!Clear(ps) : \E c \in Score!Curves(p) :
              /\ c[2] # score_None /\ c[2].source # "unknown" /\ c[2].t = score_None
              /\ <<sc, "learned", "learned">> =
                   <<Score!Scope(p), Score!Role(c[1], c[2].source), c[2].source>>
      BY DEF ScoreAllUndated, ScoreUndated
    <3> QED
      BY <3>1, <3>2
  <2> QED
    BY <1>0, <2>1
<1>5. \A p \in ScoreOf(ps, sc) : \A c \in Score!Curves(p) :
        c[2] # score_None /\ c[2].source = "learned" => c[1] \in ScoreServed(ps, sc)
  BY DEF ScoreServed
<1> QED
  BY <1>2, <1>3, <1>4, <1>5 DEF ScoreUnmarked

\* What a claim says, as an entry.
ScoreSaid(sc, a) == [key |-> <<sc, "learned", "learned">>, t |-> a[2].t, v |-> a[2].v,
                     st |-> a[1].status]
\* A point of a plan is a claim.
ScoreClaimed(p, c) ==
  /\ c[2] # score_None /\ c[2].source = "learned"
  /\ ~(p.status = "fallback" /\ c[1] = "forecast") /\ p.forecast # score_None

LEMMA ScoreClaimsAre ==
  ASSUME NEW ps, NEW sc, NEW a
  PROVE  a \in Score!Claims(sc, Score!Range2(ps)) <=>
           \E p \in ScoreOf(ps, sc) : \E c \in Score!Curves(p) : ScoreClaimed(p, c)
             /\ a = <<p, c[2]>>
<1> DEFINE good(p) == {c \in Score!Curves(p) : /\ c[2] # score_None /\ c[2].source = "learned"
                                               /\ ~(p.status = "fallback" /\ c[1] = "forecast")
                                                    /\ p.forecast # score_None}
           whole == {p \in Score!Range2(ps) : Score!Whole(p) /\ Score!Scope(p) = sc}
<1>1. Score!Claims(sc, Score!Range2(ps)) = UNION {{<<p, c[2]>> : c \in good(p)} : p \in whole}
  BY DEF Score!Claims
<1>2. whole = ScoreOf(ps, sc)
  BY DEF ScoreOf
<1>3. \A p : good(p) = {c \in Score!Curves(p) : ScoreClaimed(p, c)}
  BY DEF ScoreClaimed
<1> HIDE DEF whole, good
<1> QED
  BY <1>1, <1>2, <1>3

\* The learned entries of a clear issue are its dated claims.
LEMMA ScoreEntriesAre ==
  ASSUME NEW ps, NEW n, n \in ScoreEntries(Score!Clear(ps)), n.key[3] = "learned"
  PROVE  /\ ScoreIsClear(ps, n.key[1]) /\ ScoreOf(ps, n.key[1]) # {}
         /\ \E a \in Score!Claims(n.key[1], Score!Range2(ps)) : a[2].t # score_None
              /\ n = ScoreSaid(n.key[1], a)
<1>1. PICK p \in Score!Clear(ps) : n \in ScoreEntriesOf(p)
  BY DEF ScoreEntries
<1>2. PICK c \in Score!Curves(p) : ScoreLive(p, c) /\ n = ScoreEntryOf(p, c)
        /\ p.forecast # score_None
  BY <1>1 DEF ScoreEntriesOf
<1>3. n.key = <<Score!Scope(p), Score!Role(c[1], c[2].source), c[2].source>>
  BY <1>2 DEF ScoreEntryOf
<1>4. c[2].source = "learned" /\ Score!Role(c[1], c[2].source) = "learned"
        /\ n.key[1] = Score!Scope(p)
  BY <1>3 DEF Score!Role
<1>5. p \in ScoreOf(ps, Score!Scope(p)) /\ ScoreIsClear(ps, Score!Scope(p))
  BY <1>1, ScoreClearOf
<1>6. PICK sc : sc = Score!Scope(p)
  OBVIOUS
<1>7. PICK a : a = <<p, c[2]>>
  OBVIOUS
<1>8. a \in Score!Claims(sc, Score!Range2(ps))
  <2>1. ScoreClaimed(p, c)
    BY <1>2, <1>4 DEF ScoreLive, ScoreClaimed
  <2> QED
    BY <1>5, <1>6, <1>7, <2>1, ScoreClaimsAre
<1>9. a[2].t # score_None /\ n = ScoreSaid(sc, a)
  <2>1. a[1] = p /\ a[2] = c[2]
    BY <1>7
  <2>2. a[2].t # score_None
    BY <1>2, <2>1 DEF ScoreLive
  <2>3. n = [key |-> <<sc, "learned", "learned">>, t |-> c[2].t, v |-> c[2].v, st |-> p.status]
    BY <1>2, <1>4, <1>6 DEF ScoreEntryOf
  <2> QED
    BY <2>1, <2>2, <2>3 DEF ScoreSaid
<1> QED
  BY <1>4, <1>5, <1>6, <1>8, <1>9

LEMMA ScoreClaimsEnter ==
  ASSUME NEW ps, NEW sc, ScoreIsClear(ps, sc), NEW a \in Score!Claims(sc, Score!Range2(ps)),
         a[2].t # score_None
  PROVE  ScoreSaid(sc, a) \in ScoreEntries(Score!Clear(ps))
<1>1. PICK p \in ScoreOf(ps, sc) : \E c \in Score!Curves(p) : ScoreClaimed(p, c)
        /\ a = <<p, c[2]>>
  BY ScoreClaimsAre
<1>2. PICK c \in Score!Curves(p) : ScoreClaimed(p, c) /\ a = <<p, c[2]>>
  BY <1>1
<1>3. a[1] = p /\ a[2] = c[2]
  BY <1>2
<1>4. p \in Score!Clear(ps) /\ Score!Scope(p) = sc
  BY <1>1, ScoreClearOf DEF ScoreOf
<1>5. ScoreLive(p, c) /\ p.forecast # score_None /\ c[2].source = "learned"
  BY <1>2, <1>3 DEF ScoreClaimed, ScoreLive
<1>6. ScoreEntryOf(p, c) = ScoreSaid(sc, a)
  <2>1. Score!Role(c[1], c[2].source) = "learned"
    BY <1>5 DEF Score!Role
  <2>2. ScoreEntryOf(p, c) =
          [key |-> <<sc, "learned", "learned">>, t |-> c[2].t, v |-> c[2].v, st |-> p.status]
    BY <1>4, <1>5, <2>1 DEF ScoreEntryOf
  <2> QED
    BY <1>3, <2>2 DEF ScoreSaid
<1>7. ScoreEntryOf(p, c) \in ScoreEntriesOf(p)
  BY <1>5 DEF ScoreEntriesOf
<1> QED
  BY <1>4, <1>6, <1>7 DEF ScoreEntries

\* The parts of unanimity.
ScoreAgree(ps, sc) ==
  \A a, b \in Score!Claims(sc, Score!Range2(ps)) : a[2] = b[2] /\ a[1].status = b[1].status
ScoreScorable(ps, sc) ==
  \A a \in Score!Claims(sc, Score!Range2(ps)) : a[2].v # score_Bad /\ a[2].t # score_None
    /\ score_Observed[a[2].t] # score_None

LEMMA ScoreUnanimousIs ==
  ASSUME NEW ps, NEW sc
  PROVE  Score!Unanimous(sc, Score!Range2(ps)) <=>
           /\ Score!Claims(sc, Score!Range2(ps)) # {} /\ ScoreAgree(ps, sc)
                /\ ScoreScorable(ps, sc)
           /\ ScoreUnmarked(ps, sc) /\ ScoreIsClear(ps, sc)
<1> DEFINE W == Score!Range2(ps)
           cl == Score!Claims(sc, W)
           sv == {c[1] : c \in UNION {{c \in Score!Curves(p) : c[2] # score_None
                                       /\ c[2].source = "learned"} :
                                      p \in {p \in W : Score!Whole(p) /\ Score!Scope(p) = sc}}}
<1>1. sv = ScoreServed(ps, sc)
  BY DEF ScoreServed, ScoreOf
<1>2. Score!Unanimous(sc, W) <=>
        /\ cl # {}
        /\ \A a, b \in cl : a[2] = b[2] /\ a[1].status = b[1].status
        /\ \A a \in cl : a[2].v # score_Bad /\ a[2].t # score_None
             /\ score_Observed[a[2].t] # score_None
        /\ \A p \in W : Score!Whole(p) /\ Score!Scope(p) = sc =>
             \A c \in Score!Curves(p) : c[1] \in sv =>
               c[2] # score_None /\ c[2].source # "unknown"
                 /\ (c[2].source = "learned" => c[2].t # score_None)
        /\ \A p \in W : ~Score!Whole(p)
             => ~\E q \in W : Score!Whole(q) /\ Score!Scope(q) = sc /\ Score!Fits(p, q)
        /\ \A p, q \in W : Score!Whole(p) /\ Score!Whole(q) /\ Score!Scope(p) = sc
             /\ Score!Scope(q) = sc => p.status = q.status
  BY DEF Score!Unanimous
<1>3. ScoreUnmarked(ps, sc) <=>
        \A p \in W : Score!Whole(p) /\ Score!Scope(p) = sc =>
          \A c \in Score!Curves(p) : c[1] \in sv =>
            c[2] # score_None /\ c[2].source # "unknown"
              /\ (c[2].source = "learned" => c[2].t # score_None)
  <2> HIDE DEF sv
  <2> QED
    BY <1>1 DEF ScoreUnmarked, ScoreOf
<1> HIDE DEF sv
<1> QED
  BY <1>2, <1>3 DEF ScoreAgree, ScoreScorable, ScoreIsClear

\* The outcome of a claim.
ScoreOutcome(sc, a) == <<ScoreId(ScoreSaid(sc, a)), ScoreWhat(ScoreSaid(sc, a))>>

LEMMA ScoreOutcomeIs ==
  ASSUME NEW sc, NEW a
  PROVE  /\ ScoreOutcome(sc, a) =
              <<<<<<sc, "learned", "learned">>, a[2].t>>, <<a[2].v, a[1].status>>>>
         /\ ScoreSaid(sc, a).key = <<sc, "learned", "learned">> /\ ScoreSaid(sc, a).t = a[2].t
         /\ ScoreSaid(sc, a).v = a[2].v /\ ScoreSaid(sc, a).st = a[1].status
BY DEF ScoreOutcome, ScoreSaid, ScoreId, ScoreWhat

\* What the score reads.
LEMMA ScoredIs ==
  ASSUME NEW ps \in Seq(Score!Savable)
  PROVE  \E e : /\ ScoreReadFrom(e, ps, Score!Clear(ps))
                /\ \A o : o \in Score!Scored(ps) <=>
                     /\ o \in e.outcomes /\ o[1][1][3] = "learned" /\ o[1] \notin e.conflicts
                     /\ <<o[1][1][1], o[1][1][2]>> \notin e.points /\ o[1][1] \notin e.sources
                     /\ <<o[1][1][1], o[1][1][2]>> \notin e.series
<1>1. PICK clear : clear = Score!Selected(ps, Score!Clear(ps))
  OBVIOUS
<1>2. clear \in Seq(Score!Savable)
        /\ \A p : p \in Score!Range2(clear) <=> p \in Score!Range2(ps) /\ p \in Score!Clear(ps)
  BY <1>1, ScoreSelectedIs
<1>3. Score!Range2(clear) = Score!Clear(ps)
  <2>1. \A p : p \in Score!Clear(ps) => p \in Score!Range2(ps)
    BY DEF Score!Clear
  <2> QED
    BY <1>2, <2>1
<1>4. clear \in Seq({p \in Score!Savable : ScoreOneShadow(p)})
  <2>1. {p \in Score!Savable : ScoreOneShadow(p)} = Score!Savable
    BY ScoreSavableIs
  <2> QED
    BY <1>2, <2>1
<1>5. PICK e : e = Score!Reading(ps, clear)[Len(clear)]
  OBVIOUS
<1>6. ScoreReadFrom(e, ps, Score!Clear(ps))
  BY <1>3, <1>4, <1>5, ScoreReadingHolds
<1>7. e = Score!Evidence(ps)
  BY <1>1, <1>5 DEF Score!Evidence
<1>8. \A o : o \in Score!Scored(ps) <=>
        /\ o \in e.outcomes /\ o[1][1][3] = "learned" /\ o[1] \notin e.conflicts
        /\ <<o[1][1][1], o[1][1][2]>> \notin e.points /\ o[1][1] \notin e.sources
        /\ <<o[1][1][1], o[1][1][2]>> \notin e.series
  BY <1>7 DEF Score!Scored
<1> QED
  BY <1>6, <1>8

\* What is scored says what all claims of its issue say.
LEMMA ScoredAgree ==
  ASSUME NEW ps \in Seq(Score!Savable), NEW e, ScoreReadFrom(e, ps, Score!Clear(ps)),
         NEW o \in e.outcomes,
         o[1][1][3] = "learned", o[1] \notin e.conflicts,
         <<o[1][1][1], o[1][1][2]>> \notin e.points, o[1][1] \notin e.sources,
         <<o[1][1][1], o[1][1][2]>> \notin e.series
  PROVE  LET sc == o[1][1][1]
         IN /\ Score!Unanimous(sc, Score!Range2(ps)) /\ ScoreOf(ps, sc) # {}
            /\ \E a \in Score!Claims(sc, Score!Range2(ps)) : o = ScoreOutcome(sc, a)
<1> DEFINE E == ScoreEntries(Score!Clear(ps))
<1>1. /\ \A m \in E : \E x \in e.first : x[1] = m.key
      /\ \A x \in e.first : \E m \in E : x = <<m.key, m.t>>
      /\ \A m \in E, x \in e.first : x[1] = m.key /\ x[2] # m.t
           => ScoreId(m) \in e.conflicts /\ x \in e.conflicts
      /\ \A m \in E : m.v = score_Bad => ScoreId(m) \in e.conflicts
      /\ \A x \in e.outcomes : \E m \in E : ScoreRecordable(m)
           /\ x = <<ScoreId(m), ScoreWhat(m)>>
      /\ \A m \in E : ScoreRecordable(m)
           => <<ScoreId(m), ScoreWhat(m)>> \in e.outcomes \/ ScoreId(m) \in e.conflicts
      /\ \A x, y \in e.outcomes : x[1] = y[1] => x = y
  BY DEF ScoreReadFrom, ScoreHolds, ScoreFirsts, ScoreOthers, ScoreBadConflict,
     ScoreOutcomesAre, ScoreOutcomesAll, ScoreOutcomesOnce
<1> HIDE DEF E
<1>2. PICK n \in E : ScoreRecordable(n) /\ o = <<ScoreId(n), ScoreWhat(n)>>
  BY <1>1
<1>3. o[1] = ScoreId(n) /\ o[1][1] = n.key /\ o[1][2] = n.t
  BY <1>2 DEF ScoreId
<1>4. PICK sc : sc = n.key[1]
  OBVIOUS
<1>5. /\ ScoreIsClear(ps, sc) /\ ScoreOf(ps, sc) # {}
      /\ \E a \in Score!Claims(sc, Score!Range2(ps)) : a[2].t # score_None
           /\ n = ScoreSaid(sc, a)
  BY <1>3, <1>4, ScoreEntriesAre DEF E
<1>6. PICK a \in Score!Claims(sc, Score!Range2(ps)) : a[2].t # score_None
        /\ n = ScoreSaid(sc, a)
  BY <1>5
<1>7. n.key = <<sc, "learned", "learned">> /\ n.t = a[2].t /\ n.v = a[2].v /\ n.st = a[1].status
  BY <1>6, ScoreOutcomeIs
<1>8. ScoreUnmarked(ps, sc)
  <2>1. /\ o[1][1] = <<sc, "learned", "learned">>
        /\ <<o[1][1][1], o[1][1][2]>> = <<sc, "learned">>
    BY <1>3, <1>7
  <2>2. e.series = ScoreAllBreaks(ps, Score!Clear(ps))
          /\ e.points = ScoreAllUnknowns(ps, Score!Clear(ps))
          /\ e.sources = ScoreAllUndated(Score!Clear(ps))
    BY DEF ScoreReadFrom
  <2> QED
    BY <1>5, <2>1, <2>2, ScoreUnmarkedIs
<1>9. ASSUME NEW b \in Score!Claims(sc, Score!Range2(ps))
      PROVE  /\ b[2].t = n.t /\ b[2].v = n.v /\ b[1].status = n.st /\ b[2].v # score_Bad
                  /\ b[2].t # score_None
             /\ score_Observed[b[2].t] # score_None
             /\ b[2] = [t |-> n.t, v |-> n.v, source |-> "learned"]
  <2>1. PICK p \in ScoreOf(ps, sc) : \E c \in Score!Curves(p) : ScoreClaimed(p, c)
          /\ b = <<p, c[2]>>
    BY ScoreClaimsAre
  <2>2. PICK c \in Score!Curves(p) : ScoreClaimed(p, c) /\ b = <<p, c[2]>>
    BY <2>1
  <2>3. b[2] = c[2] /\ b[1] = p
    BY <2>2
  <2>4. c[1] \in ScoreServed(ps, sc)
    BY <2>1, <2>2 DEF ScoreServed, ScoreClaimed
  <2>5. b[2].t # score_None
    BY <1>8, <2>1, <2>2, <2>3, <2>4 DEF ScoreUnmarked, ScoreClaimed
  <2>6. PICK m : m = ScoreSaid(sc, b)
    OBVIOUS
  <2>7. m \in E
    BY <1>5, <2>5, <2>6, ScoreClaimsEnter DEF E
  <2>8. m.key = n.key /\ m.t = b[2].t /\ m.v = b[2].v /\ m.st = b[1].status
    BY <1>7, <2>6, ScoreOutcomeIs
  <2>9. m.t = n.t
    <3>1. SUFFICES ASSUME m.t # n.t PROVE FALSE
      OBVIOUS
    <3>2. PICK x \in e.first : x[1] = n.key
      BY <1>1
    <3>3. x[2] = n.t
      BY <1>1, <1>3, <3>2
    <3>4. x \in e.conflicts
      BY <1>1, <2>7, <2>8, <3>1, <3>2, <3>3
    <3>5. x = <<x[1], x[2]>>
      BY <1>1
    <3>6. x = ScoreId(n)
      BY <3>2, <3>3, <3>5 DEF ScoreId
    <3> QED
      BY <1>3, <3>4, <3>6
  <2>10. ScoreId(m) = ScoreId(n)
    BY <2>8, <2>9 DEF ScoreId
  <2>11. m.v # score_Bad
    BY <1>1, <1>3, <2>7, <2>10
  <2>12. ScoreRecordable(m)
    BY <1>2, <2>9, <2>11 DEF ScoreRecordable
  <2>13. <<ScoreId(m), ScoreWhat(m)>> = o
    BY <1>1, <1>2, <1>3, <2>7, <2>10, <2>12
  <2>14. ScoreWhat(m) = ScoreWhat(n)
    BY <1>2, <2>13
  <2>15. m.v = n.v /\ m.st = n.st
    BY <2>14 DEF ScoreWhat
  <2>16. score_Observed[n.t] # score_None
    BY <1>2 DEF ScoreRecordable
  <2>17. b[2] = [t |-> n.t, v |-> n.v, source |-> "learned"]
    <3>1. p \in Score!Savable
      <4>1. p \in Score!Range2(ps)
        BY <2>1 DEF ScoreOf
      <4> QED
        BY <4>1 DEF Score!Range2
    <3>2. ScoreIsCurve(c[2])
      BY <3>1, ScoreSavableIs DEF ScoreDrawn
    <3>3. c[2] = [t |-> c[2].t, v |-> c[2].v, source |-> c[2].source] /\ c[2].source = "learned"
      BY <2>2, <3>2 DEF ScoreIsCurve, ScoreClaimed
    <3>4. c[2].t = n.t /\ c[2].v = n.v
      BY <2>3, <2>8, <2>9, <2>15
    <3> QED
      BY <2>3, <3>3, <3>4
  <2> QED
    BY <2>5, <2>8, <2>9, <2>11, <2>15, <2>16, <2>17
<1>10. ScoreAgree(ps, sc)
  BY <1>9 DEF ScoreAgree
<1>11. ScoreScorable(ps, sc)
  BY <1>9 DEF ScoreScorable
<1>12. Score!Unanimous(sc, Score!Range2(ps))
  BY <1>5, <1>6, <1>8, <1>10, <1>11, ScoreUnanimousIs
<1>13. o = ScoreOutcome(sc, a)
  BY <1>2, <1>6 DEF ScoreOutcome
<1> QED
  BY <1>3, <1>4, <1>5, <1>6, <1>12, <1>13

\* What a unanimous issue claims is scored.
LEMMA ScoreUnanimousScored ==
  ASSUME NEW ps \in Seq(Score!Savable), NEW e, ScoreReadFrom(e, ps, Score!Clear(ps)), NEW sc,
         Score!Unanimous(sc, Score!Range2(ps)), NEW a \in Score!Claims(sc, Score!Range2(ps))
  PROVE  /\ ScoreOutcome(sc, a) \in e.outcomes
         /\ <<<<sc, "learned", "learned">>, a[2].t>> \notin e.conflicts
         /\ <<sc, "learned">> \notin e.points /\ <<sc, "learned", "learned">> \notin e.sources
         /\ <<sc, "learned">> \notin e.series
<1> DEFINE E == ScoreEntries(Score!Clear(ps))
<1>1. /\ \A i \in e.conflicts : \E m \in E : i = ScoreId(m)
           /\ (m.v = score_Bad \/ \E k \in E : ScoreDiffers(m, k))
      /\ \A m \in E : ScoreRecordable(m)
           => <<ScoreId(m), ScoreWhat(m)>> \in e.outcomes \/ ScoreId(m) \in e.conflicts
      /\ e.series = ScoreAllBreaks(ps, Score!Clear(ps))
           /\ e.points = ScoreAllUnknowns(ps, Score!Clear(ps))
      /\ e.sources = ScoreAllUndated(Score!Clear(ps))
  BY DEF ScoreReadFrom, ScoreHolds, ScoreConflictsAre, ScoreOutcomesAll
<1>2. ScoreAgree(ps, sc) /\ ScoreScorable(ps, sc) /\ ScoreUnmarked(ps, sc)
        /\ ScoreIsClear(ps, sc)
  BY ScoreUnanimousIs
<1>3. PICK n : n = ScoreSaid(sc, a)
  OBVIOUS
<1>4. n.key = <<sc, "learned", "learned">> /\ n.t = a[2].t /\ n.v = a[2].v /\ n.st = a[1].status
  BY <1>3, ScoreOutcomeIs
<1>5. n.v # score_Bad /\ n.t # score_None /\ score_Observed[n.t] # score_None
  BY <1>2, <1>4 DEF ScoreScorable
<1>6. n \in E
  BY <1>2, <1>3, <1>4, <1>5, ScoreClaimsEnter
<1> HIDE DEF E
<1>7. ASSUME NEW m \in E, m.key = n.key
      PROVE  m.t = n.t /\ m.v = n.v /\ m.st = n.st
  <2>1. m.key[3] = "learned" /\ m.key[1] = sc
    BY <1>4, <1>7
  <2>2. PICK b \in Score!Claims(sc, Score!Range2(ps)) : m = ScoreSaid(sc, b)
    BY <2>1, ScoreEntriesAre DEF E
  <2>3. m.t = b[2].t /\ m.v = b[2].v /\ m.st = b[1].status
    BY <2>2, ScoreOutcomeIs
  <2>4. b[2] = a[2] /\ b[1].status = a[1].status
    BY <1>2 DEF ScoreAgree
  <2> QED
    BY <1>4, <2>3, <2>4
<1>8. ScoreId(n) \notin e.conflicts
  <2>1. SUFFICES ASSUME ScoreId(n) \in e.conflicts PROVE FALSE
    OBVIOUS
  <2>2. PICK m \in E : ScoreId(n) = ScoreId(m)
          /\ (m.v = score_Bad \/ \E k \in E : ScoreDiffers(m, k))
    BY <1>1, <2>1
  <2>3. m.key = n.key
    BY <2>2 DEF ScoreId
  <2>4. m.v # score_Bad
    BY <1>5, <1>7, <2>3
  <2>5. PICK k \in E : ScoreDiffers(m, k)
    BY <2>2, <2>4
  <2> QED
    BY <1>7, <2>3, <2>5 DEF ScoreDiffers
<1>9. <<ScoreId(n), ScoreWhat(n)>> \in e.outcomes
  BY <1>1, <1>5, <1>6, <1>8 DEF ScoreRecordable
<1>10. ScoreId(n) = <<<<sc, "learned", "learned">>, a[2].t>>
  BY <1>4 DEF ScoreId
<1> QED
  BY <1>1, <1>2, <1>3, <1>8, <1>9, <1>10, ScoreUnmarkedIs DEF ScoreOutcome

LEMMA ScoredClaims ==
  ASSUME NEW ps \in Seq(Score!Savable)
  PROVE  /\ \A o \in Score!Scored(ps) : \E sc : \E a \in Score!Claims(sc, Score!Range2(ps)) :
              Score!Unanimous(sc, Score!Range2(ps)) /\ ScoreOf(ps, sc) # {}
                /\ o = ScoreOutcome(sc, a)
         /\ \A sc : \A a \in Score!Claims(sc, Score!Range2(ps)) :
              Score!Unanimous(sc, Score!Range2(ps)) => ScoreOutcome(sc, a) \in Score!Scored(ps)
         /\ IsFiniteSet(Score!Scored(ps))
<1>1. PICK e : /\ ScoreReadFrom(e, ps, Score!Clear(ps))
               /\ \A o : o \in Score!Scored(ps) <=>
                     /\ o \in e.outcomes /\ o[1][1][3] = "learned" /\ o[1] \notin e.conflicts
                     /\ <<o[1][1][1], o[1][1][2]>> \notin e.points /\ o[1][1] \notin e.sources
                     /\ <<o[1][1][1], o[1][1][2]>> \notin e.series
  BY ScoredIs
<1>2. ASSUME NEW o \in Score!Scored(ps)
      PROVE  \E sc : \E a \in Score!Claims(sc, Score!Range2(ps)) :
               Score!Unanimous(sc, Score!Range2(ps)) /\ ScoreOf(ps, sc) # {}
                 /\ o = ScoreOutcome(sc, a)
  <2>1. /\ o \in e.outcomes /\ o[1][1][3] = "learned" /\ o[1] \notin e.conflicts
        /\ <<o[1][1][1], o[1][1][2]>> \notin e.points /\ o[1][1] \notin e.sources
        /\ <<o[1][1][1], o[1][1][2]>> \notin e.series
    BY <1>1
  <2>2. PICK sc : sc = o[1][1][1]
    OBVIOUS
  <2>3. /\ Score!Unanimous(sc, Score!Range2(ps)) /\ ScoreOf(ps, sc) # {}
        /\ \E a \in Score!Claims(sc, Score!Range2(ps)) : o = ScoreOutcome(sc, a)
    BY <1>1, <2>1, <2>2, ScoredAgree
  <2> QED
    BY <2>3
<1>3. ASSUME NEW sc, NEW a \in Score!Claims(sc, Score!Range2(ps)),
             Score!Unanimous(sc, Score!Range2(ps))
      PROVE  ScoreOutcome(sc, a) \in Score!Scored(ps)
  <2>1. /\ ScoreOutcome(sc, a) \in e.outcomes
        /\ <<<<sc, "learned", "learned">>, a[2].t>> \notin e.conflicts
        /\ <<sc, "learned">> \notin e.points /\ <<sc, "learned", "learned">> \notin e.sources
        /\ <<sc, "learned">> \notin e.series
    BY <1>1, <1>3, ScoreUnanimousScored
  <2>2. PICK o : o = ScoreOutcome(sc, a)
    OBVIOUS
  <2>3. o = <<<<<<sc, "learned", "learned">>, a[2].t>>, <<a[2].v, a[1].status>>>>
    BY <2>2, ScoreOutcomeIs
  <2>4. /\ o[1] = <<<<sc, "learned", "learned">>, a[2].t>>
             /\ o[1][1] = <<sc, "learned", "learned">>
        /\ o[1][1][3] = "learned" /\ <<o[1][1][1], o[1][1][2]>> = <<sc, "learned">>
    BY <2>3
  <2> QED
    BY <1>1, <2>1, <2>2, <2>4
<1>4. IsFiniteSet(Score!Scored(ps))
  <2>1. IsFiniteSet(e.outcomes)
    BY <1>1 DEF ScoreReadFrom, ScoreHolds
  <2>2. Score!Scored(ps) \subseteq e.outcomes
    BY <1>1
  <2> QED
    BY <2>1, <2>2, FS_Subset
<1> QED
  BY <1>2, <1>3, <1>4

\* The parts of an outcome.
LEMMA ScoreOutcomeParts ==
  ASSUME NEW sc, NEW a, NEW o, o = ScoreOutcome(sc, a)
  PROVE  o[1][1][1] = sc /\ o[1][2] = a[2].t
<1>1. o = <<<<<<sc, "learned", "learned">>, a[2].t>>, <<a[2].v, a[1].status>>>>
  BY ScoreOutcomeIs
<1> QED
  BY <1>1

\* Scored is exactly what the unanimous issues claim.
LEMMA ScoredSets ==
  ASSUME NEW ps \in Seq(Score!Savable)
  PROVE  {<<o[1][1][1], o[1][2]>> : o \in Score!Scored(ps)}
           = UNION {{<<s, a[2].t>> : a \in Score!Claims(s, Score!Range2(ps))} :
                    s \in {s \in {Score!Scope(p) : p \in Score!Range2(ps)} :
                             Score!Unanimous(s, Score!Range2(ps))}}
<1> DEFINE A == {<<o[1][1][1], o[1][2]>> : o \in Score!Scored(ps)}
           good == {s \in {Score!Scope(p) : p \in Score!Range2(ps)} :
                      Score!Unanimous(s, Score!Range2(ps))}
           B == UNION {{<<s, a[2].t>> : a \in Score!Claims(s, Score!Range2(ps))} : s \in good}
<1>1. ASSUME NEW x \in A
      PROVE  x \in B
  <2>1. PICK o \in Score!Scored(ps) : x = <<o[1][1][1], o[1][2]>>
    OBVIOUS
  <2>2. PICK sc : \E a \in Score!Claims(sc, Score!Range2(ps)) :
               Score!Unanimous(sc, Score!Range2(ps)) /\ ScoreOf(ps, sc) # {}
                 /\ o = ScoreOutcome(sc, a)
    BY ScoredClaims
  <2>3. PICK a \in Score!Claims(sc, Score!Range2(ps)) : Score!Unanimous(sc, Score!Range2(ps))
          /\ ScoreOf(ps, sc) # {} /\ o = ScoreOutcome(sc, a)
    BY <2>2
  <2>4. x = <<sc, a[2].t>>
    BY <2>1, <2>3, ScoreOutcomeParts
  <2>5. sc \in good
    BY <2>3 DEF ScoreOf
  <2> HIDE DEF good
  <2> QED
    BY <2>4, <2>5
<1>2. ASSUME NEW x \in B
      PROVE  x \in A
  <2>1. PICK s \in good : x \in {<<s, a[2].t>> : a \in Score!Claims(s, Score!Range2(ps))}
    OBVIOUS
  <2>2. PICK a \in Score!Claims(s, Score!Range2(ps)) : x = <<s, a[2].t>>
    BY <2>1
  <2>3. PICK o : o = ScoreOutcome(s, a)
    OBVIOUS
  <2>4. o \in Score!Scored(ps)
    BY <2>1, <2>3, ScoredClaims
  <2>5. x = <<o[1][1][1], o[1][2]>>
    BY <2>2, <2>3, ScoreOutcomeParts
  <2> QED
    BY <2>4, <2>5
<1> HIDE DEF A, B
<1>3. A = B
  BY <1>1, <1>2
<1> QED
  BY <1>3 DEF A, B, good

\* Every issue is scored once.
LEMMA ScoredOnce ==
  ASSUME NEW ps \in Seq(Score!Savable)
  PROVE  Cardinality({o[1][1][1] : o \in Score!Scored(ps)}) = Cardinality(Score!Scored(ps))
<1> DEFINE S == Score!Scored(ps)
           T == {o[1][1][1] : o \in S}
           f == [o \in S |-> o[1][1][1]]
<1>1. IsFiniteSet(S)
  BY ScoredClaims
<1>2. ASSUME NEW o \in S, NEW u \in S, o[1][1][1] = u[1][1][1]
      PROVE  o = u
  <2>1. PICK sc : \E a \in Score!Claims(sc, Score!Range2(ps)) :
               Score!Unanimous(sc, Score!Range2(ps)) /\ ScoreOf(ps, sc) # {}
                 /\ o = ScoreOutcome(sc, a)
    BY ScoredClaims
  <2>2. PICK a \in Score!Claims(sc, Score!Range2(ps)) : Score!Unanimous(sc, Score!Range2(ps))
          /\ o = ScoreOutcome(sc, a)
    BY <2>1
  <2>3. PICK sd : \E b \in Score!Claims(sd, Score!Range2(ps)) :
               Score!Unanimous(sd, Score!Range2(ps)) /\ ScoreOf(ps, sd) # {}
                 /\ u = ScoreOutcome(sd, b)
    BY ScoredClaims
  <2>4. PICK b \in Score!Claims(sd, Score!Range2(ps)) : u = ScoreOutcome(sd, b)
    BY <2>3
  <2>5. sc = sd
    BY <1>2, <2>2, <2>4, ScoreOutcomeParts
  <2>6. a[2] = b[2] /\ a[1].status = b[1].status
    BY <2>2, <2>4, <2>5, ScoreUnanimousIs DEF ScoreAgree
  <2>7. /\ o = <<<<<<sc, "learned", "learned">>, a[2].t>>, <<a[2].v, a[1].status>>>>
        /\ u = <<<<<<sc, "learned", "learned">>, b[2].t>>, <<b[2].v, b[1].status>>>>
    BY <2>2, <2>4, <2>5, ScoreOutcomeIs
  <2> QED
    BY <2>6, <2>7
<1> HIDE DEF S
<1>3. f \in Bijection(S, T)
  <2>1. f \in [S -> T]
    OBVIOUS
  <2>2. \A x, y \in S : f[x] = f[y] => x = y
    BY <1>2
  <2>3. \A t \in T : \E x \in S : f[x] = t
    OBVIOUS
  <2> QED
    BY <2>1, <2>2, <2>3 DEF Bijection, Injection, Surjection, IsInjective
<1>4. Cardinality(T) = Cardinality(S)
  <2>1. ExistsBijection(S, T)
    BY <1>3 DEF ExistsBijection
  <2> HIDE DEF T
  <2> QED
    BY <1>1, <2>1, FS_Bijection
<1> QED
  BY <1>4 DEF S, T

\* The two curves of a pair, and when they are at odds with those of another plan.
ScoreSides(p) == {<<"candidate", p.candidate>>, <<"zero", p.zero>>}
ScoreDated(c) == c[2] # score_None /\ c[2].t # score_None
ScoreOdds(c, d) == c[2].t # d[2].t
  \/ (c[2].v # d[2].v /\ c[2].v # score_Bad /\ d[2].v # score_Bad)
ScoreSoundPair(p) ==
  /\ p.candidate # score_None /\ p.zero # score_None /\ p.candidate.t = p.zero.t
       /\ p.candidate.t # score_None
  /\ p.candidate.v # score_Bad /\ p.zero.v # score_Bad

\* What the pairing has of the plans in V.
ScoreSideKept(e, p, c) ==
  /\ c[2] = score_None => Score!Scope(p) \in e.series
  /\ c[2] # score_None /\ c[2].t = score_None => Score!Scope(p) \in e.points
  /\ ScoreDated(c) => /\ <<<<Score!Scope(p), c[1]>>, c[2].t, c[2].v>> \in e.first
                      /\ c[2].v = score_Bad => <<Score!Scope(p), c[2].t>> \in e.conflicts
ScoreSidesKept(e, V) == \A p \in V : \A c \in ScoreSides(p) : ScoreSideKept(e, p, c)
ScoreOddsKept(e, V) ==
  \A p, q \in V : Score!Scope(p) = Score!Scope(q) =>
    \A c \in ScoreSides(p), d \in ScoreSides(q) :
      c[1] = d[1] /\ ScoreDated(c) /\ ScoreDated(d) /\ ScoreOdds(c, d)
        => <<Score!Scope(p), c[2].t>> \in e.conflicts
ScorePairsKept(e, V) ==
  \A o \in e.outcomes : \E p \in V :
    ScoreSoundPair(p) /\ o = <<<<Score!Scope(p), p.candidate.t>>, <<p.candidate.v, p.zero.v>>>>
ScorePairFrom(e, V) == ScoreIsEvidence(e) /\ ScoreSidesKept(e, V) /\ ScoreOddsKept(e, V)
  /\ ScorePairsKept(e, V)

\* What the pairing of one plan adds.
LEMMA ScorePairedIs ==
  ASSUME NEW e, ScoreIsEvidence(e), NEW p
  PROVE  LET d == Score!Paired(e, p)
         IN /\ ScoreIsEvidence(d)
            /\ e.series \subseteq d.series /\ e.points \subseteq d.points
            /\ e.first \subseteq d.first /\ e.conflicts \subseteq d.conflicts
            /\ \A c \in ScoreSides(p) : ScoreSideKept(d, p, c)
            /\ \A c \in ScoreSides(p), f \in e.first :
                 ScoreDated(c) /\ f[1] = <<Score!Scope(p), c[1]>>
                   /\ (f[2] # c[2].t \/ (f[3] # c[2].v /\ f[3] # score_Bad
                                         /\ c[2].v # score_Bad)) =>
                 <<Score!Scope(p), c[2].t>> \in d.conflicts
                   /\ <<Score!Scope(p), f[2]>> \in d.conflicts
            /\ \A o \in d.outcomes : o \notin e.outcomes =>
                 ScoreSoundPair(p) /\ o =
                   <<<<Score!Scope(p), p.candidate.t>>, <<p.candidate.v, p.zero.v>>>>
<1> DEFINE sc == Score!Scope(p)
           curves == {<<"candidate", p.candidate>>, <<"zero", p.zero>>}
           dated == {c \in curves : c[2] # score_None /\ c[2].t # score_None}
           Clash(c, f) == f[1] = <<sc, c[1]>> /\ \/ f[2] # c[2].t
                                                 \/ f[3] \notin {c[2].v, score_Bad}
                                                      /\ c[2].v # score_Bad
           clash == {c \in dated : \E f \in e.first : Clash(c, f)}
           both == ~p.live /\ p.candidate # score_None /\ p.zero # score_None
             /\ p.candidate.t = p.zero.t
                   /\ p.candidate.t # score_None
           sound == both /\ p.candidate.v # score_Bad /\ p.zero.v # score_Bad
             /\ score_Observed[p.candidate.t] # score_None
           A == {sc : c \in {c \in curves : c[2] = score_None}}
           P == {sc : c \in {c \in curves : c[2] # score_None /\ c[2].t = score_None}}
           F == {<<<<sc, c[1]>>, c[2].t, c[2].v>> : c \in dated}
           C == {<<sc, c[2].t>> : c \in clash \cup {c \in dated : c[2].v = score_Bad}}
           D == {<<sc, f[2]>> : f \in {f \in e.first : \E c \in clash : f[1] = <<sc, c[1]>>}}
           O == IF sound THEN e.outcomes
             \cup {<<<<sc, p.candidate.t>>, <<p.candidate.v, p.zero.v>>>>}
                ELSE e.outcomes
<1>1. PICK d : d = Score!Paired(e, p)
  OBVIOUS
<1>2. d = [e EXCEPT !.series = e.series \cup A, !.points = e.points \cup P,
                    !.first = e.first \cup F,
                    !.conflicts = (e.conflicts \cup C) \cup D, !.outcomes = O]
  BY <1>1 DEF Score!Paired
<1>3. curves = ScoreSides(p) /\ dated = {c \in ScoreSides(p) : ScoreDated(c)}
  BY DEF ScoreSides, ScoreDated
<1> HIDE DEF A, P, F, C, D, O
<1>4. /\ ScoreIsEvidence(d) /\ d.series = e.series \cup A /\ d.points = e.points \cup P
      /\ d.first = e.first \cup F /\ d.conflicts = (e.conflicts \cup C) \cup D /\ d.outcomes = O
  BY <1>2 DEF ScoreIsEvidence
<1> HIDE DEF curves, dated, sc
<1>5. ASSUME NEW c \in ScoreSides(p)
      PROVE  ScoreSideKept(d, p, c)
  <2>1. c[2] = score_None => Score!Scope(p) \in d.series
    BY <1>3, <1>4, <1>5 DEF A, sc
  <2>2. c[2] # score_None /\ c[2].t = score_None => Score!Scope(p) \in d.points
    BY <1>3, <1>4, <1>5 DEF P, sc
  <2>3. ASSUME ScoreDated(c)
        PROVE  /\ <<<<Score!Scope(p), c[1]>>, c[2].t, c[2].v>> \in d.first
               /\ c[2].v = score_Bad => <<Score!Scope(p), c[2].t>> \in d.conflicts
    <3>1. c \in dated
      BY <1>3, <1>5, <2>3
    <3>2. <<<<sc, c[1]>>, c[2].t, c[2].v>> \in F
      BY <3>1 DEF F
    <3>3. c[2].v = score_Bad => <<sc, c[2].t>> \in C
      BY <3>1 DEF C
    <3> QED
      BY <1>4, <3>2, <3>3 DEF sc
  <2> QED
    BY <2>1, <2>2, <2>3 DEF ScoreSideKept
<1>6. ASSUME NEW c \in ScoreSides(p), NEW f \in e.first, ScoreDated(c),
             f[1] = <<Score!Scope(p), c[1]>>,
             f[2] # c[2].t \/ (f[3] # c[2].v /\ f[3] # score_Bad /\ c[2].v # score_Bad)
      PROVE  <<Score!Scope(p), c[2].t>> \in d.conflicts
               /\ <<Score!Scope(p), f[2]>> \in d.conflicts
  <2>1. Clash(c, f) /\ f[1] = <<sc, c[1]>>
    BY <1>6 DEF sc
  <2>2. c \in dated
    BY <1>3, <1>6
  <2> HIDE DEF Clash
  <2>3. c \in clash
    BY <2>1, <2>2
  <2>4. <<sc, c[2].t>> \in C
    BY <2>3 DEF C
  <2>5. <<sc, f[2]>> \in D
    BY <2>1, <2>3 DEF D
  <2> QED
    BY <1>4, <2>4, <2>5 DEF sc
<1>7. ASSUME NEW o \in d.outcomes, o \notin e.outcomes
      PROVE  ScoreSoundPair(p) /\ o =
               <<<<Score!Scope(p), p.candidate.t>>, <<p.candidate.v, p.zero.v>>>>
  <2> HIDE DEF sound
  <2>1. sound /\ o = <<<<sc, p.candidate.t>>, <<p.candidate.v, p.zero.v>>>>
    BY <1>4, <1>7 DEF O
  <2> QED
    BY <2>1 DEF sound, ScoreSoundPair, sc
<1> QED
  BY <1>1, <1>4, <1>5, <1>6, <1>7

LEMMA ScorePairedFrom ==
  ASSUME NEW e, NEW V, ScorePairFrom(e, V), NEW p
  PROVE  ScorePairFrom(Score!Paired(e, p), V \cup {p})
<1>1. PICK d : d = Score!Paired(e, p)
  OBVIOUS
<1>2. ScoreIsEvidence(e) /\ ScoreSidesKept(e, V) /\ ScoreOddsKept(e, V) /\ ScorePairsKept(e, V)
  BY DEF ScorePairFrom
<1>3. /\ ScoreIsEvidence(d)
      /\ e.series \subseteq d.series /\ e.points \subseteq d.points
      /\ e.first \subseteq d.first /\ e.conflicts \subseteq d.conflicts
      /\ \A c \in ScoreSides(p) : ScoreSideKept(d, p, c)
      /\ \A c \in ScoreSides(p), f \in e.first :
           ScoreDated(c) /\ f[1] = <<Score!Scope(p), c[1]>>
             /\ (f[2] # c[2].t \/ (f[3] # c[2].v /\ f[3] # score_Bad /\ c[2].v # score_Bad)) =>
           <<Score!Scope(p), c[2].t>> \in d.conflicts
             /\ <<Score!Scope(p), f[2]>> \in d.conflicts
      /\ \A o \in d.outcomes : o \notin e.outcomes =>
           ScoreSoundPair(p) /\ o =
             <<<<Score!Scope(p), p.candidate.t>>, <<p.candidate.v, p.zero.v>>>>
  BY <1>1, <1>2, ScorePairedIs
<1>4. ScoreSidesKept(d, V \cup {p})
  <2> SUFFICES ASSUME NEW q \in V, NEW c \in ScoreSides(q)
               PROVE  ScoreSideKept(d, q, c)
    BY <1>3 DEF ScoreSidesKept
  <2>1. ScoreSideKept(e, q, c)
    BY <1>2 DEF ScoreSidesKept
  <2> QED
    BY <1>3, <2>1 DEF ScoreSideKept
<1>5. ScoreOddsKept(d, V \cup {p})
  <2> SUFFICES ASSUME NEW q \in V \cup {p}, NEW r \in V \cup {p},
                      Score!Scope(q) = Score!Scope(r),
                      NEW c \in ScoreSides(q), NEW g \in ScoreSides(r),
                      c[1] = g[1], ScoreDated(c), ScoreDated(g), ScoreOdds(c, g)
               PROVE  <<Score!Scope(q), c[2].t>> \in d.conflicts
    BY DEF ScoreOddsKept
  <2>1. CASE q \in V /\ r \in V
    <3>1. <<Score!Scope(q), c[2].t>> \in e.conflicts
      BY <1>2, <2>1 DEF ScoreOddsKept
    <3> QED
      BY <1>3, <3>1
  <2>2. CASE q = p /\ r \in V
    <3>1. PICK f : f = <<<<Score!Scope(r), g[1]>>, g[2].t, g[2].v>>
      OBVIOUS
    <3>2. f \in e.first
      <4>1. ScoreSideKept(e, r, g)
        BY <1>2, <2>2 DEF ScoreSidesKept
      <4> QED
        BY <3>1, <4>1 DEF ScoreSideKept
    <3>3. f[1] = <<Score!Scope(p), c[1]>> /\ f[2] = g[2].t /\ f[3] = g[2].v
      BY <2>2, <3>1
    <3>4. f[2] # c[2].t \/ (f[3] # c[2].v /\ f[3] # score_Bad /\ c[2].v # score_Bad)
      BY <3>3 DEF ScoreOdds
    <3>5. <<Score!Scope(p), c[2].t>> \in d.conflicts
      BY <1>3, <2>2, <3>2, <3>3, <3>4
    <3> QED
      BY <2>2, <3>5
  <2>3. CASE q \in V /\ r = p
    <3>1. PICK f : f = <<<<Score!Scope(q), c[1]>>, c[2].t, c[2].v>>
      OBVIOUS
    <3>2. f \in e.first
      <4>1. ScoreSideKept(e, q, c)
        BY <1>2, <2>3 DEF ScoreSidesKept
      <4> QED
        BY <3>1, <4>1 DEF ScoreSideKept
    <3>3. f[1] = <<Score!Scope(p), g[1]>> /\ f[2] = c[2].t /\ f[3] = c[2].v
      BY <2>3, <3>1
    <3>4. f[2] # g[2].t \/ (f[3] # g[2].v /\ f[3] # score_Bad /\ g[2].v # score_Bad)
      BY <3>3 DEF ScoreOdds
    <3>5. <<Score!Scope(p), f[2]>> \in d.conflicts
      BY <1>3, <2>3, <3>2, <3>3, <3>4
    <3> QED
      BY <2>3, <3>3, <3>5
  <2>4. CASE q = p /\ r = p
    <3>1. c = g
      BY <2>4 DEF ScoreSides
    <3> QED
      BY <3>1 DEF ScoreOdds
  <2> QED
    BY <2>1, <2>2, <2>3, <2>4
<1>6. ScorePairsKept(d, V \cup {p})
  BY <1>2, <1>3 DEF ScorePairsKept
<1> QED
  BY <1>1, <1>3, <1>4, <1>5, <1>6 DEF ScorePairFrom

\* The pairing of clear plans has something of all of them.
LEMMA ScorePairingHolds ==
  ASSUME NEW clear \in Seq(Score!Savable)
  PROVE  ScorePairFrom(Score!Pairing(clear)[Len(clear)], Score!Range2(clear))
<1> DEFINE r == Score!Pairing(clear)
           L == Len(clear)
           V(n) == {clear[i] : i \in (L - n + 1)..L}
           X == {n \in 0..L : ScorePairFrom(r[n], V(n))}
<1>1. r[0] = Score!Start /\ \A n \in 1..L : r[n] = Score!Paired(r[n - 1], clear[L - n + 1])
  BY ScorePairingIs
<1>2. L \in Nat
  OBVIOUS
<1> HIDE DEF r, L
<1>3. 0 \in X
  <2>1. V(0) = {}
    BY <1>2
  <2>2. 0 \in 0..L
    BY <1>2
  <2>3. ScorePairFrom(r[0], {})
    BY <1>1 DEF ScorePairFrom, Score!Start, ScoreIsEvidence, ScoreSidesKept,
       ScoreOddsKept, ScorePairsKept
  <2> HIDE DEF V
  <2> QED
    BY <2>1, <2>2, <2>3
<1>4. \A n \in 0..(L - 1) : n \in X => n + 1 \in X
  <2>1. SUFFICES ASSUME NEW n \in 0..(L - 1), ScorePairFrom(r[n], V(n))
                 PROVE  n + 1 \in X
    OBVIOUS
  <2>2. n + 1 \in 1..L /\ (n + 1) - 1 = n /\ L - (n + 1) + 1 = L - n /\ L - n \in 1..L
          /\ n + 1 \in 0..L
    BY <1>2
  <2>3. r[n + 1] = Score!Paired(r[n], clear[L - n])
    BY <1>1, <2>2
  <2>4. V(n + 1) = V(n) \cup {clear[L - n]}
    <3>1. ((L - (n + 1) + 1)..L) = ((L - n + 1)..L) \cup {L - n}
      BY <1>2, <2>2
    <3> QED
      BY <3>1
  <2>5. PICK p : p = clear[L - n]
    OBVIOUS
  <2>6. PICK W : W = V(n)
    OBVIOUS
  <2> HIDE DEF V
  <2>8. ScorePairFrom(Score!Paired(r[n], p), W \cup {p})
    BY <2>1, <2>6, ScorePairedFrom
  <2> QED
    BY <2>2, <2>3, <2>4, <2>5, <2>6, <2>8
<1>5. L \in X
  <2> HIDE DEF X
  <2>1. 0..L \subseteq X
    BY <1>2, <1>3, <1>4, UpTo
  <2>2. L \in 0..L
    BY <1>2
  <2> QED
    BY <2>1, <2>2
<1>6. V(L) = Score!Range2(clear)
  BY <1>2 DEF Score!Range2, L
<1> QED
  BY <1>5, <1>6 DEF r, L

\* A pair counts only if all plans of its issue say the same, and none was disturbed.
LEMMA ScorePairsAgree ==
  ASSUME NEW ps \in Seq(Score!Savable), NEW o \in Score!Pairs(ps)
  PROVE  /\ o[1][1] \notin score_Commanded
         /\ \A p \in Score!Range2(ps) : Score!Whole(p) /\ Score!Scope(p) = o[1][1] =>
              /\ p.candidate # score_None /\ p.zero # score_None
              /\ p.candidate.t = o[1][2] /\ p.zero.t = o[1][2]
              /\ <<p.candidate.v, p.zero.v>> = o[2]
<1> DEFINE T == {p \in Score!Clear(ps) : Score!Undisturbed(p)}
<1>1. PICK clear : clear = Score!Selected(ps, T)
  OBVIOUS
<1>2. clear \in Seq(Score!Savable)
        /\ \A p : p \in Score!Range2(clear) <=> p \in Score!Range2(ps) /\ p \in T
  <2> HIDE DEF T
  <2> QED
    BY <1>1, ScoreSelectedIs
<1>3. \A p : p \in Score!Range2(clear) <=> p \in Score!Clear(ps) /\ Score!Undisturbed(p)
  <2>1. \A p : p \in Score!Clear(ps) => p \in Score!Range2(ps)
    BY DEF Score!Clear
  <2> QED
    BY <1>2, <2>1
<1>4. PICK e : e = Score!Pairing(clear)[Len(clear)]
  OBVIOUS
<1>5. PICK V : V = Score!Range2(clear)
  OBVIOUS
<1>6. ScoreIsEvidence(e) /\ ScoreSidesKept(e, V) /\ ScoreOddsKept(e, V) /\ ScorePairsKept(e, V)
  <2>1. ScorePairFrom(e, V)
    BY <1>2, <1>4, <1>5, ScorePairingHolds
  <2> QED
    BY <2>1 DEF ScorePairFrom
<1>7. o \in e.outcomes /\ o[1] \notin e.conflicts /\ o[1][1] \notin e.points
        /\ o[1][1] \notin e.series
  BY <1>1, <1>4 DEF Score!Pairs
<1>8. PICK p \in V : ScoreSoundPair(p)
        /\ o = <<<<Score!Scope(p), p.candidate.t>>, <<p.candidate.v, p.zero.v>>>>
  BY <1>6, <1>7 DEF ScorePairsKept
<1>9. /\ o[1] = <<Score!Scope(p), p.candidate.t>> /\ o[1][1] = Score!Scope(p)
           /\ o[1][2] = p.candidate.t
      /\ o[2] = <<p.candidate.v, p.zero.v>>
  BY <1>8
<1>10. p \in Score!Clear(ps) /\ Score!Undisturbed(p)
  BY <1>3, <1>5
<1>11. o[1][1] \notin score_Commanded
  BY <1>9, <1>10 DEF Score!Undisturbed
<1>12. ASSUME NEW q \in Score!Range2(ps), Score!Whole(q), Score!Scope(q) = o[1][1]
       PROVE  /\ q.candidate # score_None /\ q.zero # score_None
              /\ q.candidate.t = o[1][2] /\ q.zero.t = o[1][2]
              /\ <<q.candidate.v, q.zero.v>> = o[2]
  <2>1. Score!Scope(q) = Score!Scope(p)
    BY <1>9, <1>12
  <2>2. q \in V
    <3>1. Score!Scope(p) \notin Score!AmbiguousScopes(ps)
      BY <1>10 DEF Score!Clear
    <3>2. q \in Score!Clear(ps)
      BY <1>12, <2>1, <3>1 DEF Score!Clear
    <3>3. Score!Undisturbed(q)
      BY <1>10, <2>1 DEF Score!Undisturbed
    <3> QED
      BY <1>3, <1>5, <3>2, <3>3
  <2>3. ASSUME NEW c \in ScoreSides(q), NEW d \in ScoreSides(p), c[1] = d[1], d[2].t = o[1][2],
               d[2] # score_None,
               d[2].t # score_None, d[2].v # score_Bad
        PROVE  c[2] # score_None /\ c[2].t = o[1][2] /\ c[2].v = d[2].v
    <3>1. ScoreSideKept(e, q, c)
      BY <1>6, <2>2 DEF ScoreSidesKept
    <3>2. ScoreDated(c)
      BY <1>7, <1>12, <3>1 DEF ScoreSideKept, ScoreDated
    <3>3. ScoreDated(d)
      BY <2>3 DEF ScoreDated
    <3>4. <<Score!Scope(p), d[2].t>> \notin e.conflicts
      BY <1>7, <1>9, <2>3
    <3>5. ~ScoreOdds(d, c)
      BY <1>6, <2>1, <2>2, <2>3, <3>2, <3>3, <3>4 DEF ScoreOddsKept
    <3>6. c[2].t = d[2].t /\ (c[2].v = d[2].v \/ c[2].v = score_Bad)
      BY <2>3, <3>5 DEF ScoreOdds
    <3>7. c[2].v # score_Bad
      BY <2>1, <3>1, <3>2, <3>4, <3>6 DEF ScoreSideKept
    <3> QED
      BY <2>3, <3>2, <3>6, <3>7 DEF ScoreDated
  <2>4. ScoreSoundPair(p)
    BY <1>8
  <2>5. /\ q.candidate # score_None /\ q.candidate.t = o[1][2] /\ q.candidate.v = p.candidate.v
    <3>1. PICK c : c = <<"candidate", q.candidate>>
      OBVIOUS
    <3>2. PICK d : d = <<"candidate", p.candidate>>
      OBVIOUS
    <3>3. c \in ScoreSides(q) /\ d \in ScoreSides(p) /\ c[1] = d[1] /\ c[2] = q.candidate
            /\ d[2] = p.candidate
      BY <3>1, <3>2 DEF ScoreSides
    <3> QED
      BY <1>9, <2>3, <2>4, <3>3 DEF ScoreSoundPair
  <2>6. /\ q.zero # score_None /\ q.zero.t = o[1][2] /\ q.zero.v = p.zero.v
    <3>1. PICK c : c = <<"zero", q.zero>>
      OBVIOUS
    <3>2. PICK d : d = <<"zero", p.zero>>
      OBVIOUS
    <3>3. c \in ScoreSides(q) /\ d \in ScoreSides(p) /\ c[1] = d[1] /\ c[2] = q.zero
            /\ d[2] = p.zero
      BY <3>1, <3>2 DEF ScoreSides
    <3> QED
      BY <1>9, <2>3, <2>4, <3>3 DEF ScoreSoundPair
  <2> QED
    BY <1>9, <2>5, <2>6
<1> QED
  BY <1>11, <1>12

ScoreEntry == BOOLEAN \X BOOLEAN
ScoreEvals == Seq(ScoreEntry)

\* The streak of the gate is what the last evaluations were.
ScoreStreaks ==
  /\ score_mode \in BOOLEAN /\ score_evals \in ScoreEvals /\ Len(score_evals) <= score_MaxEvals
  /\ score_gate.passes \in Nat
  /\ score_gate.passes > 0 => score_gate.mode \in BOOLEAN
  /\ score_gate.passes <= Len(score_evals) \/ Len(score_evals) = score_MaxEvals
  /\ \A k \in 0..score_MaxEvals : k < score_gate.passes /\ k < Len(score_evals)
       => score_evals[Len(score_evals) - k] = <<score_gate.mode, TRUE>>
  /\ score_gate.status = "allowed" => score_gate.passes >= score_Passes

\* Whatever was saved is a plan that can be saved.
ScoreSaved == score_plans \in Seq(Score!Savable)
ScoreIInv == ScoreStreaks /\ ScoreSaved

\* The invariant says that control is earned.
LEMMA ScoreEarnsControl == ScoreIInv => Score!ControlIsEarned
<1> SUFFICES ASSUME ScoreIInv, score_gate.status = "allowed"
             PROVE  /\ Len(score_evals) >= score_Passes
                    /\ \A i \in Len(score_evals) - score_Passes + 1..Len(score_evals) :
                         score_evals[i] = <<score_gate.mode, TRUE>>
  BY DEF Score!ControlIsEarned
<1>1. PICK n \in Nat : n = Len(score_evals) /\ n <= score_MaxEvals /\ score_gate.passes \in Nat
        /\ score_gate.passes >= score_Passes
                       /\ n >= score_Passes
  BY LenProperties, ScoreAssumption DEF ScoreIInv, ScoreStreaks, ScoreEvals
<1>2. ASSUME NEW i \in (n - score_Passes + 1)..n
      PROVE  score_evals[i] = <<score_gate.mode, TRUE>>
  <2>1. n - i \in 0..score_MaxEvals /\ n - (n - i) = i /\ n - i < score_Passes /\ n - i < n
    BY <1>1, ScoreAssumption
  <2>2. PICK k \in 0..score_MaxEvals : k = n - i
    BY <2>1
  <2>3. k < score_gate.passes /\ k < Len(score_evals)
    BY <1>1, <2>1, <2>2, ScoreAssumption
  <2>4. score_evals[Len(score_evals) - k] = <<score_gate.mode, TRUE>>
    BY <2>3 DEF ScoreIInv, ScoreStreaks
  <2> QED
    BY <1>1, <2>1, <2>2, <2>4
<1> QED
  BY <1>1, <1>2

\* At first nothing has been evaluated.
LEMMA ScoreInvariantInitially == ASSUME Score!Init PROVE ScoreIInv
<1>1. <<>> \in ScoreEvals /\ Len(<<>>) = 0
  BY DEF ScoreEvals
<1>3. score_mode \in BOOLEAN
  BY Zenon DEF Score!Init
<1>2. score_evals = <<>> /\ score_gate.passes = 0 /\ score_gate.status = "none"
  BY DEF Score!Init, Score!NoGate
<1> QED
  <2>1. \A k \in 0..score_MaxEvals : ~(k < score_gate.passes /\ k < Len(score_evals))
    BY <1>1, <1>2, ScoreAssumption
  <2>2. score_evals \in ScoreEvals /\ Len(score_evals) <= score_MaxEvals
          /\ score_gate.passes <= Len(score_evals)
    BY <1>1, <1>2, ScoreAssumption
  <2>3. score_gate.passes \in Nat /\ ~(score_gate.passes > 0) /\ score_gate.status # "allowed"
    BY <1>2
  <2>4. \A k \in 0..score_MaxEvals : k < score_gate.passes /\ k < Len(score_evals)
          => score_evals[Len(score_evals) - k] = <<score_gate.mode, TRUE>>
    BY <2>1
  <2> QED
    <3>1. ScoreSaved
      BY DEF Score!Init, ScoreSaved
    <3> QED
      BY <1>3, <2>2, <2>3, <2>4, <3>1, Zenon DEF ScoreIInv, ScoreStreaks

\* The evaluations s are remembered in t, before e.
ScoreRemembers(s, e, t) ==
  /\ t \in ScoreEvals /\ Len(t) <= score_MaxEvals /\ Len(t) >= 1 /\ t[Len(t)] = e
  /\ Len(t) = Len(s) + 1 \/ Len(t) = score_MaxEvals
  /\ \A k \in 1..score_MaxEvals : k < Len(t)
       => k - 1 < Len(s) /\ t[Len(t) - k] = s[Len(s) - (k - 1)]
ScoreKept(s) == IF Len(s) < score_MaxEvals THEN s ELSE Tail(s)

\* An evaluation is appended, and the oldest is forgotten.
LEMMA ScoreRemembered ==
  ASSUME NEW s \in ScoreEvals, Len(s) <= score_MaxEvals, NEW e \in ScoreEntry
  PROVE  ScoreRemembers(s, e, Append(ScoreKept(s), e))
<1> DEFINE u == ScoreKept(s)
           t == Append(u, e)
<1>u. (Len(s) < score_MaxEvals => u = s) /\ (~(Len(s) < score_MaxEvals) => u = Tail(s))
  BY DEF ScoreKept
<1>t. t = Append(u, e)
  OBVIOUS
<1> HIDE DEF u, t
<1>1. Len(s) \in Nat /\ score_MaxEvals \in Nat /\ score_MaxEvals >= 1
  BY LenProperties, ScoreAssumption DEF ScoreEvals
<1>2. /\ u \in ScoreEvals /\ Len(u) \in Nat /\ Len(u) < score_MaxEvals
      /\ Len(u) = Len(s) \/ (Len(u) = Len(s) - 1 /\ Len(s) = score_MaxEvals)
      /\ \A k \in 1..Len(u) : u[k] = s[k + (Len(s) - Len(u))]
  <2>1. CASE Len(s) < score_MaxEvals
    BY <1>1, <1>u, <2>1
  <2>2. CASE Len(s) = score_MaxEvals
    <3>1. s # <<>>
      BY <1>1, <2>2
    <3>2. u = Tail(s)
      BY <1>1, <1>u, <2>2
    <3>3. Tail(s) \in ScoreEvals /\ Len(Tail(s)) = Len(s) - 1
            /\ \A i \in 1..Len(Tail(s)) : Tail(s)[i] = s[i + 1]
      BY <3>1, HeadTailProperties DEF ScoreEvals
    <3>4. Len(u) = score_MaxEvals - 1 /\ Len(s) - Len(u) = 1 /\ u \in ScoreEvals
      BY <1>1, <2>2, <3>2, <3>3
    <3>5. \A k \in 1..Len(u) : u[k] = s[k + (Len(s) - Len(u))]
      BY <3>2, <3>3, <3>4
    <3>6. Len(u) \in Nat /\ Len(u) < score_MaxEvals /\ Len(u) = Len(s) - 1
            /\ Len(s) = score_MaxEvals
      BY <1>1, <2>2, <3>4
    <3> QED
      BY <3>4, <3>5, <3>6
  <2> QED
    BY <1>1, <2>1, <2>2
<1>5. /\ t \in ScoreEvals /\ Len(t) = Len(u) + 1 /\ t[Len(u) + 1] = e
      /\ \A k \in 1..Len(u) : t[k] = u[k]
  <2>1. u \in Seq(ScoreEntry) /\ e \in ScoreEntry
    BY <1>2 DEF ScoreEvals
  <2>2. /\ Append(u, e) \in Seq(ScoreEntry) /\ Len(Append(u, e)) = Len(u) + 1
        /\ Append(u, e)[Len(u) + 1] = e /\ \A k \in 1..Len(u) : Append(u, e)[k] = u[k]
    BY ONLY <2>1, AppendProperties
  <2> QED
    BY <1>t, <2>2 DEF ScoreEvals
<1>6. ASSUME NEW k \in 1..score_MaxEvals, k < Len(t)
      PROVE  k - 1 < Len(s) /\ t[Len(t) - k] = s[Len(s) - (k - 1)]
  <2>6. PICK m \in Nat, n \in Nat : /\ m = Len(s) /\ n = Len(u) /\ Len(t) = n + 1
                                  /\ (n = m \/ n = m - 1)
    BY <1>1, <1>2, <1>5
  <2>3. /\ Len(t) - k \in 1..Len(u)
        /\ (Len(t) - k) + (Len(s) - Len(u)) = Len(s) - (k - 1)
    BY <1>1, <1>6, <2>6
  <2>1. PICK j \in 1..Len(u) : j = Len(t) - k /\ j + (Len(s) - Len(u)) = Len(s) - (k - 1)
    BY <2>3
  <2>2. t[j] = s[j + (Len(s) - Len(u))]
    BY <1>2, <1>5, <2>1
  <2>4. t[Len(t) - k] = t[j] /\ s[Len(s) - (k - 1)] = s[j + (Len(s) - Len(u))]
    BY <2>1
  <2>5. k - 1 < Len(s)
    BY <1>1, <1>6, <2>6
  <2> QED
    BY <2>2, <2>4, <2>5
<1>7. ScoreRemembers(s, e, t)
  BY <1>1, <1>2, <1>5, <1>6 DEF ScoreRemembers
<1> QED
  BY <1>7 DEF t, u

\* An evaluation prolongs the streak, begins one, or ends it.
LEMMA ScoreEvaluates ==
  ASSUME ScoreIInv, Score!Evaluate
  PROVE  ScoreIInv'
<1>1. PICK pass \in BOOLEAN, n \in Nat :
        /\ n = Score!Streak(pass)
        /\ score_gate' = [status |-> IF ~pass THEN "fallback" ELSE IF n >= score_Passes
                            THEN "allowed" ELSE "observing",
                          passes |-> n, mode |-> score_mode,
                          id |-> Score!Identity(Score!Scored(Score!OfMode(score_plans)))]
        /\ score_evals' = (IF Len(score_evals) < score_MaxEvals THEN score_evals
                             ELSE Tail(score_evals)) \o <<<<score_mode, pass>>>>
  <2>1. Score!RawPass(Score!Scored(Score!OfMode(score_plans))) \in BOOLEAN
    BY DEF Score!RawPass
  <2>2. \A b \in BOOLEAN : Score!Streak(b) \in Nat
    BY DEF Score!Streak, ScoreIInv, ScoreStreaks
  <2> QED
    BY <2>1, <2>2 DEF Score!Evaluate
<1>2. score_mode' = score_mode /\ score_mode \in BOOLEAN /\ score_evals \in ScoreEvals
        /\ Len(score_evals) <= score_MaxEvals /\ Len(score_evals) \in Nat
      /\ score_gate.passes \in Nat
  BY LenProperties DEF ScoreIInv, ScoreStreaks, Score!Evaluate, ScoreEvals
<1>3. <<score_mode, pass>> \in ScoreEntry
  BY <1>2 DEF ScoreEntry
<1>4. /\ score_evals' \in ScoreEvals /\ Len(score_evals') <= score_MaxEvals
           /\ Len(score_evals') >= 1
      /\ score_evals'[Len(score_evals')] = <<score_mode, pass>>
      /\ Len(score_evals') = Len(score_evals) + 1 \/ Len(score_evals') = score_MaxEvals
      /\ \A k \in 1..score_MaxEvals : k < Len(score_evals')
           => k - 1 < Len(score_evals)
             /\ score_evals'[Len(score_evals') - k] = score_evals[Len(score_evals) - (k - 1)]
  <2>2. PICK e \in ScoreEntry : e = <<score_mode, pass>>
    BY <1>3
  <2>4. PICK s \in ScoreEvals : s = score_evals /\ Len(s) <= score_MaxEvals
    BY <1>2
  <2>5. ScoreRemembers(s, e, Append(ScoreKept(s), e))
    BY <2>4, ScoreRemembered
  <2>6. ScoreKept(s) \in Seq(ScoreEntry)
    BY <1>2, <2>4, HeadTailProperties, ScoreAssumption DEF ScoreEvals, ScoreKept
  <2>7. PICK t : t = Append(ScoreKept(s), e)
    OBVIOUS
  <2>8. score_evals' = t
    <3>1. score_evals' = ScoreKept(s) \o <<e>>
      BY <1>1, <2>2, <2>4 DEF ScoreKept
    <3> QED
      BY <2>6, <2>7, <3>1, AppendIsConcat
  <2>9. ScoreRemembers(s, e, t)
    BY <2>5, <2>7
  <2> QED
    BY <2>2, <2>4, <2>8, <2>9 DEF ScoreRemembers
<1>5. n \in Nat /\ score_gate'.passes = n /\ score_gate'.mode = score_mode
        /\ (score_gate'.status = "allowed" => n >= score_Passes)
      /\ (n > 0 => pass = TRUE)
      /\ (n > 1 => score_gate.mode = score_mode /\ score_gate.passes = n - 1)
      /\ (n > score_gate.passes + 1 => FALSE)
  BY <1>1, <1>2 DEF Score!Streak
<1>6. PICK old \in Nat, new \in Nat : old = Len(score_evals) /\ new = Len(score_evals')
  BY <1>2, <1>4, LenProperties DEF ScoreEvals
<1>7. n <= new \/ new = score_MaxEvals
  BY <1>2, <1>4, <1>5, <1>6, ScoreAssumption DEF ScoreIInv, ScoreStreaks
<1>8. ASSUME NEW k \in 0..score_MaxEvals, k < n, k < new
      PROVE  score_evals'[new - k] = <<score_mode, TRUE>>
  <2>1. CASE k = 0
    <3>1. new - k = Len(score_evals') /\ pass = TRUE
      BY <1>5, <1>6, <1>8, <2>1
    <3> QED
      BY <1>4, <3>1
  <2>2. CASE k # 0
    <3>1. PICK j \in 0..score_MaxEvals : j = k - 1
      BY <2>2, ScoreAssumption
    <3>2. k \in 1..score_MaxEvals
      BY <2>2, ScoreAssumption
    <3>3. j < old /\ score_evals'[new - k] = score_evals[old - j]
      BY <1>4, <1>6, <1>8, <3>1, <3>2
    <3>4. j < score_gate.passes /\ score_gate.mode = score_mode
      BY <1>2, <1>5, <1>8, <3>1, <3>2
    <3> QED
      BY <1>6, <3>3, <3>4 DEF ScoreIInv, ScoreStreaks
  <2> QED
    BY <2>1, <2>2
<1>9. ScoreSaved'
  BY DEF ScoreIInv, ScoreSaved, Score!Evaluate
<1> QED
  BY <1>2, <1>4, <1>5, <1>6, <1>7, <1>8, <1>9 DEF ScoreIInv, ScoreStreaks

\* Every step keeps the invariant.
LEMMA ScoreInvariantKept == ASSUME ScoreIInv, [Score!Next]_scoreVars PROVE ScoreIInv'
<1>0. ScoreSaved'
  <2>1. ASSUME NEW p \in Score!Savable, score_plans' = Append(score_plans, p)
        PROVE  score_plans' \in Seq(Score!Savable)
    BY <2>1 DEF ScoreIInv, ScoreSaved
  <2> QED
    BY <2>1 DEF Score!Next, scoreVars, Score!Save, Score!Evaluate, Score!Reload,
       Score!Configure, ScoreIInv, ScoreSaved
<1>1. CASE UNCHANGED <<score_gate, score_evals>> /\ score_mode' \in BOOLEAN
  BY <1>0, <1>1 DEF ScoreIInv, ScoreStreaks
<1>2. CASE Score!Reload
  <2>1. <<>> \in ScoreEvals /\ Len(<<>>) = 0
    BY DEF ScoreEvals
  <2>2. score_evals' = <<>> /\ score_mode' \in BOOLEAN /\ score_gate'.passes = 0
          /\ score_gate'.status = "none"
    BY <1>2 DEF Score!Reload, Score!NoGate, ScoreIInv, ScoreStreaks
  <2> QED
    <3>1. \A k \in 0..score_MaxEvals : ~(k < score_gate'.passes /\ k < Len(score_evals'))
      BY <2>1, <2>2, ScoreAssumption
    <3>2. score_evals' \in ScoreEvals /\ Len(score_evals') <= score_MaxEvals
            /\ score_gate'.passes <= Len(score_evals')
      BY <2>1, <2>2, ScoreAssumption
    <3>3. score_gate'.passes \in Nat /\ ~(score_gate'.passes > 0)
            /\ score_gate'.status # "allowed"
      BY <2>2
    <3>4. \A k \in 0..score_MaxEvals : k < score_gate'.passes /\ k < Len(score_evals')
            => score_evals'[Len(score_evals') - k] = <<score_gate'.mode, TRUE>>
      BY <3>1
    <3> QED
      BY <1>0, <2>2, <3>2, <3>3, <3>4, Zenon DEF ScoreIInv, ScoreStreaks
<1>3. CASE Score!Evaluate
  BY <1>3, ScoreEvaluates
<1>4. score_mode \in BOOLEAN
  BY DEF ScoreIInv, ScoreStreaks
<1> QED
  BY <1>1, <1>2, <1>3, <1>4 DEF Score!Next, scoreVars, Score!Save, Score!Configure

\* What was saved is scored, and paired, as far as all plans agree.
LEMMA ScoreAgreesInvariantly == ASSUME ScoreIInv PROVE Score!EvidenceAgrees
<1>1. PICK ps : ps = Score!OfMode(score_plans)
  OBVIOUS
<1>2. ps \in Seq(Score!Savable)
  <2>1. PICK wanted : wanted = {p \in Score!Range2(score_plans) : p.live = score_mode}
    OBVIOUS
  <2>2. Score!Selected(score_plans, wanted) \in Seq(Score!Savable)
    BY ScoreSelectedIs DEF ScoreIInv, ScoreSaved
  <2> QED
    BY <1>1, <2>1, <2>2 DEF Score!OfMode
<1>3. {<<o[1][1][1], o[1][2]>> : o \in Score!Scored(ps)}
        = UNION {{<<s, a[2].t>> : a \in Score!Claims(s, Score!Range2(ps))} :
                 s \in {s \in {Score!Scope(p) : p \in Score!Range2(ps)} :
                          Score!Unanimous(s, Score!Range2(ps))}}
  BY <1>2, ScoredSets
<1>4. Cardinality({o[1][1][1] : o \in Score!Scored(ps)}) = Cardinality(Score!Scored(ps))
  BY <1>2, ScoredOnce
<1>5. \A o \in Score!Pairs(ps) :
        /\ o[1][1] \notin score_Commanded
        /\ \A p \in Score!Range2(ps) : Score!Whole(p) /\ Score!Scope(p) = o[1][1] =>
             /\ p.candidate # score_None /\ p.zero # score_None
             /\ p.candidate.t = o[1][2] /\ p.zero.t = o[1][2]
             /\ <<p.candidate.v, p.zero.v>> = o[2]
  BY <1>2, ScorePairsAgree
<1> QED
  BY <1>1, <1>3, <1>4, <1>5, ScoreCardinalityIs DEF Score!EvidenceAgrees


\* The invariant of this service, whenever it is the one that acts.
LEMMA ScoreInvariant == EvidenceSpec => [](verdict = "score" => ScoreIInv)
<1>1. EvidenceInit => (verdict = "score" => ScoreIInv)
  BY ScoreInvariantInitially DEF EvidenceInit
<1>2. (verdict = "score" => ScoreIInv) /\ [EvidenceNext]_verdictVars
        => (verdict = "score" => ScoreIInv)'
  BY ScoreInvariantKept DEF EvidenceNext, verdictVars
<1> QED
  BY <1>1, <1>2, PTL DEF EvidenceSpec

-----------------------------------------------------------------------------
(***************************************************************************)
(* The shared snapshot of what the models are ready for                    *)
(* (ReadinessSnapshot).                                                    *)
(***************************************************************************)

\* What runs is the current generation.
ReadinessCurrentRuns == \A f \in Readiness!Started : ~Readiness!Done(f) => readiness_current = f

\* Nobody waits for a generation that is given up, and only such are cancelled.
ReadinessWaits(x) == x.at = "waiting" =>
  x.flight \in Readiness!Started /\ readiness_flights[x.flight].key = x.key
    /\ readiness_flights[x.flight].joinable
ReadinessGivenUp == \A f \in Readiness!Started :
  readiness_flights[f].stage \in {"cancelling", "cancelled"} => ~readiness_flights[f].joinable

\* What a caller has been told is about its key, and not that it was cancelled.
ReadinessFits(x) == x.at = "answered" => /\ x.answer # "cancelled"
                                         /\ x.answer = "composed" => x.of = x.key

ReadinessIInv == /\ Readiness!TypeOK /\ ReadinessCurrentRuns /\ ReadinessGivenUp
                 /\ \A c \in readiness_Callers : ReadinessWaits(readiness_caller[c])
                      /\ ReadinessFits(readiness_caller[c])

\* The module's cardinality and finiteness are those of finite sets.
LEMMA ReadinessSetsAre ==
  \A S : Readiness!Cardinality(S) = Cardinality(S)
          /\ (Readiness!IsFiniteSet(S) <=> IsFiniteSet(S))
<1>1. \A S : Readiness!Cardinality(S) = Cardinality(S)
  BY DEF Readiness!Cardinality, Cardinality
<1>2. \A S : Readiness!IsFiniteSet(S) <=> IsFiniteSet(S)
  BY DEF Readiness!IsFiniteSet, IsFiniteSet
<1> QED
  BY <1>1, <1>2

\* A component is ready on its serving model's qualification, by the table.
LEMMA ReadinessReadyOnProof == Readiness!ReadyIsProven
<1> SUFFICES ASSUME NEW s \in Readiness!Snapshots, Readiness!NextStep(s) = "ready_for_reporting"
             PROVE  /\ s.collected = "complete" /\ s.candidate = Readiness!NoReference
                    /\ s.serving.readable /\ Readiness!Covers(s.serving)
  BY DEF Readiness!ReadyIsProven
<1>1. s.collected \in {"unassessed", "short", "complete"} /\ s.collected # "unassessed"
        /\ s.collected # "short"
  BY DEF Readiness!NextStep, Readiness!Snapshots
<1>2. Readiness!Reporting(s) = "qualified-for-reporting"
  BY DEF Readiness!NextStep
<1>3. Readiness!ArtifactStatus(s) = "qualified-for-reporting"
        /\ Readiness!Covers(Readiness!Reference(s))
  BY <1>2 DEF Readiness!Reporting
<1>4. s.serving.readable /\ s.serving # Readiness!NoReference
  BY <1>3 DEF Readiness!ArtifactStatus
<1>5. s.candidate = Readiness!NoReference
  <2>1. CASE s.candidate # Readiness!NoReference
    <3>1. s.candidate \in Readiness!Candidates
      BY <2>1 DEF Readiness!Snapshots
    <3>2. s.candidate.qualified = "no"
      BY <3>1 DEF Readiness!Candidates
    <3> QED
      BY <1>3, <2>1, <3>2 DEF Readiness!Reference, Readiness!Covers
  <2> QED
    BY <2>1
<1> QED
  BY <1>1, <1>3, <1>4, <1>5 DEF Readiness!Reference

\* The invariant says that answers are their own.
LEMMA ReadinessAnswersFit == ReadinessIInv => Readiness!AnswersAreTheirOwn
<1> SUFFICES ASSUME ReadinessIInv PROVE Readiness!AnswersAreTheirOwn
  OBVIOUS
<1>1. Readiness!Running \subseteq {readiness_current}
  BY DEF ReadinessIInv, ReadinessCurrentRuns, Readiness!Running
<1>2. IsFiniteSet({readiness_current}) /\ Cardinality({readiness_current}) = 1
  BY FS_Singleton
<1>3. Cardinality(Readiness!Running) <= 1
  BY <1>1, <1>2, FS_Subset
<1> QED
  BY <1>3, ReadinessReadyOnProof, ReadinessSetsAre DEF Readiness!AnswersAreTheirOwn, ReadinessIInv,
     ReadinessFits

\* At first nothing runs.
LEMMA ReadinessInvariantInitially == ASSUME Readiness!Init PROVE ReadinessIInv
<1>1. Readiness!Idle \in Readiness!Caller
  BY DEF Readiness!Idle, Readiness!Caller
<1>2. Readiness!Started = {} /\ Cardinality({}) = 0 /\ 1..0 = {} /\ IsFiniteSet({})
  BY FS_EmptySet DEF Readiness!Init, Readiness!Started
<1>3. Readiness!TypeOK
  BY <1>1, <1>2, ReadinessSetsAre DEF Readiness!Init, Readiness!TypeOK
<1> QED
  BY <1>2, <1>3 DEF Readiness!Init, ReadinessIInv, ReadinessCurrentRuns,
     ReadinessGivenUp, ReadinessWaits, ReadinessFits, Readiness!Idle

\* Generations are numbered, and none of them is None.
LEMMA ReadinessStartedAreNumbers ==
  ASSUME ReadinessIInv
  PROVE  Cardinality(Readiness!Started) \in Nat /\ Readiness!Started \subseteq Nat
           /\ readiness_None \notin Readiness!Started
<1>1. Cardinality(Readiness!Started) \in Nat
  BY FS_CardinalityType, ReadinessSetsAre DEF ReadinessIInv, Readiness!TypeOK
<1>2. Readiness!Started = 1..Cardinality(Readiness!Started)
  BY ReadinessSetsAre DEF ReadinessIInv, Readiness!TypeOK
<1> QED
  BY <1>1, <1>2, ReadinessAssumption

\* The steps that only move one generation on, as the code lets them.
LEMMA ReadinessFlightMoves ==
  ASSUME ReadinessIInv, NEW f \in Readiness!Started, ~Readiness!Done(f),
         UNCHANGED <<readiness_now, readiness_current, readiness_caller>>,
         NEW s \in {"composing"} \cup Readiness!Ended, NEW w \in BOOLEAN,
         s = "cancelled" => ~readiness_flights[f].joinable,
         readiness_flights' =
           [readiness_flights EXCEPT ![f] = [@ EXCEPT !.stage = s, !.worker = w]]
  PROVE  ReadinessIInv'
<1>1. readiness_flights \in [Readiness!Started -> Readiness!Flight]
        /\ readiness_flights[f] \in Readiness!Flight
  BY DEF ReadinessIInv, Readiness!TypeOK
<1>2. Readiness!Started' = Readiness!Started
  BY <1>1 DEF Readiness!Started
<1>3. PICK g \in Readiness!Flight : g = [readiness_flights[f] EXCEPT !.stage = s, !.worker = w]
  BY <1>1 DEF Readiness!Flight, Readiness!Ended
<1>4. g.key = readiness_flights[f].key /\ g.joinable = readiness_flights[f].joinable
        /\ g.stage = s
  BY <1>1, <1>3 DEF Readiness!Flight
<1>5. readiness_flights' = [readiness_flights EXCEPT ![f] = g]
  BY <1>3
<1>6. readiness_flights' \in [Readiness!Started -> Readiness!Flight]
        /\ readiness_flights'[f] = g
        /\ \A e \in Readiness!Started : e # f => readiness_flights'[e] = readiness_flights[e]
  BY <1>1, <1>5
<1>7. Readiness!TypeOK'
  BY <1>2, <1>6 DEF ReadinessIInv, Readiness!TypeOK
<1>8. ReadinessCurrentRuns'
  BY <1>2, <1>6 DEF ReadinessIInv, ReadinessCurrentRuns, Readiness!Done
<1>9. ReadinessGivenUp'
  BY <1>2, <1>4, <1>6 DEF ReadinessIInv, ReadinessGivenUp, Readiness!Ended
<1>10. \A c \in readiness_Callers : ReadinessWaits(readiness_caller[c])'
         /\ ReadinessFits(readiness_caller[c])'
  BY <1>2, <1>4, <1>6 DEF ReadinessIInv, ReadinessWaits, ReadinessFits
<1> QED
  BY <1>7, <1>8, <1>9, <1>10 DEF ReadinessIInv

\* One caller changes, and no generation with it.
LEMMA ReadinessCallerMoves ==
  ASSUME ReadinessIInv, NEW c \in readiness_Callers,
         UNCHANGED <<readiness_now, readiness_flights, readiness_current>>,
         NEW x \in Readiness!Caller,
         readiness_caller' = [readiness_caller EXCEPT ![c] = x], ReadinessWaits(x),
         ReadinessFits(x)
  PROVE  ReadinessIInv'
<1>1. readiness_caller \in [readiness_Callers -> Readiness!Caller]
  BY DEF ReadinessIInv, Readiness!TypeOK
<1>2. readiness_caller' \in [readiness_Callers -> Readiness!Caller] /\ readiness_caller'[c] = x
        /\ \A d \in readiness_Callers : d # c => readiness_caller'[d] = readiness_caller[d]
  BY <1>1
<1>3. Readiness!TypeOK'
  BY <1>2 DEF ReadinessIInv, Readiness!TypeOK, Readiness!Started
<1>4. ReadinessCurrentRuns' /\ ReadinessGivenUp'
  BY DEF ReadinessIInv, ReadinessCurrentRuns, ReadinessGivenUp, Readiness!Started,
     Readiness!Done
<1>5. \A d \in readiness_Callers : ReadinessWaits(readiness_caller[d])'
        /\ ReadinessFits(readiness_caller[d])'
  BY <1>2 DEF ReadinessIInv, ReadinessWaits, ReadinessFits, Readiness!Started
<1> QED
  BY <1>3, <1>4, <1>5 DEF ReadinessIInv

\* A caller asks, and is told, joins or starts a generation.
LEMMA ReadinessAskMoves ==
  ASSUME ReadinessIInv, NEW c \in readiness_Callers, NEW k \in readiness_Keys,
         Readiness!Ask(c, k)
  PROVE  ReadinessIInv'
<1>0. readiness_caller \in [readiness_Callers -> Readiness!Caller]
        /\ readiness_flights \in [Readiness!Started -> Readiness!Flight]
        /\ readiness_now \in Nat
        /\ readiness_current \in Readiness!Started \cup {readiness_None}
             /\ Readiness!Started = 1..Cardinality(Readiness!Started)
  BY ReadinessSetsAre DEF ReadinessIInv, Readiness!TypeOK
<1>1. CASE /\ readiness_caller' = [readiness_caller EXCEPT ![c] =
                                     [Readiness!Idle EXCEPT !.at = "answered", !.key = k,
                                                                                         !.answer = "busy"]]
           /\ UNCHANGED <<readiness_now, readiness_flights, readiness_current>>
  <2>1. PICK x \in Readiness!Caller :
          x = [Readiness!Idle EXCEPT !.at = "answered", !.key = k, !.answer = "busy"]
    BY DEF Readiness!Idle, Readiness!Caller
  <2>2. ReadinessWaits(x) /\ ReadinessFits(x)
    BY <2>1 DEF Readiness!Idle, ReadinessWaits, ReadinessFits
  <2> QED
    BY <1>1, <2>1, <2>2, ReadinessCallerMoves
<1>2. CASE /\ Readiness!Active # readiness_None /\ Readiness!Joinable(Readiness!Active, k)
                /\ Readiness!Joins(c, k, Readiness!Active)
           /\ UNCHANGED <<readiness_now, readiness_flights, readiness_current>>
  <2>1. Readiness!Active \in Readiness!Started
    BY <1>0, <1>2 DEF Readiness!Active
  <2>2. Readiness!Active \in Nat
    BY <2>1, ReadinessStartedAreNumbers
  <2>3. PICK x \in Readiness!Caller :
          x = [Readiness!Idle EXCEPT !.at = "waiting", !.key = k, !.flight = Readiness!Active]
    BY <2>2 DEF Readiness!Idle, Readiness!Caller
  <2>4. ReadinessWaits(x) /\ ReadinessFits(x)
    BY <1>2, <2>1, <2>3 DEF Readiness!Idle, ReadinessWaits, ReadinessFits,
       Readiness!Joinable
  <2> QED
    BY <1>2, <2>3, <2>4, ReadinessCallerMoves DEF Readiness!Joins
<1>3. ASSUME NEW f, f = Cardinality(Readiness!Started) + 1, Readiness!Active = readiness_None,
             readiness_flights' = [g \in Readiness!Started \cup {f} |->
                                     IF g = f THEN [key |-> k, stage |-> "capturing",
                                                    joinable |-> TRUE,
                                                    worker |-> FALSE, deadline |->
                                                      readiness_now + readiness_Response]
                                     ELSE readiness_flights[g]],
             readiness_current' = f, Readiness!Joins(c, k, f), readiness_now' = readiness_now
      PROVE  ReadinessIInv'
  <2>1. PICK n \in Nat : n = Cardinality(Readiness!Started) /\ Readiness!Started = 1..n
    BY ReadinessStartedAreNumbers, ReadinessSetsAre DEF ReadinessIInv, Readiness!TypeOK
  <2>2. f = n + 1 /\ f \notin Readiness!Started /\ Readiness!Started \cup {f} = 1..f
          /\ f \in Nat
    <3>1. f = n + 1 /\ n \in Nat /\ Readiness!Started = 1..n
      BY <1>3, <2>1
    <3>2. \A e : e \in 1..f <=> e \in 1..n \/ e = f
      BY ONLY <3>1
    <3> QED
      BY ONLY <3>1, <3>2
  <2>3. PICK g \in Readiness!Flight : g = [key |-> k, stage |-> "capturing", joinable |-> TRUE,
                                           worker |-> FALSE, deadline |->
                                             readiness_now + readiness_Response]
    <3>1. readiness_now + readiness_Response \in Nat
      BY <1>0, ReadinessAssumption
    <3> QED
      BY <3>1 DEF Readiness!Flight
  <2>4. Readiness!Started' = 1..f
    BY <1>3, <2>2 DEF Readiness!Started
  <2>5. readiness_flights' \in [1..f -> Readiness!Flight] /\ readiness_flights'[f] = g
          /\ \A e \in Readiness!Started : readiness_flights'[e] = readiness_flights[e]
    BY <1>0, <1>3, <2>2, <2>3
  <2>6. Cardinality(1..f) = f /\ IsFiniteSet(1..f)
    BY <2>2, FS_Interval
  <2>7. PICK x \in Readiness!Caller :
          x = [Readiness!Idle EXCEPT !.at = "waiting", !.key = k, !.flight = f]
    BY <2>2 DEF Readiness!Idle, Readiness!Caller
  <2>8. readiness_caller' \in [readiness_Callers -> Readiness!Caller]
          /\ readiness_caller'[c] = x
          /\ \A d \in readiness_Callers : d # c => readiness_caller'[d] = readiness_caller[d]
    BY <1>0, <1>3, <2>7 DEF Readiness!Joins
  <2>9. Readiness!TypeOK'
    BY <1>0, <1>3, <2>2, <2>4, <2>5, <2>6, <2>8, ReadinessSetsAre DEF Readiness!TypeOK
  <2>10. ReadinessCurrentRuns'
    <3>1. \A e \in Readiness!Started : Readiness!Done(e)
      BY <1>3, ReadinessStartedAreNumbers DEF ReadinessIInv, ReadinessCurrentRuns,
         Readiness!Active
    <3> QED
      BY <1>3, <2>2, <2>4, <2>5, <3>1 DEF ReadinessCurrentRuns, Readiness!Done
  <2>11. ReadinessGivenUp'
    BY <2>2, <2>3, <2>4, <2>5 DEF ReadinessGivenUp, ReadinessIInv
  <2>12. \A d \in readiness_Callers : ReadinessWaits(readiness_caller[d])'
           /\ ReadinessFits(readiness_caller[d])'
    <3> TAKE d \in readiness_Callers
    <3>1. CASE d = c
      <4>1. x.at = "waiting" /\ x.key = k /\ x.flight = f
        BY <2>7 DEF Readiness!Idle
      <4>2. g.key = k /\ g.joinable /\ f \in 1..f
        BY <2>2, <2>3
      <4> QED
        BY <2>4, <2>5, <2>8, <3>1, <4>1, <4>2 DEF ReadinessWaits, ReadinessFits
    <3>2. CASE d # c
      BY <2>2, <2>4, <2>5, <2>8, <3>2 DEF ReadinessIInv, ReadinessWaits, ReadinessFits
    <3> QED
      BY <3>1, <3>2
  <2> QED
    BY <2>9, <2>10, <2>11, <2>12 DEF ReadinessIInv
<1> QED
  BY <1>1, <1>2, <1>3, ReadinessSetsAre DEF Readiness!Ask

\* The result of a generation reaches a caller.
LEMMA ReadinessAnswerMoves ==
  ASSUME ReadinessIInv, NEW c \in readiness_Callers, Readiness!Answer(c)
  PROVE  ReadinessIInv'
<1>1. readiness_caller[c] \in Readiness!Caller
        /\ readiness_flights \in [Readiness!Started -> Readiness!Flight]
        /\ ReadinessWaits(readiness_caller[c])
  BY DEF ReadinessIInv, Readiness!TypeOK
<1>2. PICK f \in Readiness!Started : f = readiness_caller[c].flight
        /\ readiness_flights[f].key = readiness_caller[c].key
         /\ readiness_flights[f].joinable /\ readiness_flights[f] \in Readiness!Flight
              /\ Readiness!Done(f)
  BY <1>1 DEF Readiness!Answer, ReadinessWaits
<1>3. readiness_flights[f].stage # "cancelled"
        /\ readiness_flights[f].stage \in Readiness!Ended
        /\ readiness_flights[f].key \in readiness_Keys
  BY <1>2 DEF ReadinessIInv, ReadinessGivenUp, Readiness!Done, Readiness!Flight
<1>4. PICK x \in Readiness!Caller :
        x = [readiness_caller[c] EXCEPT !.at = "answered",
                                        !.answer = readiness_flights[f].stage,
                                                                    !.of = readiness_flights[f].key]
  BY <1>1, <1>3 DEF Readiness!Caller
<1>5. ReadinessWaits(x) /\ ReadinessFits(x)
  BY <1>1, <1>2, <1>3, <1>4 DEF ReadinessWaits, ReadinessFits, Readiness!Caller
<1> QED
  BY <1>2, <1>4, <1>5, ReadinessCallerMoves DEF Readiness!Answer, Readiness!Told

\* A caller leaves, and gives the generation up if it is the last.
LEMMA ReadinessLeaveMoves ==
  ASSUME ReadinessIInv, NEW c \in readiness_Callers, Readiness!Leave(c)
  PROVE  ReadinessIInv'
<1>1. readiness_caller[c] \in Readiness!Caller
        /\ readiness_flights \in [Readiness!Started -> Readiness!Flight]
        /\ ReadinessWaits(readiness_caller[c])
        /\ readiness_caller \in [readiness_Callers -> Readiness!Caller]
  BY DEF ReadinessIInv, Readiness!TypeOK
<1>2. PICK f \in Readiness!Started : f = readiness_caller[c].flight
        /\ readiness_flights[f] \in Readiness!Flight /\ ~Readiness!Done(f)
  BY <1>1 DEF Readiness!Leave, ReadinessWaits
<1>3. PICK a \in {"deadline", "gone"} :
        readiness_caller' = [readiness_caller EXCEPT ![c].at = "answered", ![c].answer = a,
                                                     ![c].of = readiness_None]
  BY DEF Readiness!Leave, Readiness!Told
<1>4. PICK x \in Readiness!Caller :
        x = [readiness_caller[c] EXCEPT !.at = "answered", !.answer = a, !.of = readiness_None]
  BY <1>1 DEF Readiness!Caller
<1>5. ReadinessFits(x) /\ x.at = "answered"
  BY <1>1, <1>4 DEF ReadinessFits, Readiness!Caller
<1>6. readiness_caller' = [readiness_caller EXCEPT ![c] = x]
  BY <1>1, <1>3, <1>4
<1>7. CASE Readiness!Waiting(f) # {c}
  BY <1>2, <1>4, <1>5, <1>6, <1>7, ReadinessCallerMoves DEF Readiness!Leave,
     Readiness!Left, ReadinessWaits
<1>8. CASE Readiness!Waiting(f) = {c}
  <2>1. PICK s \in {"capturing", "composing", "cancelling"} :
          s = IF readiness_flights[f].worker THEN readiness_flights[f].stage ELSE "cancelling"
    BY <1>2 DEF Readiness!Flight, Readiness!Done
  <2>2. PICK g \in Readiness!Flight :
          g = [readiness_flights[f] EXCEPT !.joinable = FALSE, !.stage = s]
    BY <1>2, <2>1 DEF Readiness!Flight
  <2>3. g.key = readiness_flights[f].key /\ ~g.joinable /\ g.stage = s
    BY <1>2, <2>2 DEF Readiness!Flight
  <2>4. readiness_flights' = [readiness_flights EXCEPT ![f] = g]
    BY <1>1, <1>2, <1>8, <2>1, <2>2 DEF Readiness!Leave, Readiness!Left
  <2>5. Readiness!Started' = Readiness!Started
          /\ readiness_flights' \in [Readiness!Started -> Readiness!Flight]
          /\ readiness_flights'[f] = g
          /\ \A e \in Readiness!Started : e # f => readiness_flights'[e] = readiness_flights[e]
    BY <1>1, <2>4 DEF Readiness!Started
  <2>6. readiness_caller' \in [readiness_Callers -> Readiness!Caller]
          /\ readiness_caller'[c] = x
          /\ \A d \in readiness_Callers : d # c => readiness_caller'[d] = readiness_caller[d]
    BY <1>1, <1>6
  <2>7. readiness_now' = readiness_now /\ readiness_current' = readiness_current
    BY DEF Readiness!Leave
  <2>8. Readiness!TypeOK'
    BY <2>5, <2>6, <2>7 DEF ReadinessIInv, Readiness!TypeOK
  <2>9. ReadinessCurrentRuns'
    BY <1>2, <2>5, <2>7 DEF ReadinessIInv, ReadinessCurrentRuns, Readiness!Done
  <2>10. ReadinessGivenUp'
    BY <2>3, <2>5 DEF ReadinessIInv, ReadinessGivenUp
  <2>11. \A d \in readiness_Callers : ReadinessWaits(readiness_caller[d])'
           /\ ReadinessFits(readiness_caller[d])'
    <3> TAKE d \in readiness_Callers
    <3>1. CASE d = c
      BY <1>5, <2>6, <3>1 DEF ReadinessWaits, ReadinessFits
    <3>2. CASE d # c
      <4>1. d \notin Readiness!Waiting(f)
        BY <1>8, <3>2
      <4>2. readiness_caller[d].at = "waiting" => readiness_caller[d].flight # f
        BY <4>1 DEF Readiness!Waiting
      <4> QED
        BY <2>5, <2>6, <3>2, <4>2 DEF ReadinessIInv, ReadinessWaits, ReadinessFits
    <3> QED
      BY <3>1, <3>2
  <2> QED
    BY <2>8, <2>9, <2>10, <2>11 DEF ReadinessIInv
<1> QED
  BY <1>7, <1>8

\* The generation itself goes on.
LEMMA ReadinessGenerationMoves ==
  ASSUME ReadinessIInv, NEW f \in Readiness!Started, Readiness!Capture(f)
           \/ Readiness!Compose(f) \/ Readiness!Finished(f) \/ Readiness!CancelEnds(f)
  PROVE  ReadinessIInv'
<1>0. readiness_flights \in [Readiness!Started -> Readiness!Flight]
        /\ readiness_flights[f] \in Readiness!Flight
  BY DEF ReadinessIInv, Readiness!TypeOK
<1>1. CASE Readiness!Finished(f)
  <2>1. Readiness!TypeOK'
    BY <1>1 DEF Readiness!Finished, ReadinessIInv, Readiness!TypeOK, Readiness!Started
  <2>2. ReadinessCurrentRuns'
    BY <1>1 DEF Readiness!Finished, ReadinessIInv, ReadinessCurrentRuns,
       Readiness!Started, Readiness!Done
  <2>3. ReadinessGivenUp' /\ \A c \in readiness_Callers : ReadinessWaits(readiness_caller[c])'
          /\ ReadinessFits(readiness_caller[c])'
    BY <1>1 DEF Readiness!Finished, ReadinessIInv, ReadinessGivenUp, ReadinessWaits,
       ReadinessFits, Readiness!Started
  <2> QED
    BY <2>1, <2>2, <2>3 DEF ReadinessIInv
<1>2. CASE Readiness!Capture(f)
  <2>0. ~Readiness!Done(f) /\ UNCHANGED <<readiness_now, readiness_current, readiness_caller>>
    BY <1>2 DEF Readiness!Capture, Readiness!Done, Readiness!Ended
  <2>1. PICK s \in {"composing"} \cup Readiness!Ended, w \in BOOLEAN :
          /\ s = "cancelled" => ~readiness_flights[f].joinable
          /\ readiness_flights' =
               [readiness_flights EXCEPT ![f] = [@ EXCEPT !.stage = s, !.worker = w]]
    <3>1. CASE Readiness!Stage(f, "unavailable")
      <4>1. readiness_flights' =
              [readiness_flights EXCEPT ![f] = [@ EXCEPT !.stage = "unavailable",
                                                                            !.worker = readiness_flights[f].worker]]
        BY <1>0, <3>1 DEF Readiness!Stage, Readiness!Flight
      <4> QED
        BY <1>0, <4>1 DEF Readiness!Ended, Readiness!Flight
    <3>2. CASE ~readiness_flights[f].joinable /\ Readiness!Stage(f, "cancelled")
      <4>1. readiness_flights' =
              [readiness_flights EXCEPT ![f] = [@ EXCEPT !.stage = "cancelled",
                                                                            !.worker = readiness_flights[f].worker]]
        BY <1>0, <3>2 DEF Readiness!Stage, Readiness!Flight
      <4> QED
        BY <1>0, <3>2, <4>1 DEF Readiness!Ended, Readiness!Flight
    <3>3. CASE readiness_flights' =
                 [readiness_flights EXCEPT ![f].stage = "composing", ![f].worker = TRUE]
      BY <1>0, <3>3 DEF Readiness!Flight
    <3> QED
      BY <1>2, <3>1, <3>2, <3>3 DEF Readiness!Capture
  <2> QED
    BY <2>0, <2>1, ReadinessFlightMoves
<1>3. CASE Readiness!Compose(f)
  <2>0. ~Readiness!Done(f) /\ UNCHANGED <<readiness_now, readiness_current, readiness_caller>>
    BY <1>3 DEF Readiness!Compose, Readiness!Done, Readiness!Ended
  <2>1. PICK s \in Readiness!Ended : s # "cancelled" /\ Readiness!Stage(f, s)
    BY <1>3 DEF Readiness!Compose, Readiness!Ended
  <2>2. readiness_flights' =
          [readiness_flights EXCEPT ![f] =
             [@ EXCEPT !.stage = s, !.worker = readiness_flights[f].worker]]
    BY <1>0, <2>1 DEF Readiness!Stage, Readiness!Flight
  <2>3. readiness_flights[f].worker \in BOOLEAN /\ s \in {"composing"} \cup Readiness!Ended
    BY <1>0, <2>1 DEF Readiness!Flight
  <2> QED
    BY <2>0, <2>1, <2>2, <2>3, ReadinessFlightMoves
<1>4. CASE Readiness!CancelEnds(f)
  <2>0. ~Readiness!Done(f) /\ UNCHANGED <<readiness_now, readiness_current, readiness_caller>>
          /\ ~readiness_flights[f].joinable
    BY <1>4 DEF Readiness!CancelEnds, Readiness!Done, Readiness!Ended, ReadinessIInv,
       ReadinessGivenUp
  <2>2. readiness_flights' = [readiness_flights EXCEPT ![f] = [@ EXCEPT !.stage = "cancelled",
                                                                        !.worker = readiness_flights[f].worker]]
    BY <1>0, <1>4 DEF Readiness!CancelEnds, Readiness!Stage, Readiness!Flight
  <2>3. readiness_flights[f].worker \in BOOLEAN /\ "cancelled" \in Readiness!Ended
    BY <1>0 DEF Readiness!Flight, Readiness!Ended
  <2> QED
    BY <2>0, <2>2, <2>3, ReadinessFlightMoves
<1> QED
  BY <1>1, <1>2, <1>3, <1>4

\* Every step keeps the invariant.
LEMMA ReadinessInvariantKept == ReadinessIInv /\ [Readiness!Next]_readinessVars
                                  => ReadinessIInv'
<1> SUFFICES ASSUME ReadinessIInv, [Readiness!Next]_readinessVars PROVE ReadinessIInv'
  OBVIOUS
<1>1. CASE UNCHANGED <<readiness_flights, readiness_current, readiness_caller>>
             /\ readiness_now' \in Nat
  BY <1>1 DEF ReadinessIInv, Readiness!TypeOK, ReadinessCurrentRuns, ReadinessGivenUp,
     ReadinessWaits, ReadinessFits, Readiness!Started, Readiness!Done
<1>2. CASE UNCHANGED readinessVars
  BY <1>1, <1>2 DEF readinessVars, ReadinessIInv, Readiness!TypeOK
<1>3. CASE Readiness!Tick
  BY <1>1, <1>3 DEF Readiness!Tick, ReadinessIInv, Readiness!TypeOK
<1> QED
  BY <1>2, <1>3, ReadinessAskMoves, ReadinessAnswerMoves, ReadinessLeaveMoves,
     ReadinessGenerationMoves DEF Readiness!Next


\* The invariant of this service, whenever it is the one that acts.
LEMMA ReadinessInvariant == EvidenceSpec => [](verdict = "readiness" => ReadinessIInv)
<1>1. EvidenceInit => (verdict = "readiness" => ReadinessIInv)
  BY ReadinessInvariantInitially DEF EvidenceInit
<1>2. (verdict = "readiness" => ReadinessIInv) /\ [EvidenceNext]_verdictVars
        => (verdict = "readiness" => ReadinessIInv)'
  BY ReadinessInvariantKept DEF EvidenceNext, verdictVars
<1> QED
  BY <1>1, <1>2, PTL DEF EvidenceSpec

-----------------------------------------------------------------------------
(***************************************************************************)
(* What a process forecasts with the committed models (ModelServing).      *)
(***************************************************************************)

\* Where a request stands before it has captured what it will use.
ServingEarly == {"idle", "refresh", "recheck", "read", "load", "install", "capture"}

\* What was captured is what is served, unless the version has moved on.
ServingCaptured(h, x) ==
  \A d \in x.cap : /\ d[3] <= serving_version[h][d[1]]
                   /\ d[3] = serving_version[h][d[1]] => serving_served[h][d[1]] = d[2]

\* What a request has used is what it captured, unless the version has moved on.
ServingUsesCaptured(x) ==
  x.pc \in {"use", "verify"} =>
    /\ \A r \in x.used, d \in x.cap : d[3] = serving_version["api"][d[1]] => r = d[2]
    /\ \E d \in x.cap : d[1] = "thermal"
    /\ \A d \in x.cap : d[1] = "thermal"

\* A model that passed a forecast's check is of no earlier scope than its
\* context, and of no later one than now; an answer's is of its context.
ServingIsOfContext(x) ==
  x.kind = "forecast" /\ x.from = serving_None =>
    /\ x.pc = "answer" => \A ref \in x.used : ref # serving_None =>
         ref.scope \in Nat /\ x.ctx[2] <= ref.scope /\ ref.scope <= serving_generation
    /\ x.pc = "answered" => \A ref \in x.used : ref # serving_None => ref.scope = x.ctx[2]

ServingRequestIs(x) ==
  /\ x.pc \notin {"solve", "admit"}
  /\ x.pc \in ServingEarly => x.used = {} /\ x.from = serving_None
  /\ ServingUsesCaptured(x)
  /\ x.pc = "verify" => x.from # serving_None \/ x.used # {}
  /\ x.pc = "again" => x.from # serving_None
  /\ x.pc \in {"answer", "answered"} => x.sound
  /\ ServingIsOfContext(x)

\* What the planner has used is what it captured, unless a version has moved on.
ServingPlannerIs(x) ==
  /\ x.pc \notin {"use", "verify", "again", "answer"}
  /\ x.cap # {} => \A c \in Serving!Components : \E d \in x.cap : d[1] = c
  /\ x.pc = "admit" =>
       /\ \A d \in x.cap : d[3] = serving_version["optimizer"][d[1]]
            => <<d[1], d[2]>> \in x.used
       /\ \A u \in x.used : \E d \in x.cap :
            d[3] = serving_version["optimizer"][d[1]] => u = <<d[1], d[2]>>
  /\ x.pc = "answered" => x.sound

ServingTaskIs(t, x) == /\ ServingCaptured(Serving!Home(t), x) /\ x.ctx[2] <= serving_generation
                       /\ t \in serving_Requests => ServingRequestIs(x)
                       /\ t = serving_Planner => ServingPlannerIs(x)

ServingIInv == Serving!TypeOK /\ \A t \in Serving!Tasks : ServingTaskIs(t, serving_task[t])

\* A step replaces no model without another version.
ServingAdvances == /\ \A h \in Serving!Processes, c \in Serving!Components :
                        /\ serving_version[h][c] <= serving_version'[h][c]
                        /\ serving_version'[h][c] = serving_version[h][c]
                             => serving_served'[h][c] = serving_served[h][c]
                   /\ serving_served' \in [Serving!Processes -> [Serving!Components -> Serving!Known]]
                   /\ serving_version' \in [Serving!Processes -> [Serving!Components -> Nat]]

\* The invariant says that forecasts are current.
LEMMA ServingCurrentForecasts == ServingIInv => Serving!ForecastsAreCurrent
<1> SUFFICES ASSUME ServingIInv, NEW t \in Serving!Tasks, Serving!At(t, "answered")
             PROVE  /\ serving_task[t].sound
                    /\ t \in serving_Requests /\ serving_task[t].kind = "forecast"
                         /\ serving_task[t].from = serving_None =>
                         \A ref \in serving_task[t].used : ref # serving_None
                           => ref.scope = serving_task[t].ctx[2]
  BY DEF Serving!ForecastsAreCurrent
<1>1. serving_task[t].pc = "answered" /\ ServingTaskIs(t, serving_task[t])
  BY DEF Serving!At, ServingIInv
<1>2. CASE t \in serving_Requests
  BY <1>1, <1>2 DEF ServingTaskIs, ServingRequestIs, ServingIsOfContext
<1>3. CASE t = serving_Planner
  BY <1>1, <1>3, ServingAssumption DEF ServingTaskIs, ServingPlannerIs
<1> QED
  BY <1>2, <1>3 DEF Serving!Tasks

\* What holds of a task goes on to hold while others move.
LEMMA ServingTaskStays ==
  ASSUME Serving!TypeOK, ServingAdvances, serving_generation' \in Nat,
         serving_generation <= serving_generation',
         NEW t \in Serving!Tasks, NEW x \in Serving!Task, ServingTaskIs(t, x)
  PROVE  ServingTaskIs(t, x)'
<1>1. Serving!Home(t) \in Serving!Processes
  BY DEF Serving!Home, Serving!Processes
<1>2. \A d \in x.cap : d[1] \in Serving!Components /\ d[2] \in Serving!Known /\ d[3] \in Nat
  BY DEF Serving!Task
<1>3. "api" \in Serving!Processes /\ "optimizer" \in Serving!Processes
  BY DEF Serving!Processes
<1>4. \A h \in Serving!Processes, c \in Serving!Components : serving_version[h][c] \in Nat
        /\ serving_version'[h][c] \in Nat
  BY DEF Serving!TypeOK, ServingAdvances
<1>5. ServingCaptured(Serving!Home(t), x)'
  <2> SUFFICES ASSUME NEW d \in x.cap
               PROVE  /\ d[3] <= serving_version'[Serving!Home(t)][d[1]]
                      /\ d[3] = serving_version'[Serving!Home(t)][d[1]]
                           => serving_served'[Serving!Home(t)][d[1]] = d[2]
    BY DEF ServingCaptured, Serving!Home
  <2>1. PICK c \in Serving!Components : c = d[1]
    BY <1>2
  <2>2. PICK h \in Serving!Processes : h = Serving!Home(t)
    BY <1>1
  <2>3. d[3] \in Nat /\ d[3] <= serving_version[h][c]
          /\ (d[3] = serving_version[h][c] => serving_served[h][c] = d[2])
    BY <1>2, <2>1, <2>2 DEF ServingTaskIs, ServingCaptured
  <2>4. /\ serving_version[h][c] <= serving_version'[h][c]
        /\ serving_version'[h][c] = serving_version[h][c]
             => serving_served'[h][c] = serving_served[h][c]
    BY DEF ServingAdvances
  <2> QED
    BY <1>4, <2>1, <2>2, <2>3, <2>4
<1>6. x.ctx[2] <= serving_generation' /\ x.ctx[2] \in Nat
  BY DEF ServingTaskIs, Serving!Task, Serving!TypeOK
<1>7. \A d \in x.cap : d[3] = serving_version'[Serving!Home(t)][d[1]]
        => d[3] = serving_version[Serving!Home(t)][d[1]]
  <2> TAKE d \in x.cap
  <2>1. PICK c \in Serving!Components : c = d[1]
    BY <1>2
  <2>2. PICK h \in Serving!Processes : h = Serving!Home(t)
    BY <1>1
  <2>3. d[3] \in Nat /\ d[3] <= serving_version[h][c]
    BY <1>2, <2>1, <2>2 DEF ServingTaskIs, ServingCaptured
  <2>4. serving_version[h][c] <= serving_version'[h][c]
    BY DEF ServingAdvances
  <2> QED
    BY <1>4, <2>1, <2>2, <2>3, <2>4
<1>8. ASSUME t \in serving_Requests PROVE ServingRequestIs(x)'
  <2>1. Serving!Home(t) = "api" /\ ServingRequestIs(x)
    BY <1>8, ServingAssumption DEF Serving!Home, ServingTaskIs
  <2>2. ServingUsesCaptured(x)'
    BY <1>7, <2>1 DEF ServingRequestIs, ServingUsesCaptured
  <2>3. ServingIsOfContext(x)'
    BY <1>6, <2>1 DEF ServingRequestIs, ServingIsOfContext, Serving!TypeOK
  <2> QED
    BY <2>1, <2>2, <2>3 DEF ServingRequestIs
<1>9. ASSUME t = serving_Planner PROVE ServingPlannerIs(x)'
  <2>1. Serving!Home(t) = "optimizer" /\ ServingPlannerIs(x)
    BY <1>9 DEF Serving!Home, ServingTaskIs
  <2> QED
    BY <1>7, <2>1 DEF ServingPlannerIs
<1> QED
  BY <1>5, <1>6, <1>8, <1>9 DEF ServingTaskIs, Serving!Home

\* A step of one task.
LEMMA ServingTaskMoves ==
  ASSUME ServingIInv, ServingAdvances, NEW t \in Serving!Tasks, NEW x \in Serving!Task,
         serving_task' = [serving_task EXCEPT ![t] = x],
         UNCHANGED <<Serving!world>>, serving_turns' \in Nat,
         serving_lock' \in [Serving!Processes -> Serving!Tasks \cup {serving_None}],
         serving_plan' \in Serving!Plan \cup {serving_None}, ServingTaskIs(t, x)'
  PROVE  ServingIInv'
<1>1. Serving!TypeOK /\ serving_task \in [Serving!Tasks -> Serving!Task]
  BY DEF ServingIInv, Serving!TypeOK
<1>2. serving_task' \in [Serving!Tasks -> Serving!Task] /\ serving_task'[t] = x
        /\ \A u \in Serving!Tasks : u # t => serving_task'[u] = serving_task[u]
  BY <1>1
<1>3. serving_generation' = serving_generation /\ serving_generation \in Nat
        /\ serving_generation <= serving_generation'
  BY <1>1 DEF Serving!TypeOK, Serving!world
<1>4. Serving!TypeOK'
  BY <1>1, <1>2, <1>3 DEF Serving!TypeOK, ServingAdvances, Serving!world, Serving!Tasks
<1>5. ASSUME NEW u \in Serving!Tasks PROVE ServingTaskIs(u, serving_task[u])'
  <2>1. CASE u = t
    BY <1>2, <2>1 DEF ServingTaskIs, ServingCaptured, ServingRequestIs, ServingPlannerIs,
       ServingUsesCaptured, ServingIsOfContext, Serving!Home
  <2>2. CASE u # t
    <3>1. PICK y \in Serving!Task : y = serving_task[u]
      BY <1>1
    <3>2. ServingTaskIs(u, y)
      BY <3>1 DEF ServingIInv
    <3>3. ServingTaskIs(u, y)'
      BY <1>1, <1>3, <3>2, ServingTaskStays
    <3>4. serving_task'[u] = y
      BY <1>2, <2>2, <3>1
    <3> QED
      BY <3>3, <3>4 DEF ServingTaskIs, ServingCaptured, ServingRequestIs,
         ServingPlannerIs, ServingUsesCaptured, ServingIsOfContext, Serving!Home
  <2> QED
    BY <2>1, <2>2
<1> QED
  BY <1>4, <1>5 DEF ServingIInv, Serving!Tasks

\* At first nothing is served.
LEMMA ServingInvariantInitially == ASSUME Serving!Init PROVE ServingIInv
<1>1. Serving!Idle \in Serving!Task /\ Serving!Idle.pc = "idle" /\ Serving!Idle.cap = {}
        /\ Serving!Idle.used = {} /\ Serving!Idle.from = serving_None
        /\ Serving!Idle.ctx[2] = 0
  BY DEF Serving!Idle, Serving!Task, Serving!Known, Serving!Components
<1>2. Serving!TypeOK
  BY <1>1 DEF Serving!Init, Serving!TypeOK, Serving!Known
<1>3. ASSUME NEW t \in Serving!Tasks PROVE ServingTaskIs(t, serving_task[t])
  <2>1. serving_task[t] = Serving!Idle /\ serving_generation = 1
    BY DEF Serving!Init
  <2> QED
    BY <1>1, <2>1 DEF ServingTaskIs, ServingCaptured, ServingRequestIs, ServingPlannerIs,
       ServingUsesCaptured, ServingIsOfContext, ServingEarly
<1> QED
  BY <1>2, <1>3 DEF ServingIInv

\* What a process throws away or installs has another version.
LEMMA ServingServedMoves ==
  ASSUME Serving!TypeOK, NEW h \in Serving!Processes, NEW c \in Serving!Components
  PROVE  /\ UNCHANGED <<serving_served, serving_version>> => ServingAdvances
         /\ Serving!Reset(h, c) => ServingAdvances
         /\ \A ref \in Serving!Known : Serving!Install(h, c, ref) => ServingAdvances
<1>1. \A g \in Serving!Processes, d \in Serving!Components : serving_version[g][d] \in Nat
  BY DEF Serving!TypeOK
<1>2. serving_served \in [Serving!Processes -> [Serving!Components -> Serving!Known]]
        /\ serving_version \in [Serving!Processes -> [Serving!Components -> Nat]]
        /\ serving_None \in Serving!Known
  BY DEF Serving!TypeOK, Serving!Known
<1>3. ASSUME UNCHANGED <<serving_served, serving_version>> PROVE ServingAdvances
  BY <1>1, <1>2, <1>3 DEF ServingAdvances
<1>4. ASSUME NEW ref \in Serving!Known, serving_served' = [serving_served EXCEPT ![h][c] = ref],
             serving_version' = [serving_version EXCEPT ![h][c] = @ + 1]
      PROVE  ServingAdvances
  <2>1. serving_served' \in [Serving!Processes -> [Serving!Components -> Serving!Known]]
    BY <1>2, <1>4
  <2>2. PICK n \in Nat : n = serving_version[h][c] + 1
    BY <1>1
  <2>3. serving_version' = [serving_version EXCEPT ![h][c] = n]
    BY <1>4, <2>2
  <2>4. serving_version' \in [Serving!Processes -> [Serving!Components -> Nat]]
    BY <1>2, <2>3
  <2>5. ASSUME NEW g \in Serving!Processes, NEW d \in Serving!Components
        PROVE  /\ serving_version[g][d] <= serving_version'[g][d]
               /\ serving_version'[g][d] = serving_version[g][d]
                    => serving_served'[g][d] = serving_served[g][d]
    <3>1. CASE g = h /\ d = c
      BY <1>1, <1>2, <2>2, <2>3, <3>1
    <3>2. CASE ~(g = h /\ d = c)
      BY <1>1, <1>2, <1>4, <2>3, <3>2
    <3> QED
      BY <3>1, <3>2
  <2> QED
    BY <2>1, <2>4, <2>5 DEF ServingAdvances
<1>5. ASSUME Serving!Reset(h, c) PROVE ServingAdvances
  <2>1. CASE serving_served[h][c] = serving_None
    <3>1. serving_served' = serving_served
      BY <1>2, <1>5, <2>1 DEF Serving!Reset
    <3> QED
      BY <1>3, <1>5, <2>1, <3>1 DEF Serving!Reset
  <2>2. CASE serving_served[h][c] # serving_None
    BY <1>2, <1>4, <1>5, <2>2 DEF Serving!Reset
  <2> QED
    BY <2>1, <2>2
<1> QED
  BY <1>3, <1>4, <1>5 DEF Serving!Install


\* A step of one task that serves nothing else.
LEMMA ServingStillMoves ==
  ASSUME ServingIInv, NEW t \in Serving!Tasks, NEW x \in Serving!Task,
         serving_task' = [serving_task EXCEPT ![t] = x],
         UNCHANGED <<Serving!world, serving_served, serving_version>>, serving_turns' \in Nat,
         serving_lock' \in [Serving!Processes -> Serving!Tasks \cup {serving_None}],
         serving_plan' \in Serving!Plan \cup {serving_None}, ServingTaskIs(t, x)
  PROVE  ServingIInv'
<1>1. Serving!TypeOK
  BY DEF ServingIInv
<1>2. ServingAdvances
  BY <1>1, ServingServedMoves DEF Serving!Processes, Serving!Components
<1>3. serving_generation' = serving_generation /\ serving_generation \in Nat
        /\ serving_generation <= serving_generation'
  BY <1>1 DEF Serving!TypeOK, Serving!world
<1>4. ServingTaskIs(t, x)'
  BY <1>1, <1>2, <1>3, ServingTaskStays
<1> QED
  BY <1>2, <1>4, ServingTaskMoves

\* A task that gives up.
LEMMA ServingRefuseMoves ==
  ASSUME ServingIInv, NEW t \in Serving!Tasks, Serving!Refuse(t),
         UNCHANGED <<Serving!world, serving_served, serving_version, serving_turns,
                     serving_lock, serving_plan>>
  PROVE  ServingIInv'
<1>1. Serving!Idle \in Serving!Task /\ Serving!Idle.pc = "idle" /\ Serving!Idle.cap = {}
        /\ Serving!Idle.used = {} /\ Serving!Idle.from = serving_None
        /\ Serving!Idle.ctx[2] = 0
  BY DEF Serving!Idle, Serving!Task, Serving!Known, Serving!Components
<1>2. ServingTaskIs(t, Serving!Idle)
  BY <1>1 DEF ServingIInv, Serving!TypeOK, ServingTaskIs, ServingCaptured,
     ServingRequestIs, ServingPlannerIs, ServingUsesCaptured, ServingIsOfContext,
     ServingEarly
<1> QED
  BY <1>1, <1>2, ServingStillMoves DEF Serving!Refuse, ServingIInv, Serving!TypeOK

\* What a refresh does with its task.
LEMMA ServingRefreshingMoves ==
  ASSUME ServingIInv, ServingAdvances, NEW t \in Serving!Tasks,
         serving_task[t].pc \in {"refresh", "recheck", "read", "load", "install"},
         NEW p \in {"recheck", "read", "load", "install", "capture"}, NEW r \in Serving!Known,
         serving_task' = [serving_task EXCEPT ![t].pc = p, ![t].ref = r],
         UNCHANGED <<Serving!world, serving_turns, serving_plan>>,
         serving_lock' \in [Serving!Processes -> Serving!Tasks \cup {serving_None}]
  PROVE  ServingIInv'
<1>1. serving_task \in [Serving!Tasks -> Serving!Task] /\ serving_task[t] \in Serving!Task
        /\ ServingTaskIs(t, serving_task[t]) /\ Serving!TypeOK
        /\ serving_turns \in Nat /\ serving_plan \in Serving!Plan \cup {serving_None}
  BY DEF ServingIInv, Serving!TypeOK
<1>2. PICK x \in Serving!Task : x = [serving_task[t] EXCEPT !.pc = p, !.ref = r]
  BY <1>1 DEF Serving!Task
<1>3. serving_task' = [serving_task EXCEPT ![t] = x]
  BY <1>1, <1>2
<1>4. x.pc = p /\ x.cap = serving_task[t].cap /\ x.used = serving_task[t].used
        /\ x.from = serving_task[t].from
        /\ x.ctx = serving_task[t].ctx
  BY <1>1, <1>2 DEF Serving!Task
<1>5. ServingTaskIs(t, x)
  BY <1>1, <1>4 DEF ServingTaskIs, ServingCaptured, ServingRequestIs, ServingPlannerIs,
     ServingUsesCaptured, ServingIsOfContext, ServingEarly
<1>6. serving_generation' = serving_generation /\ serving_generation \in Nat
        /\ serving_generation <= serving_generation'
  BY <1>1 DEF Serving!TypeOK, Serving!world
<1>7. ServingTaskIs(t, x)'
  BY <1>1, <1>5, <1>6, ServingTaskStays
<1> QED
  BY <1>1, <1>3, <1>7, ServingTaskMoves

\* The steps of a refresh.
LEMMA ServingRefreshesMove ==
  ASSUME ServingIInv, NEW t \in Serving!Tasks,
         Serving!Refresh(t) \/ Serving!Recheck(t) \/ Serving!Read(t) \/ Serving!Load(t)
           \/ Serving!Serve(t) \/ Serving!Withdraw(t)
  PROVE  ServingIInv'
<1>1. serving_task \in [Serving!Tasks -> Serving!Task] /\ serving_task[t] \in Serving!Task
        /\ serving_task[t].ref \in Serving!Known
        /\ serving_task[t].at \in Serving!Components
        /\ serving_lock \in [Serving!Processes -> Serving!Tasks \cup {serving_None}]
             /\ Serving!TypeOK
        /\ \A c \in Serving!Components : serving_committed[c] \in Serving!Known
  BY DEF ServingIInv, Serving!TypeOK, Serving!Task
<1>2. Serving!Home(t) \in Serving!Processes /\ serving_None \in Serving!Known
        /\ "thermal" \in Serving!Components
  BY DEF Serving!Home, Serving!Processes, Serving!Known, Serving!Components
<1>3. PICK h \in Serving!Processes, c \in Serving!Components : h = Serving!Home(t)
        /\ c = serving_task[t].at
  BY <1>1, <1>2
<1>4. PICK r \in Serving!Known : r = serving_task[t].ref
  BY <1>1
<1>5. \A p : Serving!Move(t, p)
        => serving_task' = [serving_task EXCEPT ![t].pc = p, ![t].ref = r]
  BY <1>1, <1>4 DEF Serving!Move, Serving!Task
<1>6. UNCHANGED <<serving_served, serving_version>> => ServingAdvances
  BY <1>1, <1>3, ServingServedMoves
<1>7. [serving_lock EXCEPT ![h] = t] \in
        [Serving!Processes -> Serving!Tasks \cup {serving_None}]
        /\ [serving_lock EXCEPT ![h] = serving_None] \in
             [Serving!Processes -> Serving!Tasks \cup {serving_None}]
  BY <1>1
<1>8. Serving!Return(t) => /\ serving_lock' \in [Serving!Processes -> Serving!Tasks \cup {serving_None}]
                           /\ serving_task' = [serving_task EXCEPT ![t].pc = "capture",
                                               ![t].ref = serving_None]
  BY <1>1, <1>3, <1>7 DEF Serving!Return
<1>9. CASE Serving!Refresh(t)
  <2>1. PICK cached \in BOOLEAN :
          /\ Serving!At(t, "refresh")
          /\ serving_lock' = IF c = "thermal" THEN [serving_lock EXCEPT ![h] = t]
               ELSE serving_lock
          /\ Serving!Move(t, IF cached
                          /\ Serving!Qualified(serving_served[h][c]) THEN "recheck" ELSE "read")
          /\ IF cached /\ ~Serving!Qualified(serving_served[h][c]) THEN Serving!Reset(h, c)
             ELSE UNCHANGED <<serving_served, serving_version>>
          /\ UNCHANGED <<Serving!world, serving_turns, serving_plan>>
    BY <1>3, <1>9 DEF Serving!Refresh
  <2>2. PICK p \in {"recheck", "read"} : Serving!Move(t, p)
    BY <2>1
  <2>3. ServingAdvances
    BY <1>1, <1>6, <2>1, ServingServedMoves
  <2>4. serving_lock' \in [Serving!Processes -> Serving!Tasks \cup {serving_None}]
    BY <1>1, <1>7, <2>1
  <2> QED
    BY <1>5, <2>1, <2>2, <2>3, <2>4, ServingRefreshingMoves DEF Serving!At
<1>10. CASE Serving!Recheck(t)
  <2>1. CASE Serving!Current("thermal", serving_served[h]["thermal"])
    <3>1. serving_task' = [serving_task EXCEPT ![t].pc = "capture"]
            /\ serving_lock' = [serving_lock EXCEPT ![h] = serving_None]
      BY <1>3, <1>10, <2>1 DEF Serving!Recheck
    <3>2. serving_task' = [serving_task EXCEPT ![t].pc = "capture", ![t].ref = r]
      BY <1>1, <1>4, <3>1 DEF Serving!Task
    <3> QED
      BY <1>6, <1>7, <1>10, <3>1, <3>2, ServingRefreshingMoves DEF Serving!Recheck,
         Serving!At
  <2>2. CASE ~Serving!Current("thermal", serving_served[h]["thermal"])
    BY <1>1, <1>3, <1>5, <1>6, <1>10, <2>2, ServingRefreshingMoves DEF Serving!Recheck,
       Serving!At
  <2> QED
    BY <2>1, <2>2
<1>11. CASE Serving!Read(t)
  <2>1. PICK q \in Serving!Known : q = serving_committed[serving_task[t].at]
    BY <1>1
  <2>2. serving_task' = [serving_task EXCEPT ![t].pc = "load", ![t].ref = q]
    BY <1>11, <2>1 DEF Serving!Read
  <2> QED
    BY <1>1, <1>6, <1>11, <2>2, ServingRefreshingMoves DEF Serving!Read, Serving!At
<1>12. CASE Serving!Load(t)
  BY <1>1, <1>5, <1>6, <1>12, ServingRefreshingMoves DEF Serving!Load, Serving!At
<1>13. CASE Serving!Serve(t)
  <2>1. Serving!Install(h, c, r)
    BY <1>3, <1>4, <1>13 DEF Serving!Serve
  <2> QED
    BY <1>1, <1>2, <1>8, <1>13, <2>1, ServingServedMoves, ServingRefreshingMoves DEF
       Serving!Serve, Serving!At
<1>14. CASE Serving!Withdraw(t)
  <2>1. Serving!Reset(h, c)
    BY <1>3, <1>14 DEF Serving!Withdraw
  <2>2. serving_task[t].pc \in {"recheck", "read", "load", "install"}
    BY <1>14 DEF Serving!Withdraw, Serving!Refused, Serving!At
  <2> QED
    BY <1>1, <1>2, <1>8, <1>14, <2>1, <2>2, ServingServedMoves, ServingRefreshingMoves
       DEF Serving!Withdraw
<1> QED
  BY <1>9, <1>10, <1>11, <1>12, <1>13, <1>14


\* What a request was told was captured is what it used.
LEMMA ServingUsedIsOne ==
  ASSUME ServingIInv, NEW t \in serving_Requests, Serving!At(t, "verify"),
         serving_task[t].from = serving_None,
         Serving!StillServed("api", serving_task[t].cap)
  PROVE  /\ Serving!RestsOn(t)
         /\ \A ref \in serving_task[t].used : ref # serving_None
              => Serving!Current("thermal", ref)
<1>1. serving_task[t] \in Serving!Task /\ ServingTaskIs(t, serving_task[t]) /\ Serving!TypeOK
  BY DEF ServingIInv, Serving!TypeOK, Serving!Tasks
<1>2. ServingRequestIs(serving_task[t]) /\ ServingUsesCaptured(serving_task[t])
        /\ serving_task[t].pc = "verify"
  BY <1>1 DEF ServingTaskIs, ServingRequestIs, Serving!At
<1>3. PICK d \in serving_task[t].cap : d[1] = "thermal"
        /\ d \in Serving!Components \X Serving!Known \X Nat
  BY <1>1, <1>2 DEF ServingUsesCaptured, Serving!Task
<1>4. d[3] = serving_version["api"]["thermal"]
        /\ (d[2] # serving_None => Serving!Current("thermal", d[2]))
  BY <1>3 DEF Serving!StillServed, Serving!Unchanged
<1>5. \A r \in serving_task[t].used : r = d[2]
  BY <1>2, <1>3, <1>4 DEF ServingUsesCaptured
<1>6. serving_task[t].used # {}
  BY <1>2 DEF ServingRequestIs
<1>7. serving_task[t].used = {d[2]}
  BY <1>5, <1>6
<1>8. Serving!RestsOn(t)
  BY <1>4, <1>7 DEF Serving!RestsOn, Serving!Current
<1> QED
  BY <1>4, <1>5, <1>8

\* The steps of a request.
LEMMA ServingRequestsMove ==
  ASSUME ServingIInv, NEW t \in Serving!Tasks,
         \/ \E kind \in {"forecast", "curve"} : Serving!Begin(t, kind)
         \/ Serving!Capture(t) \/ Serving!Predict(t) \/ Serving!TakePlan(t)
              \/ Serving!Compute(t)
         \/ Serving!Verify(t) \/ Serving!VerifyPlan(t) \/ Serving!Answer(t) \/ Serving!Finish(t)
  PROVE  ServingIInv'
<1>1. serving_task \in [Serving!Tasks -> Serving!Task] /\ serving_task[t] \in Serving!Task
        /\ ServingTaskIs(t, serving_task[t]) /\ Serving!TypeOK
        /\ serving_turns \in Nat /\ serving_plan \in Serving!Plan \cup {serving_None}
             /\ serving_lock \in [Serving!Processes -> Serving!Tasks \cup {serving_None}]
        /\ serving_revision \in Nat /\ serving_generation \in Nat
  BY DEF ServingIInv, Serving!TypeOK
<1>2. PICK y \in Serving!Task : y = serving_task[t]
  BY <1>1
<1>3. serving_served["api"]["thermal"] \in Serving!Known
        /\ serving_version["api"]["thermal"] \in Nat
        /\ "thermal" \in Serving!Components
             /\ <<serving_revision, serving_generation>> \in Nat \X Nat
  BY <1>1 DEF Serving!TypeOK, Serving!Processes, Serving!Components
<1>4. t \in serving_Requests => Serving!Home(t) = "api" /\ ServingRequestIs(y)
  BY <1>1, <1>2, ServingAssumption DEF Serving!Home, ServingTaskIs
<1>5. t \notin serving_Requests => t = serving_Planner /\ ServingPlannerIs(y)
  BY <1>1, <1>2 DEF Serving!Tasks, ServingTaskIs
<1>6. t # serving_Planner <=> t \in serving_Requests
  BY ServingAssumption DEF Serving!Tasks
<1>7. ServingCaptured(Serving!Home(t), y) /\ y.ctx[2] <= serving_generation
  BY <1>1, <1>2 DEF ServingTaskIs
<1>9. ASSUME NEW kind \in {"forecast", "curve"}, Serving!Begin(t, kind) PROVE ServingIInv'
  <2>1. PICK x \in Serving!Task : x = [y EXCEPT !.pc = "refresh", !.kind = kind,
                                                !.ctx = <<serving_revision,
                                                          serving_generation>>]
    BY <1>3 DEF Serving!Task
  <2>2. serving_task' = [serving_task EXCEPT ![t] = x]
    BY <1>1, <1>2, <1>9, <2>1 DEF Serving!Begin
  <2>3. x.pc = "refresh" /\ x.cap = y.cap /\ x.used = y.used /\ x.from = y.from
          /\ x.ctx[2] = serving_generation
    BY <2>1 DEF Serving!Task
  <2>4. y.pc = "idle" /\ t \in serving_Requests /\ serving_turns' \in Nat
    BY <1>1, <1>2, <1>9 DEF Serving!Begin, Serving!At, Serving!Turn
  <2>5. ServingRequestIs(x)
    BY <1>4, <2>3, <2>4 DEF ServingRequestIs, ServingUsesCaptured, ServingIsOfContext,
       ServingEarly
  <2>6. ServingTaskIs(t, x)
    BY <1>1, <1>6, <1>7, <2>3, <2>4, <2>5 DEF ServingTaskIs, ServingCaptured
  <2> QED
    BY <1>1, <1>9, <2>2, <2>4, <2>6, ServingStillMoves DEF Serving!Begin
<1>10. CASE Serving!Capture(t)
  <2>0. <<"thermal", serving_served["api"]["thermal"], serving_version["api"]["thermal"]>> \in
          Serving!Components \X Serving!Known \X Nat
    BY <1>3
  <2>10. PICK q \in Nat \X Nat : q = IF y.kind = "curve"
           THEN <<serving_revision, serving_generation>> ELSE y.ctx
    BY <1>3 DEF Serving!Task
  <2>11. PICK k \in SUBSET (Serving!Components \X Serving!Known \X Nat) :
           k = {<<"thermal", serving_served["api"]["thermal"],
                  serving_version["api"]["thermal"]>>}
    BY <2>0
  <2>1. PICK x \in Serving!Task : x = [y EXCEPT !.pc = "use", !.cap = k, !.ctx = q]
    BY DEF Serving!Task
  <2>2. serving_task' = [serving_task EXCEPT ![t] = x]
    BY <1>1, <1>2, <1>10, <2>1, <2>10, <2>11 DEF Serving!Capture
  <2>3. x.pc = "use" /\ x.used = y.used /\ x.from = y.from /\ x.kind = y.kind
          /\ x.cap = {<<"thermal", serving_served["api"]["thermal"],
                        serving_version["api"]["thermal"]>>}
    BY <2>1, <2>11 DEF Serving!Task
  <2>4. x.ctx[2] <= serving_generation
    BY <1>1, <1>7, <2>1, <2>10 DEF Serving!Task
  <2>5. y.pc = "capture" /\ t \in serving_Requests
    BY <1>2, <1>10 DEF Serving!Capture, Serving!At
  <2>6. x.used = {}
    BY <1>4, <2>3, <2>5 DEF ServingRequestIs, ServingEarly
  <2>7. ServingRequestIs(x)
    BY <2>3, <2>6 DEF ServingRequestIs, ServingUsesCaptured, ServingIsOfContext,
       ServingEarly
  <2>8. ServingCaptured("api", x)
    BY <1>3, <2>3 DEF ServingCaptured
  <2>9. ServingTaskIs(t, x)
    BY <1>4, <1>6, <2>4, <2>5, <2>7, <2>8 DEF ServingTaskIs
  <2> QED
    BY <1>1, <1>10, <2>2, <2>9, ServingStillMoves DEF Serving!Capture
<1>11. CASE Serving!Predict(t)
  <2>1. PICK x \in Serving!Task :
          x = [y EXCEPT !.used = y.used \cup {serving_served["api"]["thermal"]}]
    BY <1>3 DEF Serving!Task
  <2>2. serving_task' = [serving_task EXCEPT ![t] = x]
    BY <1>1, <1>2, <1>11, <2>1 DEF Serving!Predict
  <2>3. x.pc = y.pc /\ x.cap = y.cap /\ x.ctx = y.ctx /\ x.kind = y.kind /\ x.from = y.from
          /\ x.used = y.used \cup {serving_served["api"]["thermal"]}
    BY <2>1 DEF Serving!Task
  <2>4. y.pc = "use" /\ t \in serving_Requests
    BY <1>2, <1>11 DEF Serving!Predict, Serving!At
  <2>5. \A d \in y.cap : d[1] = "thermal"
          /\ (d[3] = serving_version["api"][d[1]] => serving_served["api"][d[1]] = d[2])
    BY <1>4, <1>7, <2>4 DEF ServingRequestIs, ServingUsesCaptured, ServingCaptured
  <2>6. ServingUsesCaptured(x)
    BY <1>4, <2>3, <2>4, <2>5 DEF ServingRequestIs, ServingUsesCaptured
  <2>7. ServingRequestIs(x)
    BY <1>4, <2>3, <2>4, <2>6 DEF ServingRequestIs, ServingIsOfContext, ServingEarly
  <2>8. ServingTaskIs(t, x)
    BY <1>4, <1>6, <1>7, <2>3, <2>4, <2>7 DEF ServingTaskIs, ServingCaptured
  <2> QED
    BY <1>1, <1>11, <2>2, <2>8, ServingStillMoves DEF Serving!Predict
<1>12. CASE Serving!TakePlan(t)
  <2>1. PICK x \in Serving!Task : x = [y EXCEPT !.pc = "verify", !.from = serving_plan]
    BY <1>1 DEF Serving!Task
  <2>2. serving_task' = [serving_task EXCEPT ![t] = x]
    BY <1>1, <1>2, <1>12, <2>1 DEF Serving!TakePlan
  <2>3. x.pc = "verify" /\ x.cap = y.cap /\ x.ctx = y.ctx /\ x.used = y.used
          /\ x.from = serving_plan
    BY <2>1 DEF Serving!Task
  <2>4. y.pc = "use" /\ t \in serving_Requests /\ serving_plan # serving_None
    BY <1>2, <1>12 DEF Serving!TakePlan, Serving!At
  <2>5. ServingRequestIs(x)
    BY <1>4, <2>3, <2>4 DEF ServingRequestIs, ServingUsesCaptured, ServingIsOfContext,
       ServingEarly
  <2>6. ServingTaskIs(t, x)
    BY <1>4, <1>6, <1>7, <2>3, <2>4, <2>5 DEF ServingTaskIs, ServingCaptured
  <2> QED
    BY <1>1, <1>12, <2>2, <2>6, ServingStillMoves DEF Serving!TakePlan
<1>13. CASE Serving!Compute(t)
  <2>1. CASE Serving!Refuse(t)
    BY <1>13, <2>1, ServingRefuseMoves DEF Serving!Compute
  <2>2. CASE Serving!Move(t, "verify")
    <3>1. PICK x \in Serving!Task : x = [y EXCEPT !.pc = "verify"]
      BY DEF Serving!Task
    <3>2. serving_task' = [serving_task EXCEPT ![t] = x]
      BY <1>1, <1>2, <2>2, <3>1 DEF Serving!Move
    <3>3. x.pc = "verify" /\ x.cap = y.cap /\ x.ctx = y.ctx /\ x.used = y.used
            /\ x.from = y.from
      BY <3>1 DEF Serving!Task
    <3>4. y.pc = "use" /\ t \in serving_Requests /\ y.used # {}
      BY <1>2, <1>13 DEF Serving!Compute, Serving!At
    <3>5. ServingRequestIs(x)
      BY <1>4, <3>3, <3>4 DEF ServingRequestIs, ServingUsesCaptured, ServingIsOfContext,
         ServingEarly
    <3>6. ServingTaskIs(t, x)
      BY <1>4, <1>6, <1>7, <3>3, <3>4, <3>5 DEF ServingTaskIs, ServingCaptured
    <3> QED
      BY <1>1, <1>13, <3>2, <3>6, ServingStillMoves DEF Serving!Compute
  <2> QED
    BY <1>13, <2>1, <2>2 DEF Serving!Compute
<1>14. CASE Serving!Verify(t)
  <2>1. CASE Serving!Refuse(t)
    BY <1>14, <2>1, ServingRefuseMoves DEF Serving!Verify
  <2>2. CASE /\ Serving!StillServed("api", serving_task[t].cap)
             /\ serving_task' = [serving_task EXCEPT ![t].pc = IF serving_task[t].from =
                                   serving_None THEN "answer" ELSE "again",
                                                     ![t].sound = Serving!RestsOn(t)]
    <3>0. t \in serving_Requests /\ Serving!At(t, "verify") /\ Serving!RestsOn(t) \in BOOLEAN
      BY <1>14 DEF Serving!Verify, Serving!RestsOn
    <3>1. PICK b \in BOOLEAN : b = Serving!RestsOn(t)
      BY <3>0
    <3>2. PICK x \in Serving!Task :
            x = [y EXCEPT !.pc = IF y.from = serving_None THEN "answer" ELSE "again",
                          !.sound = b]
      BY DEF Serving!Task
    <3>3. serving_task' = [serving_task EXCEPT ![t] = x]
      BY <1>1, <1>2, <2>2, <3>1, <3>2
    <3>4. x.pc = (IF y.from = serving_None THEN "answer" ELSE "again") /\ x.sound = b
            /\ x.cap = y.cap /\ x.ctx = y.ctx /\ x.used = y.used /\ x.from = y.from
      BY <3>2 DEF Serving!Task
    <3>5. ServingRequestIs(x)
      <4>1. CASE y.from = serving_None
        <5>1. b /\ \A ref \in y.used : ref # serving_None => Serving!Current("thermal", ref)
          BY <1>2, <2>2, <3>0, <3>1, <4>1, ServingUsedIsOne
        <5>2. ServingIsOfContext(x)
          BY <1>1, <1>7, <3>4, <4>1, <5>1 DEF ServingIsOfContext, Serving!Current
        <5> QED
          BY <3>4, <4>1, <5>1, <5>2 DEF ServingRequestIs, ServingUsesCaptured, ServingEarly
      <4>2. CASE y.from # serving_None
        BY <3>4, <4>2 DEF ServingRequestIs, ServingUsesCaptured, ServingIsOfContext,
           ServingEarly
      <4> QED
        BY <4>1, <4>2
    <3>6. ServingTaskIs(t, x)
      BY <1>4, <1>6, <1>7, <3>0, <3>4, <3>5 DEF ServingTaskIs, ServingCaptured
    <3> QED
      BY <1>1, <1>14, <3>3, <3>6, ServingStillMoves DEF Serving!Verify
  <2> QED
    BY <1>14, <2>1, <2>2 DEF Serving!Verify
<1>15. CASE Serving!VerifyPlan(t)
  <2>0. y.pc = "again" /\ t \in serving_Requests
    BY <1>2, <1>5, <1>15 DEF Serving!VerifyPlan, Serving!At, ServingPlannerIs
  <2>1. CASE Serving!Refuse(t)
    BY <1>15, <2>1, ServingRefuseMoves DEF Serving!VerifyPlan
  <2>2. CASE /\ Serving!PlanIsCurrent(serving_task[t].from)
             /\ serving_task' = [serving_task EXCEPT ![t].pc = "answer",
                                                     ![t].sound = Serving!RestsOn(t)]
    <3>1. PICK b \in BOOLEAN : b = Serving!RestsOn(t)
      BY DEF Serving!RestsOn
    <3>2. PICK x \in Serving!Task : x = [y EXCEPT !.pc = "answer", !.sound = b]
      BY DEF Serving!Task
    <3>3. serving_task' = [serving_task EXCEPT ![t] = x]
      BY <1>1, <1>2, <2>2, <3>1, <3>2
    <3>4. x.pc = "answer" /\ x.sound = b
            /\ x.cap = y.cap /\ x.ctx = y.ctx /\ x.used = y.used /\ x.from = y.from
      BY <3>2 DEF Serving!Task
    <3>5. y.from # serving_None
      BY <1>4, <2>0 DEF ServingRequestIs
    <3>6. b
      BY <1>2, <2>2, <3>1, <3>5 DEF Serving!RestsOn, Serving!PlanIsCurrent
    <3>7. ServingRequestIs(x)
      BY <3>4, <3>5, <3>6 DEF ServingRequestIs, ServingUsesCaptured, ServingIsOfContext,
         ServingEarly
    <3>8. ServingTaskIs(t, x)
      BY <1>4, <1>6, <1>7, <2>0, <3>4, <3>7 DEF ServingTaskIs, ServingCaptured
    <3> QED
      BY <1>1, <1>15, <3>3, <3>8, ServingStillMoves DEF Serving!VerifyPlan
  <2> QED
    BY <1>15, <2>1, <2>2 DEF Serving!VerifyPlan
<1>16. CASE Serving!Answer(t)
  <2>0. y.pc = "answer" /\ t \in serving_Requests
    BY <1>2, <1>5, <1>16 DEF Serving!Answer, Serving!At, ServingPlannerIs
  <2>1. CASE Serving!Refuse(t)
    BY <1>16, <2>1, ServingRefuseMoves DEF Serving!Answer
  <2>2. CASE /\ y.kind = "curve" \/ y.ctx = <<serving_revision, serving_generation>>
             /\ serving_task' = [serving_task EXCEPT ![t].pc = "answered", ![t].cap = {}]
    <3>2. PICK x \in Serving!Task : x = [y EXCEPT !.pc = "answered", !.cap = {}]
      BY DEF Serving!Task
    <3>3. serving_task' = [serving_task EXCEPT ![t] = x]
      BY <1>1, <1>2, <2>2, <3>2
    <3>4. x.pc = "answered" /\ x.sound = y.sound /\ x.kind = y.kind
            /\ x.cap = {} /\ x.ctx = y.ctx /\ x.used = y.used /\ x.from = y.from
      BY <3>2 DEF Serving!Task
    <3>5. ServingIsOfContext(x)
      <4> SUFFICES ASSUME x.kind = "forecast", x.from = serving_None, NEW ref \in x.used,
                          ref # serving_None
                   PROVE  ref.scope = x.ctx[2]
        BY <3>4 DEF ServingIsOfContext
      <4>1. y.ctx[2] = serving_generation
        BY <2>2, <3>4
      <4>2. ref.scope \in Nat /\ y.ctx[2] <= ref.scope /\ ref.scope <= serving_generation
        BY <1>4, <2>0, <3>4 DEF ServingRequestIs, ServingIsOfContext
      <4> QED
        BY <1>1, <3>4, <4>1, <4>2
    <3>7. ServingRequestIs(x)
      BY <1>4, <2>0, <3>4, <3>5 DEF ServingRequestIs, ServingUsesCaptured, ServingEarly
    <3>8. ServingTaskIs(t, x)
      BY <1>4, <1>6, <1>7, <2>0, <3>4, <3>7 DEF ServingTaskIs, ServingCaptured
    <3> QED
      BY <1>1, <1>16, <3>3, <3>8, ServingStillMoves DEF Serving!Answer
  <2> QED
    BY <1>2, <1>16, <2>1, <2>2 DEF Serving!Answer, Serving!ContextHolds
<1>17. CASE Serving!Finish(t)
  BY <1>17, ServingRefuseMoves DEF Serving!Finish, Serving!Refuse
<1> QED
  BY <1>9, <1>10, <1>11, <1>12, <1>13, <1>14, <1>15, <1>16, <1>17

\* The steps of a planning cycle.
LEMMA ServingPlannerMoves ==
  ASSUME ServingIInv, Serving!Freeze \/ Serving!NextModel \/ Serving!CaptureContexts
           \/ Serving!Resolve \/ Serving!Solve \/ Serving!Admit
  PROVE  ServingIInv'
<1>0. serving_Planner \in Serving!Tasks /\ Serving!Home(serving_Planner) = "optimizer"
        /\ serving_Planner \notin serving_Requests
  BY ServingAssumption DEF Serving!Tasks, Serving!Home
<1>1. serving_task \in [Serving!Tasks -> Serving!Task]
        /\ serving_task[serving_Planner] \in Serving!Task
        /\ ServingTaskIs(serving_Planner, serving_task[serving_Planner]) /\ Serving!TypeOK
        /\ serving_turns \in Nat /\ serving_plan \in Serving!Plan \cup {serving_None}
             /\ serving_lock \in [Serving!Processes -> Serving!Tasks \cup {serving_None}]
        /\ serving_revision \in Nat /\ serving_generation \in Nat
  BY <1>0 DEF ServingIInv, Serving!TypeOK
<1>2. PICK y \in Serving!Task : y = serving_task[serving_Planner]
  BY <1>1
<1>3. /\ \A c \in Serving!Components : serving_served["optimizer"][c] \in Serving!Known
           /\ serving_version["optimizer"][c] \in Nat
      /\ <<serving_revision, serving_generation>> \in Nat \X Nat
           /\ "comfort" \in Serving!Components /\ "thermal" \in Serving!Components
  BY <1>1 DEF Serving!TypeOK, Serving!Processes, Serving!Components
<1>4. ServingPlannerIs(y) /\ ServingCaptured("optimizer", y) /\ y.ctx[2] <= serving_generation
  BY <1>0, <1>1, <1>2 DEF ServingTaskIs
<1>5. CASE Serving!Freeze
  <2>1. PICK x \in Serving!Task :
          x = [y EXCEPT !.pc = "refresh", !.at = "comfort",
                        !.ctx = <<serving_revision, serving_generation>>]
    BY <1>3 DEF Serving!Task
  <2>2. serving_task' = [serving_task EXCEPT ![serving_Planner] = x]
    BY <1>1, <1>2, <1>5, <2>1 DEF Serving!Freeze
  <2>3. x.pc = "refresh" /\ x.cap = y.cap /\ x.ctx[2] = serving_generation
    BY <2>1 DEF Serving!Task
  <2>4. serving_turns' \in Nat
    BY <1>1, <1>5 DEF Serving!Freeze, Serving!Turn
  <2>5. ServingTaskIs(serving_Planner, x)
    BY <1>0, <1>1, <1>4, <2>3 DEF ServingTaskIs, ServingPlannerIs, ServingCaptured
  <2> QED
    BY <1>0, <1>1, <1>5, <2>2, <2>4, <2>5, ServingStillMoves DEF Serving!Freeze
<1>6. CASE Serving!NextModel
  <2>1. PICK x \in Serving!Task : x = [y EXCEPT !.pc = "refresh", !.at = "thermal"]
    BY <1>3 DEF Serving!Task
  <2>2. serving_task' = [serving_task EXCEPT ![serving_Planner] = x]
    BY <1>1, <1>2, <1>6, <2>1 DEF Serving!NextModel
  <2>3. x.pc = "refresh" /\ x.cap = y.cap /\ x.ctx = y.ctx
    BY <2>1 DEF Serving!Task
  <2>5. ServingTaskIs(serving_Planner, x)
    BY <1>0, <1>4, <2>3 DEF ServingTaskIs, ServingPlannerIs, ServingCaptured
  <2> QED
    BY <1>0, <1>1, <1>6, <2>2, <2>5, ServingStillMoves DEF Serving!NextModel
<1>7. CASE Serving!CaptureContexts
  <2>1. CASE Serving!Refuse(serving_Planner)
    BY <1>0, <1>7, <2>1, ServingRefuseMoves DEF Serving!CaptureContexts
  <2>2. CASE serving_task' = [serving_task EXCEPT ![serving_Planner].pc = "solve",
                                ![serving_Planner].cap =
                                  {<<c, serving_served["optimizer"][c],
                                     serving_version["optimizer"][c]>>
                                                            : c \in Serving!Components}]
    <3>1. PICK k \in SUBSET (Serving!Components \X Serving!Known \X Nat) :
            k = {<<c, serving_served["optimizer"][c], serving_version["optimizer"][c]>> :
                   c \in Serving!Components}
      <4>1. {<<c, serving_served["optimizer"][c], serving_version["optimizer"][c]>> :
               c \in Serving!Components}
              \subseteq Serving!Components \X Serving!Known \X Nat
        BY <1>3
      <4> QED
        BY <4>1
    <3>2. PICK x \in Serving!Task : x = [y EXCEPT !.pc = "solve", !.cap = k]
      BY DEF Serving!Task
    <3>3. serving_task' = [serving_task EXCEPT ![serving_Planner] = x]
      BY <1>1, <1>2, <2>2, <3>1, <3>2
    <3>4. x.pc = "solve" /\ x.cap = k /\ x.ctx = y.ctx
      BY <3>2 DEF Serving!Task
    <3>5. ServingCaptured("optimizer", x)
      BY <1>3, <3>1, <3>4 DEF ServingCaptured
    <3>6. \A c \in Serving!Components : \E d \in x.cap : d[1] = c
      <4> TAKE c \in Serving!Components
      <4>1. <<c, serving_served["optimizer"][c], serving_version["optimizer"][c]>> \in x.cap
        BY <3>1, <3>4
      <4> QED
        BY <4>1
    <3>7. ServingTaskIs(serving_Planner, x)
      BY <1>0, <1>4, <3>4, <3>5, <3>6 DEF ServingTaskIs, ServingPlannerIs
    <3> QED
      BY <1>0, <1>1, <1>7, <3>3, <3>7, ServingStillMoves DEF Serving!CaptureContexts
  <2> QED
    BY <1>7, <2>1, <2>2 DEF Serving!CaptureContexts
<1>8. CASE Serving!Resolve
  <2>1. PICK x \in Serving!Task : x = [y EXCEPT !.pc = "refresh"]
    BY DEF Serving!Task
  <2>2. serving_task' = [serving_task EXCEPT ![serving_Planner] = x]
    BY <1>1, <1>2, <1>8, <2>1 DEF Serving!Resolve, Serving!Move
  <2>3. x.pc = "refresh" /\ x.cap = y.cap /\ x.ctx = y.ctx
    BY <2>1 DEF Serving!Task
  <2>5. ServingTaskIs(serving_Planner, x)
    BY <1>0, <1>4, <2>3 DEF ServingTaskIs, ServingPlannerIs, ServingCaptured
  <2> QED
    BY <1>0, <1>1, <1>8, <2>2, <2>5, ServingStillMoves DEF Serving!Resolve
<1>9. CASE Serving!Solve
  <2>1. PICK k \in SUBSET (Serving!Components \X Serving!Known) :
          k = {<<c, serving_served["optimizer"][c]>> : c \in Serving!Components}
    <3>1. {<<c, serving_served["optimizer"][c]>> :
             c \in Serving!Components} \subseteq Serving!Components \X Serving!Known
      BY <1>3
    <3> QED
      BY <3>1
  <2>2. PICK x \in Serving!Task : x = [y EXCEPT !.pc = "admit", !.used = k]
    BY DEF Serving!Task
  <2>3. serving_task' = [serving_task EXCEPT ![serving_Planner] = x]
    BY <1>1, <1>2, <1>9, <2>1, <2>2 DEF Serving!Solve
  <2>4. x.pc = "admit" /\ x.cap = y.cap /\ x.ctx = y.ctx /\ x.used = k
    BY <2>2 DEF Serving!Task
  <2>5. \A d \in y.cap : d[1] \in Serving!Components
    BY DEF Serving!Task
  <2>6. \A d \in y.cap : d[3] = serving_version["optimizer"][d[1]] => <<d[1], d[2]>> \in k
    <3> SUFFICES ASSUME NEW d \in y.cap, d[3] = serving_version["optimizer"][d[1]]
                 PROVE  <<d[1], d[2]>> \in k
      OBVIOUS
    <3>1. PICK c \in Serving!Components : c = d[1]
      BY <2>5
    <3>2. serving_served["optimizer"][c] = d[2]
      BY <1>4, <3>1 DEF ServingCaptured
    <3> QED
      BY <2>1, <3>1, <3>2
  <2>7. \A u \in k : \E d \in y.cap :
          d[3] = serving_version["optimizer"][d[1]] => u = <<d[1], d[2]>>
    <3> TAKE u \in k
    <3>1. PICK c \in Serving!Components : u = <<c, serving_served["optimizer"][c]>>
      BY <2>1
    <3>2. y.cap # {}
      BY <1>2, <1>9 DEF Serving!Solve
    <3>3. PICK d \in y.cap : d[1] = c
      BY <1>4, <3>2 DEF ServingPlannerIs
    <3>4. d[3] = serving_version["optimizer"][d[1]] => serving_served["optimizer"][c] = d[2]
      BY <1>4, <3>3 DEF ServingCaptured
    <3> QED
      BY <3>1, <3>3, <3>4
  <2>8. ServingPlannerIs(x)
    BY <1>4, <2>4, <2>6, <2>7 DEF ServingPlannerIs
  <2>9. ServingTaskIs(serving_Planner, x)
    BY <1>0, <1>4, <2>4, <2>8 DEF ServingTaskIs, ServingCaptured
  <2> QED
    BY <1>0, <1>1, <1>9, <2>3, <2>9, ServingStillMoves DEF Serving!Solve
<1>10. CASE Serving!Admit
  <2>0. y.pc = "admit"
    BY <1>2, <1>10 DEF Serving!Admit, Serving!At
  <2>1. CASE Serving!Refuse(serving_Planner) /\ UNCHANGED serving_plan
    BY <1>0, <1>10, <2>1, ServingRefuseMoves DEF Serving!Admit
  <2>2. CASE /\ Serving!StillServed("optimizer", y.cap)
             /\ serving_plan' = [ctx |-> y.ctx, with |-> {<<d[1], d[2]>> : d \in y.cap}]
             /\ serving_task' = [serving_task EXCEPT ![serving_Planner].pc = "answered",
                                   ![serving_Planner].sound = /\ y.used = serving_plan'.with
                                                              /\ \A d \in y.used : d[2] # serving_None => Serving!Current(d[1], d[2]),
                                   ![serving_Planner].cap = {}]
    <3>0. \A d \in y.cap : <<d[1], d[2]>> \in Serving!Components \X Serving!Known
      BY DEF Serving!Task
    <3>1. PICK k \in SUBSET (Serving!Components \X Serving!Known) :
            k = {<<d[1], d[2]>> : d \in y.cap}
      <4>1. {<<d[1], d[2]>> : d \in y.cap} \subseteq Serving!Components \X Serving!Known
        BY ONLY <3>0
      <4> QED
        BY <4>1
    <3>2. serving_plan' = [ctx |-> y.ctx, with |-> k] /\ serving_plan'.with = k
            /\ serving_plan' \in Serving!Plan
      BY <2>2, <3>1 DEF Serving!Plan, Serving!Task
    <3>3. \A d \in y.cap : d[3] = serving_version["optimizer"][d[1]]
            /\ (d[2] # serving_None => Serving!Current(d[1], d[2]))
      BY <2>2 DEF Serving!StillServed, Serving!Unchanged
    <3>4. y.used = k
      <4>1. \A u \in y.used : u \in k
        BY <1>4, <2>0, <3>1, <3>3 DEF ServingPlannerIs
      <4>2. \A u \in k : u \in y.used
        BY <1>4, <2>0, <3>1, <3>3 DEF ServingPlannerIs
      <4> QED
        BY <4>1, <4>2
    <3>5. \A u \in k : u[2] # serving_None => Serving!Current(u[1], u[2])
      BY <3>1, <3>3
    <3>6. PICK x \in Serving!Task : x = [y EXCEPT !.pc = "answered", !.sound = TRUE, !.cap = {}]
      BY DEF Serving!Task
    <3>7. (/\ y.used = serving_plan'.with
           /\ \A d \in y.used : d[2] # serving_None => Serving!Current(d[1], d[2])) = TRUE
      BY <3>2, <3>4, <3>5
    <3>8. serving_task' = [serving_task EXCEPT ![serving_Planner].pc = "answered",
                                               ![serving_Planner].sound = TRUE,
                                               ![serving_Planner].cap = {}]
      BY <2>2, <3>7
    <3>9. serving_task' = [serving_task EXCEPT ![serving_Planner] = x]
      BY <1>1, <1>2, <3>6, <3>8
    <3>10. x.pc = "answered" /\ x.cap = {} /\ x.ctx = y.ctx /\ x.sound
      BY <3>6 DEF Serving!Task
    <3>11. ServingTaskIs(serving_Planner, x)
      BY <1>0, <1>4, <3>10 DEF ServingTaskIs, ServingPlannerIs, ServingCaptured
    <3> QED
      BY <1>0, <1>1, <1>10, <3>2, <3>9, <3>11, ServingStillMoves DEF Serving!Admit
  <2> QED
    BY <1>2, <1>10, <2>1, <2>2 DEF Serving!Admit
<1> QED
  BY <1>5, <1>6, <1>7, <1>8, <1>9, <1>10

\* The lifecycle, the owner and the clock leave every task as it is.
LEMMA ServingEventMoves ==
  ASSUME ServingIInv, NEW c \in Serving!Components, Serving!Event(c)
  PROVE  ServingIInv'
<1>1. Serving!TypeOK
  BY DEF ServingIInv
<1>2. ServingAdvances
  BY <1>1, ServingServedMoves DEF Serving!Event, Serving!Processes
<1>3. serving_turns \in Nat /\ serving_turns' = serving_turns + 1 /\ serving_turns + 2 \in Nat
        /\ serving_turns + 1 \in Nat
  BY <1>1 DEF Serving!TypeOK, Serving!Event, Serving!Turn
<1>4. serving_generation \in Nat /\ serving_revision \in Nat
        /\ serving_committed \in [Serving!Components -> Serving!Known]
        /\ serving_lapsed \subseteq Nat
  BY <1>1 DEF Serving!TypeOK
<1>5. serving_generation' \in Nat /\ serving_revision' \in Nat
        /\ serving_generation <= serving_generation'
  BY <1>4 DEF Serving!Event
<1>6. Serving!Reference(serving_turns + 2) \in Serving!Known
  BY <1>3, <1>4 DEF Serving!Reference, Serving!Known
<1>7. serving_committed' \in [Serving!Components -> Serving!Known]
  BY <1>4, <1>6 DEF Serving!Event, Serving!Known
<1>8. serving_lapsed' \subseteq Nat
  <2>1. CASE Serving!Qualified(serving_committed[c])
               /\ serving_lapsed' = serving_lapsed \cup {serving_committed[c].id}
    <3>1. serving_committed[c].id \in Nat
      BY <1>4, <2>1 DEF Serving!Qualified, Serving!Known
    <3> QED
      BY <1>4, <2>1, <3>1
  <2> QED
    BY <1>4, <2>1 DEF Serving!Event
<1>9. Serving!TypeOK'
  BY <1>1, <1>3, <1>5, <1>7, <1>8 DEF Serving!Event, Serving!TypeOK, Serving!Tasks
<1>10. ASSUME NEW t \in Serving!Tasks PROVE ServingTaskIs(t, serving_task[t])'
  <2>1. PICK y \in Serving!Task : y = serving_task[t] /\ ServingTaskIs(t, y)
    BY DEF ServingIInv, Serving!TypeOK
  <2>2. ServingTaskIs(t, y)'
    BY <1>1, <1>2, <1>5, <2>1, ServingTaskStays
  <2>3. serving_task'[t] = y
    BY <2>1 DEF Serving!Event
  <2> QED
    BY <2>2, <2>3 DEF ServingTaskIs, ServingCaptured, ServingRequestIs, ServingPlannerIs,
       ServingUsesCaptured, ServingIsOfContext, Serving!Home
<1> QED
  BY <1>9, <1>10 DEF ServingIInv, Serving!Tasks

\* Every step keeps the invariant.
LEMMA ServingInvariantKept == ServingIInv /\ [Serving!Next]_servingVars => ServingIInv'
<1> SUFFICES ASSUME ServingIInv, [Serving!Next]_servingVars PROVE ServingIInv'
  OBVIOUS
<1>1. CASE UNCHANGED servingVars
  BY <1>1 DEF servingVars, ServingIInv, Serving!TypeOK, Serving!Tasks, Serving!Processes,
     ServingTaskIs, ServingCaptured, ServingRequestIs, ServingPlannerIs,
     ServingUsesCaptured,
     ServingIsOfContext, Serving!Home
<1>2. CASE Serving!Next
  BY <1>2, ServingRefreshesMove, ServingRequestsMove, ServingPlannerMoves,
     ServingEventMoves DEF Serving!Next
<1> QED
  BY <1>1, <1>2


\* The invariant of this service, whenever it is the one that acts.
LEMMA ServingInvariant == EvidenceSpec => [](verdict = "serving" => ServingIInv)
<1>1. EvidenceInit => (verdict = "serving" => ServingIInv)
  BY ServingInvariantInitially DEF EvidenceInit
<1>2. (verdict = "serving" => ServingIInv) /\ [EvidenceNext]_verdictVars
        => (verdict = "serving" => ServingIInv)'
  BY ServingInvariantKept DEF EvidenceNext, verdictVars
<1> QED
  BY <1>1, <1>2, PTL DEF EvidenceSpec

-----------------------------------------------------------------------------
(***************************************************************************)
(* The ledger of COP readings and its projection (ManualCop).              *)
(***************************************************************************)


\* The module's cardinality is the one of finite sets.
LEMMA CopCardinalityIs == \A S : Cop!Cardinality(S) = Cardinality(S)
  BY DEF Cop!Cardinality, Cardinality

\* A number is what its quotient and remainder make it.
LEMMA CopQuotient ==
  ASSUME NEW a \in Int, NEW b \in Nat \ {0}
  PROVE  /\ a \div b \in Int /\ a % b \in Int
         /\ 0 <= a % b /\ a % b < b
         /\ a = b * (a \div b) + (a % b)
  BY Z3

\* A set of numbers that is not empty has a least one.
LEMMA CopMinIs ==
  ASSUME NEW S, S \subseteq Nat, S # {}
  PROVE  Cop!Min(S) \in S /\ \A y \in S : Cop!Min(S) <= y
<1>1. PICK x \in S : \A y \in S : ~(<<y, x>> \in OpToRel(<, Nat))
  BY NatLessThanWellFounded, WFMin
<1>2. \A y \in S : ~(y < x)
  BY <1>1 DEF OpToRel
<1>3. \E k \in S : \A l \in S : k <= l
  BY <1>2
<1> QED
  BY <1>3 DEF Cop!Min

\* A finite set of numbers that is not empty has a greatest one.
LEMMA CopMaxIs ==
  ASSUME NEW S, S \subseteq Nat, S # {}, IsFiniteSet(S)
  PROVE  Cop!Max(S) \in S /\ \A y \in S : Cop!Max(S) >= y
<1> DEFINE Above(x) == {y \in S : y > x}
           T == {Cardinality(Above(x)) : x \in S}
<1>1. \A x : IsFiniteSet(Above(x)) /\ Cardinality(Above(x)) \in Nat
  <2>1. \A x : Above(x) \in SUBSET S
    OBVIOUS
  <2> QED
    BY <2>1, FS_Subset, FS_CardinalityType
<1>2. Cop!Min(T) \in T /\ \A y \in T : Cop!Min(T) <= y
  <2>1. T \subseteq Nat /\ T # {}
    BY <1>1
  <2> HIDE DEF T
  <2> QED
    BY <2>1, CopMinIs
<1>3. PICK x \in S : Cop!Min(T) = Cardinality(Above(x))
  BY <1>2
<1>4. Above(x) = {}
  <2> SUFFICES ASSUME NEW y \in Above(x)
               PROVE  FALSE
    OBVIOUS
  <2>1. Above(y) \in SUBSET Above(x) /\ Above(y) # Above(x)
    <3>1. x \in Nat /\ y \in Nat /\ y > x /\ y \in S /\ ~(y > y)
      OBVIOUS
    <3>2. \A z \in S : z > y => z > x
      BY <3>1
    <3>3. y \notin Above(y)
      BY <3>1
    <3> QED
      BY <3>2, <3>3
  <2>2. Cardinality(Above(y)) <= Cardinality(Above(x))
          /\ Cardinality(Above(y)) # Cardinality(Above(x))
    <3> HIDE DEF Above
    <3> QED
      BY <1>1, <2>1, FS_Subset
  <2>3. Cardinality(Above(y)) \in T
    OBVIOUS
  <2>4. Cardinality(Above(x)) <= Cardinality(Above(y))
    BY <1>2, <1>3, <2>3
  <2> HIDE DEF Above
  <2> QED
    BY <1>1, <2>2, <2>4
<1>5. \A y \in S : x >= y
  BY <1>4
<1>6. \E k \in S : \A y \in S : k >= y
  BY <1>5
<1> QED
  BY <1>6 DEF Cop!Max

\* The greatest of a set is known by being in it.
LEMMA CopMaxOf ==
  ASSUME NEW S, S \subseteq Nat, NEW m \in S, \A y \in S : y <= m
  PROVE  Cop!Max(S) = m
<1>1. \E k \in S : \A y \in S : k >= y
  BY DEF Cop!Max
<1>2. Cop!Max(S) \in S /\ \A y \in S : Cop!Max(S) >= y
  BY <1>1 DEF Cop!Max
<1>3. Cop!Max(S) >= m /\ Cop!Max(S) <= m /\ Cop!Max(S) \in Nat /\ m \in Nat
  BY <1>2
<1> QED
  BY <1>3

\* Sets of dates are finite sets of numbers.
LEMMA CopDatesAre ==
  ASSUME NEW S, S \subseteq cop_Dates
  PROVE  /\ S \subseteq Nat /\ IsFiniteSet(S) /\ Cardinality(S) \in Nat
         /\ S # {} => Cop!Max(S) \in S /\ \A y \in S : Cop!Max(S) >= y
<1>1. S \subseteq Nat /\ IsFiniteSet(S)
  BY CopAssumption, FS_Subset
<1>2. Cardinality(S) \in Nat
  BY <1>1, FS_CardinalityType
<1> QED
  BY <1>1, <1>2, CopMaxIs

\* A row is available from the last of its times.
LEMMA CopAvailableIs ==
  ASSUME NEW row \in Cop!Row
  PROVE  /\ Cop!AvailableAt(row) \in Nat
         /\ row.observed <= Cop!AvailableAt(row) /\ row.created <= Cop!AvailableAt(row)
         /\ row.updated <= Cop!AvailableAt(row)
<1> DEFINE S == {row.observed, row.created, row.updated}
<1>1. S \subseteq Nat /\ S # {} /\ IsFiniteSet(S)
  <2>1. S \subseteq Nat /\ S # {}
    BY DEF Cop!Row
  <2>2. S = {row.observed} \cup {row.created} \cup {row.updated}
    OBVIOUS
  <2>3. IsFiniteSet({row.observed} \cup {row.created} \cup {row.updated})
    BY FS_Singleton, FS_Union
  <2> QED
    BY <2>1, <2>2, <2>3
<1>2. Cop!Max(S) \in S /\ \A y \in S : Cop!Max(S) >= y
  <2> HIDE DEF S
  <2> QED
    BY <1>1, CopMaxIs
<1>3. Cop!AvailableAt(row) = Cop!Max(S)
  BY DEF Cop!AvailableAt
<1>4. row.observed \in S /\ row.created \in S /\ row.updated \in S
  OBVIOUS
<1> HIDE DEF S
<1> QED
  BY <1>1, <1>2, <1>3, <1>4

\* A ledger.
CopLedger(l) == l \in [cop_Dates -> Cop!Row \cup {cop_None}]

\* What stands in the ledger is a row.
LEMMA CopStandingIs ==
  ASSUME NEW l, CopLedger(l), NEW d \in Cop!Rows(l)
  PROVE  d \in cop_Dates /\ l[d] \in Cop!Row
  BY DEF Cop!Rows, CopLedger

\* The newest row that is known is what the request and its projection start from.
LEMMA CopLatestIsBoth ==
  ASSUME NEW l, CopLedger(l), NEW at \in Int, Cop!Known(l, at) # {}
  PROVE  /\ Cop!Available(l, Cop!Rows(l), at) = Cop!Known(l, at)
         /\ Cop!LatestOf(l, at) = {Cop!Max(Cop!Known(l, at))}
         /\ Cop!Max(Cop!Known(l, at)) \in Cop!Known(l, at)
         /\ Cop!Available(l, Cop!Queried(l, at), at) \subseteq Cop!Known(l, at)
         /\ Cop!Max(Cop!Known(l, at)) \in Cop!Available(l, Cop!Queried(l, at), at)
         /\ Cop!Max(Cop!Available(l, Cop!Queried(l, at), at)) = Cop!Max(Cop!Known(l, at))
<1> DEFINE m == Cop!Max(Cop!Known(l, at))
<1>1. Cop!Known(l, at) \subseteq cop_Dates /\ Cop!Known(l, at) \subseteq Nat
  BY CopAssumption DEF Cop!Known, Cop!Rows
<1>2. m \in Cop!Known(l, at) /\ \A y \in Cop!Known(l, at) : m >= y
  BY <1>1, CopDatesAre
<1>3. Cop!LatestOf(l, at) = {m}
  BY DEF Cop!LatestOf, Cop!Newest
<1>4. Cop!Available(l, Cop!Rows(l), at) = Cop!Known(l, at)
  BY DEF Cop!Available, Cop!Known
<1>5. Cop!LatestClosed(l, l[m].zone, Cop!Today(l[m].zone, at), at) \subseteq Cop!Rows(l)
  <2> DEFINE C == {d \in Cop!Known(l, at) : l[d].closed /\ l[d].zone = l[m].zone
                                             /\ d < Cop!Today(l[m].zone, at)}
  <2>1. C \subseteq cop_Dates /\ C \subseteq Cop!Rows(l)
    BY DEF Cop!Known, Cop!Rows
  <2>2. Cop!LatestClosed(l, l[m].zone, Cop!Today(l[m].zone, at), at) = Cop!Newest(C)
    BY DEF Cop!LatestClosed
  <2> HIDE DEF C
  <2>3. Cop!Newest(C) \subseteq C
    BY <2>1, CopDatesAre DEF Cop!Newest
  <2> QED
    BY <2>1, <2>2, <2>3
<1>6. Cop!Queried(l, at) \subseteq Cop!Rows(l) /\ m \in Cop!Queried(l, at)
  <2>1. Cop!Queried(l, at) =
          {m} \cup {d \in Cop!Rows(l) : Cop!Today(l[m].zone, at) - cop_Window <= d
                    /\ d < Cop!Today(l[m].zone, at)}
              \cup Cop!LatestClosed(l, l[m].zone, Cop!Today(l[m].zone, at), at)
    BY <1>3 DEF Cop!Queried
  <2> QED
    BY <1>2, <1>5, <2>1 DEF Cop!Known
<1>7. Cop!Available(l, Cop!Queried(l, at), at) \subseteq Cop!Known(l, at)
        /\ m \in Cop!Available(l, Cop!Queried(l, at), at)
  BY <1>2, <1>6 DEF Cop!Available, Cop!Known
<1>8. Cop!Max(Cop!Available(l, Cop!Queried(l, at), at)) = m
  <2>1. \A y \in Cop!Available(l, Cop!Queried(l, at), at) : y <= m
    BY <1>1, <1>2, <1>7
  <2> QED
    BY <1>1, <1>7, <2>1, CopMaxOf
<1> QED
  BY <1>2, <1>3, <1>4, <1>7, <1>8

\* What is queried when a row is known.
LEMMA CopQueriedIs ==
  ASSUME NEW l, CopLedger(l), NEW at \in Int, Cop!Known(l, at) # {},
         NEW m, m = Cop!Max(Cop!Known(l, at)), NEW zone, zone = l[m].zone
  PROVE  Cop!Queried(l, at) =
          {m} \cup {d \in Cop!Rows(l) : Cop!Today(zone, at) - cop_Window <= d
                    /\ d < Cop!Today(zone, at)}
              \cup Cop!LatestClosed(l, zone, Cop!Today(zone, at), at)
<1>1. Cop!LatestOf(l, at) = {m}
  BY CopLatestIsBoth
<1> QED
  BY <1>1 DEF Cop!Queried

\* Days and times are numbers.
LEMMA CopTodayIs ==
  ASSUME NEW z \in cop_Zones, NEW at \in Nat
  PROVE  /\ Cop!Today(z, at) \in Int
         /\ at - cop_Day * Cop!Today(z, at) >= 0 /\ at - cop_Day * Cop!Today(z, at) \in Int
<1>1. z \in Nat /\ cop_Day \in Nat \ {0}
  BY CopAssumption
<1>2. at - z \in Int
  BY <1>1
<1>3. /\ (at - z) \div cop_Day \in Int /\ (at - z) % cop_Day \in Int /\ 0 <= (at - z) % cop_Day
      /\ at - z = cop_Day * ((at - z) \div cop_Day) + ((at - z) % cop_Day)
  BY <1>1, <1>2, CopQuotient
<1>4. cop_Day * Cop!Today(z, at) \in Int
  BY <1>1, <1>3 DEF Cop!Today
<1>5. at - z = cop_Day * Cop!Today(z, at) + ((at - z) % cop_Day)
  BY <1>3 DEF Cop!Today
<1> QED
  BY <1>1, <1>3, <1>4, <1>5 DEF Cop!Today

\* Days that are over, of what is known.
CopPassed(l, at, zone) ==
  {d \in Cop!Known(l, at) : l[d].closed /\ l[d].zone = zone /\ d < Cop!Today(zone, at)}

\* The newest day that is over is in what is queried, if it is sound there.
LEMMA CopOverIsBoth ==
  ASSUME NEW l, CopLedger(l), NEW at \in Nat, Cop!Known(l, at) # {},
         NEW zone, zone = l[Cop!Max(Cop!Known(l, at))].zone,
         \A d \in Cop!Queried(l, at) : Cop!Sound(d, l[d])
  PROVE  /\ Cop!Over(l, Cop!Queried(l, at), at, zone) \subseteq Cop!Over(l, Cop!Rows(l), at,
                                                            zone)
         /\ Cop!Over(l, Cop!Rows(l), at, zone) # {} =>
              /\ Cop!Over(l, Cop!Queried(l, at), at, zone) # {}
              /\ Cop!Max(Cop!Over(l, Cop!Queried(l, at), at, zone)) =
                   Cop!Max(Cop!Over(l, Cop!Rows(l), at, zone))
<1> DEFINE P == CopPassed(l, at, zone)
           Q == Cop!Over(l, Cop!Queried(l, at), at, zone)
           A == Cop!Over(l, Cop!Rows(l), at, zone)
           m == Cop!Max(P)
<1>1. Cop!Available(l, Cop!Rows(l), at) = Cop!Known(l, at)
        /\ Cop!Available(l, Cop!Queried(l, at), at) \subseteq Cop!Known(l, at)
  BY CopLatestIsBoth
<1>2. Q \subseteq A
  BY <1>1 DEF Cop!Over
<1>3. A \subseteq P /\ P \subseteq Cop!Known(l, at)
  BY <1>1 DEF Cop!Over, CopPassed
<1>4. P \subseteq cop_Dates /\ P \subseteq Nat
  BY <1>3, CopAssumption DEF Cop!Known, Cop!Rows
<1>5. ASSUME A # {}
      PROVE  Q # {} /\ Cop!Max(Q) = Cop!Max(A)
  <2>1. m \in P /\ \A y \in P : m >= y
    BY <1>3, <1>4, <1>5, CopDatesAre
  <2>2. Cop!LatestClosed(l, zone, Cop!Today(zone, at), at) = {m}
    <3>1. Cop!LatestClosed(l, zone, Cop!Today(zone, at), at) = Cop!Newest(P)
      BY DEF Cop!LatestClosed, CopPassed
    <3>2. P # {}
      BY <2>1
    <3> QED
      BY <3>1, <3>2 DEF Cop!Newest
  <2>3. m \in Cop!Queried(l, at)
    BY <2>2, CopQueriedIs
  <2>4. m \in Cop!Known(l, at) /\ l[m].closed /\ l[m].zone = zone /\ m < Cop!Today(zone, at)
    BY <2>1 DEF CopPassed
  <2>5. Cop!End(zone, m) <= l[m].observed
    BY <2>3, <2>4 DEF Cop!Sound
  <2>6. Cop!End(zone, m) \in Int /\ l[m].observed \in Int
    <3>1. m \in Nat /\ l[m] \in Cop!Row /\ cop_Day \in Nat
      BY <1>4, <2>1, <2>4, CopAssumption, CopStandingIs DEF Cop!Known
    <3>2. zone \in Nat
      BY <2>4, <3>1, CopAssumption DEF Cop!Row
    <3> QED
      BY <3>1, <3>2 DEF Cop!End, Cop!Start, Cop!Row
  <2>7. l[m].observed >= Cop!End(zone, m)
    BY <2>5, <2>6
  <2>8. m \in Cop!Available(l, Cop!Queried(l, at), at)
    BY <2>3, <2>4 DEF Cop!Available, Cop!Known
  <2>9. m \in Q
    BY <2>4, <2>7, <2>8 DEF Cop!Over
  <2>10. m \in A /\ \A y \in A : y <= m
    BY <1>2, <1>3, <1>4, <2>1, <2>9
  <2>11. Cop!Max(A) = m
    BY <1>3, <1>4, <2>10, CopMaxOf
  <2>12. Cop!Max(Q) = m
    BY <1>2, <1>3, <1>4, <2>9, <2>10, CopMaxOf
  <2> QED
    BY <2>9, <2>11, <2>12
<1> QED
  BY <1>2, <1>5

\* So is what the projection is trained on.
LEMMA CopTrainingIsBoth ==
  ASSUME NEW l, CopLedger(l), NEW at \in Nat, Cop!Known(l, at) # {}
  PROVE  Cop!Training(l, Cop!Queried(l, at), at) = Cop!Training(l, Cop!Rows(l), at)
<1> DEFINE m == Cop!Max(Cop!Known(l, at))
           zone == l[m].zone
           Tried(ds) == {d \in Cop!Over(l, ds, at, zone) :
                           Cop!Today(zone, at) - cop_Window <= d}
<1>1. /\ Cop!Available(l, Cop!Rows(l), at) = Cop!Known(l, at)
      /\ Cop!Available(l, Cop!Queried(l, at), at) \subseteq Cop!Known(l, at)
      /\ m \in Cop!Available(l, Cop!Queried(l, at), at)
      /\ Cop!Max(Cop!Available(l, Cop!Queried(l, at), at)) = m
  BY CopLatestIsBoth
<1>2. Cop!Newest(Cop!Available(l, Cop!Rows(l), at)) = {m}
        /\ Cop!Newest(Cop!Available(l, Cop!Queried(l, at), at)) = {m}
  BY <1>1 DEF Cop!Newest
<1>3. Cop!Training(l, Cop!Rows(l), at) = Tried(Cop!Rows(l))
  BY <1>2 DEF Cop!Training
<1>4. Cop!Training(l, Cop!Queried(l, at), at) = Tried(Cop!Queried(l, at))
  BY <1>2 DEF Cop!Training
<1>5. {d \in Cop!Rows(l) : Cop!Today(zone, at) - cop_Window <= d
       /\ d < Cop!Today(zone, at)} \subseteq Cop!Queried(l, at)
  BY CopQueriedIs
<1>6. Tried(Cop!Queried(l, at)) \subseteq Tried(Cop!Rows(l))
  BY <1>1 DEF Cop!Over
<1>7. Tried(Cop!Rows(l)) \subseteq Tried(Cop!Queried(l, at))
  <2> SUFFICES ASSUME NEW d \in Cop!Over(l, Cop!Rows(l), at, zone),
                      Cop!Today(zone, at) - cop_Window <= d
               PROVE  d \in Cop!Over(l, Cop!Queried(l, at), at, zone)
    OBVIOUS
  <2>1. d \in Cop!Rows(l) /\ d < Cop!Today(zone, at) /\ Cop!AvailableAt(l[d]) <= at
          /\ l[d].closed /\ l[d].zone = zone /\ l[d].observed >= Cop!End(zone, d)
    BY DEF Cop!Over, Cop!Available
  <2>2. d \in Cop!Queried(l, at)
    BY <1>5, <2>1
  <2> QED
    BY <2>1, <2>2 DEF Cop!Over, Cop!Available
<1> QED
  BY <1>3, <1>4, <1>6, <1>7

\* The verdict on what is queried is the verdict on the whole ledger.
LEMMA CopVerdictIsBoth ==
  ASSUME NEW l, CopLedger(l), NEW at \in Nat,
         \A d \in Cop!Queried(l, at) : Cop!Sound(d, l[d])
  PROVE  Cop!Verdict(l, Cop!Queried(l, at), at) = Cop!Verdict(l, Cop!Rows(l), at)
<1>1. CASE Cop!Rows(l) = {}
  <2>1. Cop!Queried(l, at) = {}
    BY <1>1 DEF Cop!Queried, Cop!LatestOf, Cop!Known, Cop!Newest
  <2> QED
    BY <1>1, <2>1
<1>2. CASE Cop!Rows(l) # {} /\ Cop!Known(l, at) = {}
  <2> DEFINE m == Cop!Max(Cop!Rows(l))
  <2>1. Cop!Rows(l) \subseteq cop_Dates
    BY DEF Cop!Rows
  <2>2. m \in Cop!Rows(l)
    BY <1>2, <2>1, CopDatesAre
  <2>3. Cop!LatestOf(l, at) = {m}
    BY <1>2 DEF Cop!LatestOf, Cop!Newest
  <2>4. Cop!LatestClosed(l, l[m].zone, Cop!Today(l[m].zone, at), at) = {}
    BY <1>2 DEF Cop!LatestClosed, Cop!Newest
  <2>5. m \in Cop!Queried(l, at)
    BY <2>3 DEF Cop!Queried
  <2>6. Cop!Queried(l, at) =
          {m} \cup {d \in Cop!Rows(l) : Cop!Today(l[m].zone, at) - cop_Window <= d
                    /\ d < Cop!Today(l[m].zone, at)}
              \cup Cop!LatestClosed(l, l[m].zone, Cop!Today(l[m].zone, at), at)
    BY <2>3 DEF Cop!Queried
  <2>7. Cop!Queried(l, at) \subseteq Cop!Rows(l)
    BY <2>2, <2>4, <2>6
  <2>8. Cop!Available(l, Cop!Queried(l, at), at) = {} /\ Cop!Available(l, Cop!Rows(l), at) = {}
    BY <1>2, <2>7 DEF Cop!Available, Cop!Known
  <2>9. Cop!Verdict(l, Cop!Queried(l, at), at) = "no_current_revision"
    BY <2>5, <2>8 DEF Cop!Verdict
  <2>10. Cop!Verdict(l, Cop!Rows(l), at) = "no_current_revision"
    BY <1>2, <2>8 DEF Cop!Verdict
  <2> QED
    BY <2>9, <2>10
<1>3. CASE Cop!Known(l, at) # {}
  <2> DEFINE m == Cop!Max(Cop!Known(l, at))
             zone == l[m].zone
             today == Cop!Today(zone, at)
             Mixed(ds) == \E d \in Cop!Available(l, ds, at) : l[d].zone # zone
                                                          /\ today - cop_Window <= d
                                                               /\ d < today
             Stale(ds) == Cop!Over(l, ds, at, zone) # {}
               /\ Cop!Max(Cop!Over(l, ds, at, zone)) < today - 1
             Missed(training) == \E t \in Cop!Targets(today) :
                    Cardinality(Cop!Eligible(l, training, t, Cop!HistoricalIssue(t, zone, at)))
                      < cop_Window - cop_Folds - 1
             Gone == \E t \in Cop!Targets(today) : Cop!Nonexistent(zone, t, at)
             Of(ds) == IF Mixed(ds) THEN "mixed_timezones"
                       ELSE IF Stale(ds) THEN "stale"
                       ELSE IF Cardinality(Cop!Training(l, ds, at)) # cop_Window
                         THEN "insufficient_data"
                       ELSE IF Gone THEN "unavailable"
                       ELSE IF Missed(Cop!Training(l, ds, at)) THEN "short_fold" ELSE "ready"
  <2>1. /\ Cop!Available(l, Cop!Rows(l), at) = Cop!Known(l, at)
        /\ Cop!Available(l, Cop!Queried(l, at), at) \subseteq Cop!Known(l, at)
        /\ m \in Cop!Available(l, Cop!Queried(l, at), at)
        /\ Cop!Max(Cop!Available(l, Cop!Queried(l, at), at)) = m
    BY <1>3, CopLatestIsBoth
  <2>2. Cop!Verdict(l, Cop!Rows(l), at) = Of(Cop!Rows(l))
    <3>1. Cop!Rows(l) # {} /\ Cop!Available(l, Cop!Rows(l), at) # {}
            /\ Cop!Max(Cop!Available(l, Cop!Rows(l), at)) = m
      BY <1>3, <2>1 DEF Cop!Known
    <3> QED
      BY <3>1, CopCardinalityIs DEF Cop!Verdict
  <2>3. Cop!Verdict(l, Cop!Queried(l, at), at) = Of(Cop!Queried(l, at))
    <3>1. Cop!Queried(l, at) # {} /\ Cop!Available(l, Cop!Queried(l, at), at) # {}
      BY <2>1 DEF Cop!Available
    <3> QED
      BY <2>1, <3>1, CopCardinalityIs DEF Cop!Verdict
  <2>4. Mixed(Cop!Queried(l, at)) <=> Mixed(Cop!Rows(l))
    <3>1. {d \in Cop!Rows(l) : today - cop_Window <= d /\ d < today} \subseteq Cop!Queried(l,
                                                            at)
      BY <1>3, CopQueriedIs
    <3>2. ASSUME NEW d \in Cop!Available(l, Cop!Rows(l), at), today - cop_Window <= d, d < today
          PROVE  d \in Cop!Available(l, Cop!Queried(l, at), at)
      BY <3>1, <3>2 DEF Cop!Available
    <3> QED
      BY <2>1, <3>2
  <2>5. Stale(Cop!Queried(l, at)) <=> Stale(Cop!Rows(l))
    <3>1. /\ Cop!Over(l, Cop!Queried(l, at), at, zone) \subseteq Cop!Over(l, Cop!Rows(l), at,
                                                            zone)
          /\ Cop!Over(l, Cop!Rows(l), at, zone) # {} =>
              /\ Cop!Over(l, Cop!Queried(l, at), at, zone) # {}
              /\ Cop!Max(Cop!Over(l, Cop!Queried(l, at), at, zone)) =
                   Cop!Max(Cop!Over(l, Cop!Rows(l), at, zone))
      BY <1>3, CopOverIsBoth
    <3> QED
      BY <3>1
  <2>6. Cop!Training(l, Cop!Queried(l, at), at) = Cop!Training(l, Cop!Rows(l), at)
    BY <1>3, CopTrainingIsBoth
  <2>7. Of(Cop!Queried(l, at)) = Of(Cop!Rows(l))
    <3> HIDE DEF Mixed, Stale, Missed, Gone
    <3> QED
      BY <2>4, <2>5, <2>6
  <2> QED
    BY <2>2, <2>3, <2>7
<1>4. Cop!Known(l, at) \subseteq Cop!Rows(l)
  BY DEF Cop!Known
<1> QED
  BY <1>1, <1>2, <1>3, <1>4

\* What is read is enough for the verdict.
LEMMA CopQueriedSuffice == Cop!TypeOK => Cop!QueriedIsEnough
<1> SUFFICES ASSUME Cop!TypeOK, Cop!Answer(cop_ledger, cop_now) # "invalid_stored_period"
             PROVE  Cop!Answer(cop_ledger, cop_now) =
                      Cop!Verdict(cop_ledger, Cop!Rows(cop_ledger), cop_now)
  BY DEF Cop!QueriedIsEnough
<1>1. CopLedger(cop_ledger) /\ cop_now \in Nat
  BY DEF Cop!TypeOK, CopLedger
<1>2. \A d \in Cop!Queried(cop_ledger, cop_now) : Cop!Sound(d, cop_ledger[d])
  BY DEF Cop!Answer
<1>3. Cop!Answer(cop_ledger, cop_now) =
        Cop!Verdict(cop_ledger, Cop!Queried(cop_ledger, cop_now), cop_now)
  BY <1>2 DEF Cop!Answer
<1> QED
  BY <1>1, <1>2, <1>3, CopVerdictIsBoth

\* The rows before a date are those of its page and of the page that follows.
LEMMA CopPagesGoOn ==
  ASSUME NEW l, NEW b \in Nat
  PROVE  /\ Cop!NextBefore(l, b) = {} => Cop!Page(l, b) = Cop!Listing(l, b)
         /\ \A n \in Cop!NextBefore(l, b) :
              /\ n < b
              /\ Cop!Listing(l, b) = Cop!Page(l, b) \cup Cop!Listing(l, n)
              /\ Cop!Page(l, b) \cap Cop!Listing(l, n) = {}
<1> DEFINE L == Cop!Listing(l, b)
           Above(d) == {e \in L : e > d}
<1>1. L \subseteq cop_Dates /\ L \subseteq Nat /\ L \subseteq Cop!Rows(l) /\ IsFiniteSet(L)
        /\ cop_Limit \in Nat \ {0}
  <2>1. L \subseteq cop_Dates /\ L \subseteq Cop!Rows(l)
    BY DEF Cop!Listing, Cop!Rows
  <2> QED
    BY <2>1, CopDatesAre, CopAssumption
<1>2. \A d : Above(d) \subseteq L /\ IsFiniteSet(Above(d)) /\ Cardinality(Above(d)) \in Nat
  <2>1. \A d : Above(d) \subseteq L
    OBVIOUS
  <2> HIDE DEF Above, L
  <2> QED
    BY <1>1, <2>1, FS_Subset, FS_CardinalityType
<1>3. /\ Cop!Page(l, b) = {d \in L : Cardinality(Above(d)) < cop_Limit}
      /\ Cop!Read(l, b) = {d \in L : Cardinality(Above(d)) <= cop_Limit}
  BY CopCardinalityIs DEF Cop!Page, Cop!Read
<1>4. Cop!Page(l, b) \subseteq L /\ Cop!Read(l, b) \subseteq L /\ IsFiniteSet(Cop!Read(l, b))
        /\ Cardinality(Cop!Read(l, b)) \in Nat /\ Cop!Page(l, b) \subseteq Cop!Read(l, b)
  <2>1. Cop!Page(l, b) \subseteq L /\ Cop!Read(l, b) \subseteq L
    BY <1>3
  <2>2. Cop!Page(l, b) \subseteq Cop!Read(l, b)
    <3> HIDE DEF Above, L
    <3> QED
      BY <1>1, <1>2, <1>3
  <2> HIDE DEF Above, L
  <2> QED
    BY <1>1, <2>1, <2>2, FS_Subset, FS_CardinalityType
<1>5. ASSUME Cop!NextBefore(l, b) = {}, Cop!Page(l, b) # L
      PROVE  FALSE
  <2> DEFINE S == L \ Cop!Page(l, b)
             d == Cop!Max(S)
  <2>1. Cardinality(Cop!Read(l, b)) <= cop_Limit
    BY <1>1, <1>4, <1>5, CopCardinalityIs DEF Cop!NextBefore
  <2>2. S # {} /\ S \subseteq cop_Dates
    BY <1>1, <1>4, <1>5
  <2>3. d \in S /\ \A y \in S : d >= y
    <3> HIDE DEF S
    <3> QED
      BY <2>2, CopDatesAre
  <2>4. d \in L /\ d \in Nat /\ d \notin Cop!Page(l, b)
    BY <1>1, <2>3
  <2> HIDE DEF d
  <2>5. Cardinality(Above(d)) >= cop_Limit
    <3> HIDE DEF Above, L, S
    <3> QED
      BY <1>1, <1>2, <1>3, <2>4
  <2>6. Above(d) \subseteq Cop!Page(l, b)
    <3> SUFFICES ASSUME NEW e \in L, e > d, e \notin Cop!Page(l, b)
                 PROVE  FALSE
      OBVIOUS
    <3>1. e \in S /\ e \in Nat
      BY <1>1
    <3>2. d >= e
      BY <2>3, <3>1
    <3> QED
      BY <2>4, <3>1, <3>2
  <2>7. Above(d) # {}
    <3> HIDE DEF Above
    <3> QED
      BY <1>1, <2>5, FS_EmptySet
  <2> DEFINE x == Cop!Min(Above(d))
  <2>8. x \in Above(d) /\ \A y \in Above(d) : x <= y
    <3>1. Above(d) \subseteq Nat
      BY <1>1
    <3> HIDE DEF Above
    <3> QED
      BY <2>7, <3>1, CopMinIs
  <2> HIDE DEF x
  <2>9. Above(d) \subseteq Above(x) \cup {x}
    <3> SUFFICES ASSUME NEW y \in L, y > d, y # x
                 PROVE  y > x
      OBVIOUS
    <3>1. x <= y /\ x \in Nat /\ y \in Nat
      BY <1>1, <2>8
    <3> QED
      BY <3>1
  <2>10. Cardinality(Above(x)) < cop_Limit
    <3>1. x \in Cop!Page(l, b)
      BY <2>6, <2>8
    <3> HIDE DEF Above
    <3> QED
      BY <1>3, <3>1
  <2>11. Cardinality(Above(d)) <= cop_Limit
    <3> HIDE DEF Above, L
    <3>1. IsFiniteSet(Above(x) \cup {x})
            /\ Cardinality(Above(x) \cup {x}) <= Cardinality(Above(x)) + 1
      BY <1>2, FS_AddElement
    <3>2. Cardinality(Above(d)) <= Cardinality(Above(x) \cup {x})
      BY <2>9, <3>1, FS_Subset
    <3>3. Cardinality(Above(x) \cup {x}) \in Nat
      BY <3>1, FS_CardinalityType
    <3> QED
      BY <1>1, <1>2, <2>10, <3>1, <3>2, <3>3
  <2>12. d \in Cop!Read(l, b)
    <3> HIDE DEF Above
    <3> QED
      BY <1>3, <2>4, <2>11
  <2>13. Above(d) \cup {d} \in SUBSET Cop!Read(l, b) /\ d \notin Above(d)
    BY <1>4, <2>4, <2>6, <2>12
  <2>14. Cardinality(Above(d) \cup {d}) = Cardinality(Above(d)) + 1
    <3> HIDE DEF Above
    <3> QED
      BY <1>2, <2>13, FS_AddElement
  <2>15. Cardinality(Above(d) \cup {d}) <= Cardinality(Cop!Read(l, b))
    <3> HIDE DEF Above
    <3> QED
      BY <1>4, <2>13, FS_Subset
  <2> HIDE DEF Above
  <2> QED
    BY <1>1, <1>2, <1>4, <2>1, <2>5, <2>14, <2>15
<1>6. ASSUME NEW n \in Cop!NextBefore(l, b)
      PROVE  /\ n < b
             /\ L = Cop!Page(l, b) \cup Cop!Listing(l, n)
             /\ Cop!Page(l, b) \cap Cop!Listing(l, n) = {}
  <2>1. n = Cop!Min(Cop!Page(l, b)) /\ Cardinality(Cop!Read(l, b)) > cop_Limit
    BY <1>6, CopCardinalityIs DEF Cop!NextBefore
  <2>2. L # {}
    <3>1. Cop!Read(l, b) # {}
      BY <1>1, <2>1, FS_EmptySet
    <3> QED
      BY <1>4, <3>1
  <2>3. Cop!Page(l, b) # {}
    <3> DEFINE top == Cop!Max(L)
    <3>1. top \in L /\ \A y \in L : top >= y
      <4> HIDE DEF L
      <4> QED
        BY <1>1, <2>2, CopDatesAre
    <3>2. Above(top) = {}
      <4> HIDE DEF top, L
      <4>1. \A y \in L : y \in Nat /\ top \in Nat /\ top >= y
        BY <1>1, <3>1
      <4>2. \A y \in L : ~(y > top)
        BY <4>1
      <4> QED
        BY <4>2
    <3>3. Cardinality(Above(top)) < cop_Limit
      <4>1. Cardinality(Above(top)) = 0
        BY <3>2, FS_EmptySet
      <4> QED
        BY <1>1, <4>1
    <3> HIDE DEF Above, L, top
    <3> QED
      BY <1>3, <3>1, <3>3
  <2>4. n \in Cop!Page(l, b) /\ \A y \in Cop!Page(l, b) : n <= y
    <3>1. Cop!Page(l, b) \subseteq Nat
      BY <1>1, <1>4
    <3> QED
      BY <2>1, <2>3, <3>1, CopMinIs
  <2>5. n \in L /\ n \in Nat /\ n < b
    BY <1>1, <1>4, <2>4 DEF Cop!Listing
  <2>6. Cardinality(Above(n)) < cop_Limit
    <3> HIDE DEF Above, L
    <3> QED
      BY <1>3, <2>4
  <2>7. Cop!Page(l, b) \cap Cop!Listing(l, n) = {}
    <3> SUFFICES ASSUME NEW y \in Cop!Page(l, b), y < n
                 PROVE  FALSE
      BY DEF Cop!Listing
    <3>1. y \in Nat /\ n <= y
      BY <1>1, <1>4, <2>4
    <3> QED
      BY <2>5, <3>1
  <2>8. Cop!Listing(l, n) \subseteq L
    <3> SUFFICES ASSUME NEW y \in Cop!Rows(l), y < n
                 PROVE  y < b
      BY DEF Cop!Listing
    <3>1. y \in Nat
      BY CopAssumption DEF Cop!Rows
    <3> QED
      BY <2>5, <3>1
  <2>9. ASSUME NEW d \in L, d \notin Cop!Listing(l, n)
        PROVE  d \in Cop!Page(l, b)
    <3>1. d \in Nat /\ d >= n
      <4>1. d \in Nat /\ d \in Cop!Rows(l)
        BY <1>1
      <4>2. ~(d < n)
        BY <2>9, <4>1 DEF Cop!Listing
      <4> QED
        BY <2>5, <4>1, <4>2
    <3>2. Above(d) \in SUBSET Above(n)
      <4>1. \A e \in L : e > d => e > n
        BY <1>1, <2>5, <3>1
      <4> QED
        BY <4>1
    <3>3. Cardinality(Above(d)) <= Cardinality(Above(n))
      <4> HIDE DEF Above, L
      <4> QED
        BY <1>2, <3>2, FS_Subset
    <3> HIDE DEF Above, L
    <3>4. Cardinality(Above(d)) < cop_Limit
      BY <1>1, <1>2, <2>6, <3>3
    <3> QED
      BY <1>3, <2>9, <3>4
  <2> QED
    BY <1>4, <2>5, <2>7, <2>8, <2>9
<1> QED
  BY <1>5, <1>6

\* Turning the pages lists each row once, whatever the ledger.
LEMMA CopAllAreListed == Cop!PagesListAll
<1>1. Cop!Max(cop_Dates) \in Nat /\ \A d \in cop_Dates : Cop!Max(cop_Dates) >= d
  BY CopDatesAre, CopAssumption
<1>2. Cop!Top \in Nat
  BY <1>1 DEF Cop!Top
<1>3. Cop!Listing(cop_ledger, Cop!Top) = Cop!Rows(cop_ledger)
  <2>1. \A d \in Cop!Rows(cop_ledger) : d < Cop!Top
    BY <1>1, CopAssumption DEF Cop!Rows, Cop!Top
  <2> QED
    BY <2>1 DEF Cop!Listing
<1>4. \A b \in 0..Cop!Top : b \in Nat
  BY <1>2
<1> QED
  BY <1>3, <1>4, CopPagesGoOn DEF Cop!PagesListAll

\* What stands in the ledger since its last change has stood there since.
CopRemembered == \A t \in 0..cop_now, d \in cop_Dates :
  cop_ledger[d] # cop_None /\ cop_ledger[d].updated <= t => cop_past[t][d] = cop_ledger[d]

\* A fold learns only from what stood there when it would have been issued.
LEMMA CopFoldsAreThen ==
  ASSUME Cop!TypeOK, CopRemembered
  PROVE  Cop!NoHindsight
<1> DEFINE ds == Cop!Queried(cop_ledger, cop_now)
           training == Cop!Training(cop_ledger, ds, cop_now)
           zone == cop_ledger[Cop!Max(training)].zone
<1> SUFFICES ASSUME NEW t \in Cop!Targets(Cop!Today(zone, cop_now)),
                    NEW d \in Cop!Eligible(cop_ledger, training, t,
                                           Cop!HistoricalIssue(t, zone, cop_now))
             PROVE  LET issue == Cop!HistoricalIssue(t, zone, cop_now)
                    IN issue >= 0 /\ cop_past[issue][d] = cop_ledger[d]
  BY DEF Cop!NoHindsight
<1> DEFINE issue == Cop!HistoricalIssue(t, zone, cop_now)
<1>1. d \in training /\ d <= t - 2 /\ Cop!AvailableAt(cop_ledger[d]) <= issue
  BY DEF Cop!Eligible
<1>2. training \subseteq Cop!Rows(cop_ledger)
  <2>1. \A e \in training : e \in ds /\ Cop!AvailableAt(cop_ledger[e]) <= cop_now
    BY DEF Cop!Training, Cop!Over, Cop!Available
  <2>2. ds \subseteq Cop!Rows(cop_ledger)
    <3> SUFFICES ASSUME ds # {}
                 PROVE  ds \subseteq Cop!Rows(cop_ledger)
      OBVIOUS
    <3>1. PICK latest \in Cop!LatestOf(cop_ledger, cop_now) : TRUE
      BY DEF Cop!Queried
    <3>2. \A S : S \subseteq Cop!Rows(cop_ledger)
            => Cop!Newest(S) \subseteq Cop!Rows(cop_ledger)
      <4>1. Cop!Rows(cop_ledger) \subseteq cop_Dates
        BY DEF Cop!Rows
      <4> QED
        BY <4>1, CopDatesAre DEF Cop!Newest
    <3>3. Cop!LatestOf(cop_ledger, cop_now) \subseteq Cop!Rows(cop_ledger)
      <4>1. Cop!Known(cop_ledger, cop_now) \subseteq Cop!Rows(cop_ledger)
        BY DEF Cop!Known
      <4> QED
        BY <3>2, <4>1 DEF Cop!LatestOf
    <3>4. \A zz, today : Cop!LatestClosed(cop_ledger, zz, today,
                                          cop_now) \subseteq Cop!Rows(cop_ledger)
      <4> SUFFICES ASSUME NEW zz, NEW today
                   PROVE  Cop!LatestClosed(cop_ledger, zz, today,
                                           cop_now) \subseteq Cop!Rows(cop_ledger)
        OBVIOUS
      <4> DEFINE C == {e \in Cop!Known(cop_ledger, cop_now) : cop_ledger[e].closed
                       /\ cop_ledger[e].zone = zz /\ e < today}
      <4>1. C \subseteq Cop!Rows(cop_ledger)
        BY DEF Cop!Known
      <4>2. Cop!LatestClosed(cop_ledger, zz, today, cop_now) = Cop!Newest(C)
        BY DEF Cop!LatestClosed
      <4> HIDE DEF C
      <4> QED
        BY <3>2, <4>1, <4>2
    <3> QED
      BY <3>3, <3>4 DEF Cop!Queried
  <2> QED
    BY <2>1, <2>2
<1>3. d \in cop_Dates /\ cop_ledger[d] \in Cop!Row /\ cop_ledger[d] # cop_None /\ d \in Nat
  BY <1>1, <1>2, CopStandingIs, CopAssumption DEF Cop!TypeOK, CopLedger, Cop!Rows
<1>4. zone \in cop_Zones
  <2>1. training \subseteq cop_Dates
    BY <1>2 DEF Cop!Rows
  <2>2. Cop!Max(training) \in training
    <3> HIDE DEF training
    <3> QED
      BY <1>1, <2>1, CopDatesAre
  <2>3. cop_ledger[Cop!Max(training)] \in Cop!Row
    <3> HIDE DEF training
    <3> QED
      BY <1>2, <2>2, CopStandingIs DEF Cop!TypeOK, CopLedger
  <2> QED
    BY <2>3 DEF Cop!Row
<1> HIDE DEF zone, training, ds
<1>5. cop_now \in Nat /\ cop_Day \in Nat \ {0}
  BY CopAssumption DEF Cop!TypeOK
<1> DEFINE today == Cop!Today(zone, cop_now)
<1>6. today \in Int /\ cop_now - cop_Day * today >= 0 /\ cop_now - cop_Day * today \in Int
  BY <1>4, <1>5, CopTodayIs
<1>7. t \in Int /\ t <= today - 1
  BY <1>6, CopAssumption DEF Cop!Targets
<1> HIDE DEF today
<1>8. issue = cop_now - cop_Day * (today - (t - 1))
  BY DEF Cop!HistoricalIssue, today
<1> HIDE DEF issue
<1>9. t >= 2
  BY <1>1, <1>3, <1>7
<1>10. issue \in Int /\ issue >= 0 /\ issue <= cop_now
  <2>1. today - (t - 1) \in Int /\ today - (t - 1) >= 2 /\ t - 1 \in Nat
    BY <1>6, <1>7, <1>9
  <2>2. cop_Day * (today - (t - 1)) = cop_Day * today - cop_Day * (t - 1)
    BY <1>5, <1>6, <1>7
  <2>3. cop_Day * today \in Int /\ cop_Day * (t - 1) \in Nat
    BY <1>5, <1>6, <2>1
  <2>4. cop_Day * (today - (t - 1)) >= 0
    BY <1>5, <2>1
  <2>5. cop_Day * (today - (t - 1)) \in Int
    BY <1>5, <2>1
  <2> QED
    BY <1>5, <1>6, <1>8, <2>2, <2>3, <2>4, <2>5
<1>11. cop_ledger[d].updated <= issue
  <2>1. Cop!AvailableAt(cop_ledger[d]) \in Nat
          /\ cop_ledger[d].updated <= Cop!AvailableAt(cop_ledger[d])
    BY <1>3, CopAvailableIs
  <2>2. cop_ledger[d].updated \in Nat
    BY <1>3 DEF Cop!Row
  <2>3. Cop!AvailableAt(cop_ledger[d]) <= issue
    BY <1>1 DEF issue
  <2> QED
    BY <1>10, <2>1, <2>2, <2>3
<1>12. issue \in 0..cop_now
  BY <1>5, <1>10
<1>13. issue >= 0 /\ cop_past[issue][d] = cop_ledger[d]
  BY <1>3, <1>10, <1>11, <1>12 DEF CopRemembered
<1> QED
  BY <1>13 DEF issue

\* Revisions were given out by the sequence, and one stands for one row of a day.
CopNumbered(row) == row # cop_None => row.revision >= 1 /\ row.revision < cop_sequence
CopTold(v) == v # Cop!NoView => /\ CopNumbered(v.row)
                                /\ v.row # cop_None /\ cop_ledger[v.date] # cop_None
                                     /\ v.row.revision = cop_ledger[v.date].revision
                                   => v.row = cop_ledger[v.date]

CopIInv == /\ Cop!TypeOK /\ cop_sequence >= 1
           /\ \A d \in cop_Dates : CopNumbered(cop_ledger[d])
           /\ \A e \in cop_Editors : CopTold(cop_view[e])
           /\ CopRemembered
           /\ Cop!EditsAreSeen

\* A revision that matches is of the row that the editor saw.
LEMMA CopSeenIsStanding ==
  ASSUME CopIInv, NEW e \in cop_Editors, cop_view[e] # Cop!NoView,
         Cop!Matches(cop_view[e].date, Cop!Revision(cop_view[e].row))
  PROVE  /\ cop_view[e] \in Cop!View /\ cop_view[e].date \in cop_Dates
              /\ cop_view[e].row \in Cop!Row \cup {cop_None}
         /\ cop_ledger[cop_view[e].date] = cop_view[e].row
<1>1. cop_view[e] \in Cop!View /\ cop_view[e].date \in cop_Dates
        /\ cop_view[e].row \in Cop!Row \cup {cop_None}
  BY DEF CopIInv, Cop!TypeOK, Cop!View
<1> DEFINE old == cop_ledger[cop_view[e].date]
           row == cop_view[e].row
<1>2. old \in Cop!Row \cup {cop_None}
  BY <1>1 DEF CopIInv, Cop!TypeOK
<1>3. CopTold(cop_view[e]) /\ CopNumbered(old) /\ CopNumbered(row)
  BY <1>1 DEF CopIInv, CopTold
<1>4. Cop!Revision(old) = Cop!Revision(row)
  BY DEF Cop!Matches
<1>5. \A x \in Cop!Row \cup {cop_None} : x # cop_None => x.revision \in Nat
  BY DEF Cop!Row
<1>6. old = cop_None <=> row = cop_None
  <2>1. \A x \in Cop!Row \cup {cop_None} : CopNumbered(x)
          => (x = cop_None <=> Cop!Revision(x) = 0)
    BY <1>5 DEF CopNumbered, Cop!Revision
  <2>2. old = cop_None <=> Cop!Revision(old) = 0
    BY <1>2, <1>3, <2>1
  <2>3. row = cop_None <=> Cop!Revision(row) = 0
    BY <1>1, <1>3, <2>1
  <2> QED
    BY <1>4, <2>2, <2>3
<1>7. CASE old # cop_None
  <2>1. old.revision = row.revision
    BY <1>4, <1>6, <1>7 DEF Cop!Revision
  <2> QED
    BY <1>1, <1>3, <1>6, <1>7, <2>1 DEF CopTold
<1> QED
  BY <1>1, <1>6, <1>7

\* A write on the row that was seen keeps the history and the marks.
LEMMA CopWritingIsKept ==
  ASSUME CopIInv, NEW e \in cop_Editors, cop_view[e] # Cop!NoView,
         Cop!Matches(cop_view[e].date, Cop!Revision(cop_view[e].row)),
         NEW row \in Cop!Row \cup {cop_None}, row # cop_None => row.updated >= cop_now,
         Cop!Written(e, row), Cop!Settle(e), cop_sequence' \in Nat,
         cop_sequence' >= cop_sequence,
         cop_now' = cop_now, row # cop_None
           => row.revision >= cop_sequence /\ row.revision < cop_sequence'
  PROVE  CopIInv'
<1> DEFINE d == cop_view[e].date
<1>1. d \in cop_Dates /\ cop_ledger[d] = cop_view[e].row
  BY CopSeenIsStanding
<1>2. /\ cop_ledger' = [cop_ledger EXCEPT ![d] = row]
      /\ cop_past' = [cop_past EXCEPT ![cop_now] = [@ EXCEPT ![d] = row]]
      /\ cop_blind' = cop_blind
  BY <1>1 DEF Cop!Written
<1>3. cop_view' \in [cop_Editors -> Cop!View \cup {Cop!NoView}]
        /\ \A f \in cop_Editors : cop_view'[f] = cop_view[f] \/ cop_view'[f] = Cop!NoView
  BY DEF Cop!Settle, CopIInv, Cop!TypeOK
<1>4. /\ cop_ledger \in [cop_Dates -> Cop!Row \cup {cop_None}] /\ cop_now \in Nat
           /\ cop_sequence \in Nat
      /\ cop_past \in [0..cop_now -> [cop_Dates -> Cop!Row \cup {cop_None}]]
           /\ cop_blind \subseteq cop_Editors
  BY DEF CopIInv, Cop!TypeOK
<1> HIDE DEF d
<1>5. cop_ledger' \in [cop_Dates -> Cop!Row \cup {cop_None}] /\ cop_ledger'[d] = row
        /\ \A c \in cop_Dates : c # d => cop_ledger'[c] = cop_ledger[c]
  BY <1>1, <1>2, <1>4
<1>6. cop_now \in 0..cop_now /\ cop_past[cop_now] \in [cop_Dates -> Cop!Row \cup {cop_None}]
  BY <1>4
<1>7. PICK then \in [cop_Dates -> Cop!Row \cup {cop_None}] :
        then = [cop_past[cop_now] EXCEPT ![d] = row]
  BY <1>1, <1>6
<1>8. cop_past' = [cop_past EXCEPT ![cop_now] = then]
  BY <1>2, <1>7
<1>9. cop_past' \in [0..cop_now -> [cop_Dates -> Cop!Row \cup {cop_None}]]
  BY <1>4, <1>6, <1>8
<1>10. Cop!TypeOK'
  BY <1>2, <1>3, <1>4, <1>5, <1>9 DEF Cop!TypeOK
<1>11. \A x \in Cop!Row \cup {cop_None} : CopNumbered(x) => CopNumbered(x)'
  <2>1. \A x \in Cop!Row : x.revision \in Nat
    BY DEF Cop!Row
  <2> QED
    BY <1>4, <2>1 DEF CopNumbered
<1>12. ASSUME NEW c \in cop_Dates
       PROVE  CopNumbered(cop_ledger[c])'
  <2>1. CASE c = d
    <3>1. row # cop_None => row.revision \in Nat
      BY DEF Cop!Row
    <3>2. row # cop_None => row.revision >= 1
      <4>1. CASE row # cop_None
        <5>1. cop_sequence >= 1
          BY DEF CopIInv
        <5> QED
          BY <1>4, <3>1, <4>1, <5>1
      <4> QED
        BY <4>1
    <3> QED
      BY <1>5, <2>1, <3>1, <3>2 DEF CopNumbered
  <2>2. CASE c # d
    <3>1. cop_ledger'[c] = cop_ledger[c] /\ CopNumbered(cop_ledger[c])
            /\ cop_ledger[c] \in Cop!Row \cup {cop_None}
      BY <1>4, <1>5, <2>2 DEF CopIInv
    <3>2. CopNumbered(cop_ledger[c])
            => (cop_ledger'[c] # cop_None
                => cop_ledger'[c].revision >= 1 /\ cop_ledger'[c].revision < cop_sequence')
      <4>1. \A x \in Cop!Row : x.revision \in Nat
        BY DEF Cop!Row
      <4> QED
        BY <1>4, <3>1, <4>1 DEF CopNumbered
    <3> QED
      BY <3>1, <3>2 DEF CopNumbered
  <2> QED
    BY <2>1, <2>2
<1>13. ASSUME NEW f \in cop_Editors
       PROVE  CopTold(cop_view[f])'
  <2> SUFFICES ASSUME cop_view'[f] # Cop!NoView
               PROVE  CopTold(cop_view[f])'
    BY DEF CopTold
  <2>1. cop_view'[f] = cop_view[f] /\ cop_view[f] \in Cop!View
          /\ cop_view[f].row \in Cop!Row \cup {cop_None}
          /\ cop_view[f].date \in cop_Dates /\ CopTold(cop_view[f]) /\ cop_view[f] # Cop!NoView
    BY <1>3 DEF CopIInv, Cop!TypeOK, Cop!View
  <2>2. CopNumbered(cop_view[f].row)
    BY <2>1 DEF CopTold
  <2>3. cop_view[f].row # cop_None => cop_view[f].row.revision >= 1 /\ cop_view[f].row.revision < cop_sequence'
                                       /\ cop_view[f].row.revision < cop_sequence
                                            /\ cop_view[f].row.revision \in Nat
    <3>1. cop_view[f].row # cop_None => cop_view[f].row.revision \in Nat
      BY <2>1 DEF Cop!Row
    <3> QED
      BY <1>4, <2>2, <3>1 DEF CopNumbered
  <2>4. ASSUME cop_view[f].row # cop_None, cop_ledger'[cop_view[f].date] # cop_None,
               cop_view[f].row.revision = cop_ledger'[cop_view[f].date].revision
        PROVE  cop_view[f].row = cop_ledger'[cop_view[f].date]
    <3>1. CASE cop_view[f].date = d
      <4>1. cop_ledger'[d] = row /\ row # cop_None /\ row.revision >= cop_sequence
              /\ row.revision \in Nat
        BY <1>5, <2>4, <3>1 DEF Cop!Row
      <4> QED
        BY <1>4, <2>3, <2>4, <3>1, <4>1
    <3>2. CASE cop_view[f].date # d
      <4>1. cop_ledger'[cop_view[f].date] = cop_ledger[cop_view[f].date]
        BY <1>5, <2>1, <3>2
      <4> QED
        BY <2>1, <2>4, <4>1 DEF CopTold
    <3> QED
      BY <3>1, <3>2
  <2> QED
    BY <2>1, <2>3, <2>4 DEF CopTold, CopNumbered
<1>14. CopRemembered'
  <2> SUFFICES ASSUME NEW t \in 0..cop_now, NEW c \in cop_Dates, cop_ledger'[c] # cop_None,
                      cop_ledger'[c].updated <= t
               PROVE  cop_past'[t][c] = cop_ledger'[c]
    BY DEF CopRemembered
  <2>1. cop_past'[cop_now] = then /\ (t # cop_now => cop_past'[t] = cop_past[t])
    BY <1>4, <1>6, <1>8
  <2>2. then[d] = row /\ (c # d => then[c] = cop_past[cop_now][c])
    BY <1>1, <1>6, <1>7
  <2>3. CASE c = d
    <3>1. row.updated >= cop_now /\ row.updated <= t /\ row.updated \in Nat
      BY <1>5, <2>3 DEF Cop!Row
    <3>2. t = cop_now
      BY <1>4, <3>1
    <3> QED
      BY <1>5, <2>1, <2>2, <2>3, <3>2
  <2>4. CASE c # d
    <3>1. cop_ledger'[c] = cop_ledger[c] /\ cop_past[t][c] = cop_ledger[c]
      BY <1>5, <2>4 DEF CopIInv, CopRemembered
    <3>2. cop_past'[t][c] = cop_past[t][c]
      BY <2>1, <2>2, <2>4
    <3> QED
      BY <3>1, <3>2
  <2> QED
    BY <2>3, <2>4
<1>15. Cop!EditsAreSeen' /\ cop_sequence' >= 1
  BY <1>2, <1>4 DEF Cop!EditsAreSeen, CopIInv
<1> QED
  BY <1>10, <1>12, <1>13, <1>14, <1>15 DEF CopIInv

\* Whoever writes has seen what stands.
LEMMA CopPuttingIsKept ==
  ASSUME CopIInv, NEW e \in cop_Editors, cop_view[e] # Cop!NoView, NEW z \in cop_Zones,
         NEW c \in BOOLEAN,
         NEW t \in {cop_now, Cop!End(z, cop_view[e].date)}, NEW ahead \in 0..cop_Skew,
         Cop!Put(e, z, c, t, ahead)
  PROVE  CopIInv'
<1> DEFINE d == cop_view[e].date
           old == cop_ledger[d]
           row == [zone |-> z, closed |-> c, observed |-> t,
                   created |-> IF old = cop_None THEN cop_now + ahead ELSE old.created,
                   updated |-> cop_now + ahead, revision |-> Cop!NextRevision]
<1>1. /\ Cop!Matches(d, Cop!Revision(cop_view[e].row)) /\ Cop!Written(e, row)
           /\ cop_sequence' = cop_sequence + 1
      /\ Cop!Settle(e) /\ cop_now' = cop_now
  BY DEF Cop!Put
<1>2. d \in cop_Dates /\ old \in Cop!Row \cup {cop_None} /\ d \in Nat
  BY <1>1, CopSeenIsStanding, CopAssumption DEF CopIInv, Cop!TypeOK
<1>3. cop_now \in Nat /\ cop_sequence \in Nat /\ ahead \in Nat /\ z \in Nat /\ cop_Day \in Nat
  BY CopAssumption DEF CopIInv, Cop!TypeOK
<1>4. t \in Nat
  <2>1. Cop!End(z, d) \in Nat
    BY <1>2, <1>3 DEF Cop!End, Cop!Start
  <2> QED
    BY <1>3, <2>1
<1>5. row \in Cop!Row
  <2>1. (IF old = cop_None THEN cop_now + ahead ELSE old.created) \in Nat
    BY <1>2, <1>3 DEF Cop!Row
  <2>2. cop_now + ahead \in Nat /\ Cop!NextRevision \in Nat
    BY <1>3 DEF Cop!NextRevision
  <2> QED
    BY <1>4, <2>1, <2>2 DEF Cop!Row
<1>6. row.updated >= cop_now /\ row.revision >= cop_sequence /\ row.revision < cop_sequence'
        /\ cop_sequence' \in Nat /\ cop_sequence' >= cop_sequence
  BY <1>1, <1>3 DEF Cop!NextRevision
<1> HIDE DEF row, d
<1> QED
  BY <1>1, <1>5, <1>6, CopWritingIsKept DEF d

\* Every step keeps what is known of the ledger and of those who edit it.
LEMMA CopInvariantKept == CopIInv /\ [Cop!Next]_copVars => CopIInv'
<1> SUFFICES ASSUME CopIInv, [Cop!Next]_copVars
             PROVE  CopIInv'
  OBVIOUS
<1>1. /\ cop_ledger \in [cop_Dates -> Cop!Row \cup {cop_None}] /\ cop_now \in Nat
           /\ cop_sequence \in Nat
      /\ cop_view \in [cop_Editors -> Cop!View \cup {Cop!NoView}]
      /\ cop_past \in [0..cop_now -> [cop_Dates -> Cop!Row \cup {cop_None}]]
           /\ cop_blind \subseteq cop_Editors
  BY DEF CopIInv, Cop!TypeOK
<1>2. CASE UNCHANGED copVars
  BY <1>2 DEF copVars, CopIInv, Cop!TypeOK, CopNumbered, CopTold, CopRemembered,
     Cop!EditsAreSeen
<1>3. CASE Cop!Tick
  <2>1. /\ cop_now' = cop_now + 1
             /\ cop_past' = [t \in 0..cop_now + 1 |-> IF t <= cop_now THEN cop_past[t]
                               ELSE cop_ledger]
        /\ UNCHANGED <<cop_ledger, cop_sequence, cop_view, cop_blind>>
    BY <1>3 DEF Cop!Tick
  <2>2. cop_past' \in [0..cop_now' -> [cop_Dates -> Cop!Row \cup {cop_None}]]
    <3>1. \A t \in 0..cop_now + 1 : t <= cop_now => t \in 0..cop_now
      BY <1>1
    <3> QED
      BY <1>1, <2>1, <3>1
  <2>3. Cop!TypeOK'
    BY <1>1, <2>1, <2>2 DEF Cop!TypeOK
  <2>4. CopRemembered'
    <3> SUFFICES ASSUME NEW t \in 0..cop_now + 1, NEW d \in cop_Dates, cop_ledger[d] # cop_None,
                        cop_ledger[d].updated <= t
                 PROVE  cop_past'[t][d] = cop_ledger[d]
      BY <2>1 DEF CopRemembered
    <3>1. CASE t <= cop_now
      <4>1. t \in 0..cop_now
        BY <1>1, <3>1
      <4>2. cop_past'[t] = cop_past[t]
        BY <2>1, <3>1
      <4> QED
        BY <4>1, <4>2 DEF CopIInv, CopRemembered
    <3>2. CASE ~(t <= cop_now)
      BY <2>1, <3>2
    <3> QED
      BY <3>1, <3>2
  <2> QED
    BY <2>1, <2>3, <2>4 DEF CopIInv, CopNumbered, CopTold, Cop!EditsAreSeen
<1>4. ASSUME NEW e \in cop_Editors, NEW d \in cop_Editable, Cop!Look(e, d)
      PROVE  CopIInv'
  <2>1. d \in cop_Dates
    BY CopAssumption
  <2>2. PICK v \in Cop!View : v = [date |-> d, row |-> cop_ledger[d]]
    BY <1>1, <2>1 DEF Cop!View
  <2>3. cop_view' = [cop_view EXCEPT ![e] = v]
          /\ UNCHANGED <<cop_ledger, cop_sequence, cop_now, cop_past, cop_blind>>
    BY <1>4, <2>2 DEF Cop!Look
  <2>4. Cop!TypeOK'
    BY <1>1, <2>3 DEF Cop!TypeOK
  <2>5. CopTold(v)
    BY <2>1, <2>2 DEF CopTold, CopIInv
  <2>6. \A f \in cop_Editors : CopTold(cop_view'[f])
    BY <1>1, <2>3, <2>5 DEF CopIInv
  <2>7. \A f \in cop_Editors : CopTold(cop_view[f])'
    BY <2>3, <2>6 DEF CopTold, CopNumbered
  <2> QED
    BY <2>3, <2>4, <2>7 DEF CopIInv, CopNumbered, CopRemembered, Cop!EditsAreSeen
<1>5. ASSUME NEW e \in cop_Editors, cop_view[e] # Cop!NoView, NEW z \in cop_Zones,
             NEW c \in BOOLEAN,
             NEW t \in {cop_now, Cop!End(z, cop_view[e].date)}, NEW ahead \in 0..cop_Skew,
             Cop!Put(e, z, c, t, ahead)
      PROVE  CopIInv'
  BY <1>5, CopPuttingIsKept
<1>6. ASSUME NEW e \in cop_Editors, Cop!Delete(e)
      PROVE  CopIInv'
  <2>1. /\ cop_view[e] # Cop!NoView
             /\ Cop!Matches(cop_view[e].date, Cop!Revision(cop_view[e].row))
        /\ Cop!Written(e, cop_None) /\ Cop!Settle(e) /\ UNCHANGED <<cop_sequence, cop_now>>
    BY <1>6 DEF Cop!Delete
  <2>2. cop_sequence' \in Nat /\ cop_sequence' >= cop_sequence /\ cop_now' = cop_now
          /\ cop_None \in Cop!Row \cup {cop_None}
    BY <1>1, <2>1
  <2> QED
    BY <2>1, <2>2, CopWritingIsKept
<1>7. ASSUME NEW e \in cop_Editors, Cop!Conflict(e)
      PROVE  CopIInv'
  <2>1. cop_view' = [cop_view EXCEPT ![e] = Cop!NoView]
          /\ UNCHANGED <<cop_ledger, cop_sequence, cop_now, cop_past, cop_blind>>
    BY <1>7 DEF Cop!Conflict
  <2>2. Cop!TypeOK'
    BY <1>1, <2>1 DEF Cop!TypeOK
  <2>3. \A f \in cop_Editors : cop_view'[f] = cop_view[f] \/ cop_view'[f] = Cop!NoView
    BY <1>1, <2>1
  <2>4. \A f \in cop_Editors : CopTold(cop_view'[f])
    BY <2>3 DEF CopIInv, CopTold
  <2>5. \A f \in cop_Editors : CopTold(cop_view[f])'
    BY <2>1, <2>4 DEF CopTold, CopNumbered
  <2> QED
    BY <2>1, <2>2, <2>5 DEF CopIInv, CopNumbered, CopRemembered, Cop!EditsAreSeen
<1> QED
  BY <1>2, <1>3, <1>4, <1>5, <1>6, <1>7 DEF Cop!Next

\* It holds of a ledger as the migration and earlier requests have left it.
LEMMA CopInvariantInitially == Cop!Init => CopIInv
<1> SUFFICES ASSUME Cop!Init
             PROVE  CopIInv
  OBVIOUS
<1>1. Cop!Max(cop_Dates) \in Nat /\ \A d \in cop_Dates : d \in Nat
  BY CopDatesAre, CopAssumption
<1>2. \A d \in cop_Dates : cop_ledger[d] \in Cop!Stored(d)
  BY DEF Cop!Init
<1>3. ASSUME NEW d \in cop_Dates, NEW row \in Cop!Stored(d), row # cop_None
      PROVE  row \in Cop!Row /\ row.revision >= 1 /\ row.revision < Cop!Max(cop_Dates) + 2
  <2>1. PICK z \in cop_Zones, c \in BOOLEAN, late \in {0, 1} :
          row = [zone |-> z, closed |-> c, observed |-> Cop!End(z, d),
                 created |-> Cop!End(z, d),
                 updated |-> Cop!End(z, d) + late,
                 revision |-> 1 + ((d - 1) % (Cop!Max(cop_Dates) + 1))]
    BY <1>3 DEF Cop!Stored
  <2>2. Cop!End(z, d) \in Nat
    <3>1. z \in Nat /\ cop_Day \in Nat /\ d \in Nat
      BY <1>1, CopAssumption
    <3> QED
      BY <3>1 DEF Cop!End, Cop!Start
  <2>3. (d - 1) % (Cop!Max(cop_Dates) + 1) \in Nat
          /\ (d - 1) % (Cop!Max(cop_Dates) + 1) < Cop!Max(cop_Dates) + 1
    <3>1. d - 1 \in Int /\ Cop!Max(cop_Dates) + 1 \in Nat \ {0}
      BY <1>1
    <3>2. (d - 1) % (Cop!Max(cop_Dates) + 1) \in Int /\ 0 <= (d - 1) % (Cop!Max(cop_Dates) + 1)
            /\ (d - 1) % (Cop!Max(cop_Dates) + 1) < Cop!Max(cop_Dates) + 1
      BY <3>1, CopQuotient
    <3> QED
      BY <3>2
  <2>4. Cop!End(z, d) + late \in Nat
    BY <2>2
  <2> DEFINE k == 1 + ((d - 1) % (Cop!Max(cop_Dates) + 1))
  <2>5. k \in Nat /\ k >= 1 /\ k < Cop!Max(cop_Dates) + 2
    BY <1>1, <2>3
  <2>6. row.revision = k
    BY <2>1
  <2> HIDE DEF k
  <2>7. row = [zone |-> z, closed |-> c, observed |-> Cop!End(z, d), created |-> Cop!End(z, d),
               updated |-> Cop!End(z, d) + late, revision |-> k]
    BY <2>1 DEF k
  <2> QED
    BY <2>2, <2>4, <2>5, <2>6, <2>7 DEF Cop!Row
<1>4. cop_ledger \in [cop_Dates -> Cop!Row \cup {cop_None}]
  <2>1. \E T : cop_ledger \in [cop_Dates -> T]
    BY DEF Cop!Init
  <2>2. cop_ledger = [d \in cop_Dates |-> cop_ledger[d]]
    BY <2>1
  <2>3. \A d \in cop_Dates : cop_ledger[d] \in Cop!Row \cup {cop_None}
    BY <1>2, <1>3
  <2> QED
    BY <2>2, <2>3
<1>5. cop_sequence = Cop!Max(cop_Dates) + 2 /\ cop_now = cop_Opening
        /\ cop_view = [e \in cop_Editors |-> Cop!NoView] /\ cop_blind = {}
  BY DEF Cop!Init
<1>6. cop_sequence \in Nat /\ cop_now \in Nat /\ cop_sequence >= 1
  BY <1>1, <1>5, CopAssumption
<1>7. cop_past = [t \in 0..cop_now |->
                    [d \in cop_Dates |-> IF cop_ledger[d] # cop_None
                     /\ cop_ledger[d].updated <= t
                                                             THEN cop_ledger[d] ELSE cop_None]]
  BY <1>5 DEF Cop!Init
<1>8. cop_past \in [0..cop_now -> [cop_Dates -> Cop!Row \cup {cop_None}]]
  BY <1>4, <1>7
<1>9. Cop!TypeOK
  BY <1>4, <1>5, <1>6, <1>8 DEF Cop!TypeOK
<1>10. \A d \in cop_Dates : CopNumbered(cop_ledger[d])
  BY <1>2, <1>3, <1>5 DEF CopNumbered
<1>11. \A e \in cop_Editors : CopTold(cop_view[e])
  BY <1>5 DEF CopTold
<1>12. CopRemembered
  BY <1>7 DEF CopRemembered
<1> QED
  BY <1>5, <1>6, <1>9, <1>10, <1>11, <1>12 DEF CopIInv, Cop!EditsAreSeen

\* What the manual rows are used for is what they are.
LEMMA CopManualRowsAreTheirOwn ==
  CopIInv => Cop!EditsAreSeen /\ Cop!QueriedIsEnough /\ Cop!NoHindsight /\ Cop!PagesListAll
<1> SUFFICES ASSUME CopIInv
             PROVE  Cop!EditsAreSeen /\ Cop!QueriedIsEnough /\ Cop!NoHindsight
                      /\ Cop!PagesListAll
  OBVIOUS
<1>1. Cop!TypeOK /\ CopRemembered /\ Cop!EditsAreSeen
  BY DEF CopIInv
<1> QED
  BY <1>1, CopQueriedSuffice, CopFoldsAreThen, CopAllAreListed


\* The invariant of this service, whenever it is the one that acts.
LEMMA CopInvariant == EvidenceSpec => [](verdict = "cop" => CopIInv)
<1>1. EvidenceInit => (verdict = "cop" => CopIInv)
  BY CopInvariantInitially DEF EvidenceInit
<1>2. (verdict = "cop" => CopIInv) /\ [EvidenceNext]_verdictVars
        => (verdict = "cop" => CopIInv)'
  BY CopInvariantKept DEF EvidenceNext, verdictVars
<1> QED
  BY <1>1, <1>2, PTL DEF EvidenceSpec

-----------------------------------------------------------------------------
(***************************************************************************)
(* The service that acts keeps the types of its state.                     *)
(***************************************************************************)
THEOREM EvidenceTypes ==
  EvidenceSpec => [](/\ verdict = "evidence" => Evidence!TypeOK
                     /\ verdict = "showers" => Showers!TypeOK
                     /\ verdict = "gate" => Gate!TypeOK
                     /\ verdict = "proof" => Proof!TypeOK
                     /\ verdict = "readiness" => Readiness!TypeOK
                     /\ verdict = "serving" => Serving!TypeOK
                     /\ verdict = "cop" => Cop!TypeOK)
<1>1. (verdict = "evidence" => EvidenceIInv) => (verdict = "evidence" => Evidence!TypeOK)
  BY DEF EvidenceIInv
<1>2. (verdict = "showers" => ShowersIInv) => (verdict = "showers" => Showers!TypeOK)
  BY DEF ShowersIInv
<1>3. (verdict = "gate" => GateIInv) => (verdict = "gate" => Gate!TypeOK)
  BY DEF GateIInv
<1>4. (verdict = "proof" => ProofIInv) => (verdict = "proof" => Proof!TypeOK)
  BY DEF ProofIInv
<1>5. (verdict = "readiness" => ReadinessIInv) => (verdict = "readiness" => Readiness!TypeOK)
  BY DEF ReadinessIInv
<1>6. (verdict = "serving" => ServingIInv) => (verdict = "serving" => Serving!TypeOK)
  BY DEF ServingIInv
<1>7. (verdict = "cop" => CopIInv) => (verdict = "cop" => Cop!TypeOK)
  BY DEF CopIInv
<1> QED
  BY <1>1, <1>2, <1>3, <1>4, <1>5, <1>6, <1>7, EvidenceInvariant, ShowersInvariant,
     GateInvariant,
     ProofInvariant, ReadinessInvariant, ServingInvariant, CopInvariant, PTL

(***************************************************************************)
(* A restore is closed only by what the pump was after the bounds and not  *)
(* long ago, every live read is paid for and no hour has more of them than *)
(* its limit; what a shower turned on stays owed, and is closed once       *)
(* (_read_safety_observation, _reserve_verification_read, shower_mode.py). *)
(***************************************************************************)
THEOREM RestoresCloseByEvidence == EvidenceSpec => []EvidenceIsCurrent
<1>1. (verdict = "evidence" => EvidenceIInv)
        => (verdict = "evidence" => Evidence!EvidenceIsCurrent)
  BY DEF EvidenceIInv, Evidence!EvidenceIsCurrent
<1>2. (verdict = "showers" => ShowersIInv)
        => (verdict = "showers" => Showers!OpenShowersAreOwed /\ Showers!RestoresCloseOnce)
  BY DEF ShowersIInv, ShowersOwedIsUnclosed, Showers!RestoresCloseOnce
<1>3. (verdict = "evidence" => EvidenceIInv) /\ (verdict = "showers" => ShowersIInv)
        => EvidenceIsCurrent
  BY <1>1, <1>2 DEF EvidenceIsCurrent
<1> QED
  BY <1>3, EvidenceInvariant, ShowersInvariant, PTL

(***************************************************************************)
(* A qualification rests on pairs that a complete scan has found clean     *)
(* however the past became known (commit_evidence_page,                    *)
(* qualify_prospective); control by a learned forecast on as many passing  *)
(* evaluations of one mode as are required                                 *)
(* (apply_control_gate_hysteresis), scored by what every saved plan of an  *)
(* issue says alike (get_forecast_scorecard); and the heating gate of      *)
(* every configuration on the statuses that were stored under it           *)
(* (transition_gate, resolve_effective_gate).                              *)
(***************************************************************************)
THEOREM QualificationsAreEarned == EvidenceSpec => []QualificationIsEarned
<1>1. (verdict = "proof" => ProofIInv) => (verdict = "proof" => Proof!QualificationIsEarned)
  BY ProofEarnsQualification
<1>2. (verdict = "score" => ScoreIInv)
        => (verdict = "score" => Score!ControlIsEarned /\ Score!EvidenceAgrees)
  BY ScoreEarnsControl, ScoreAgreesInvariantly
<1>3. (verdict = "gate" => GateIInv) => (verdict = "gate" => Gate!GateIsEarned)
  BY GateEarnsGate
<1>4. /\ verdict = "proof" => ProofIInv
      /\ verdict = "score" => ScoreIInv
      /\ verdict = "gate" => GateIInv
      => QualificationIsEarned
  BY <1>1, <1>2, <1>3 DEF QualificationIsEarned
<1> QED
  BY <1>4, ProofInvariant, ScoreInvariant, GateInvariant, PTL

(***************************************************************************)
(* What a request is told was computed for it: of a snapshot for its key,  *)
(* by a generation that was not given up (get_readiness_snapshot); by one  *)
(* model of the sensors in force (get_indoor_forecast, get_thermal_curve); *)
(* and from COP readings that are enough, without hindsight, after edits   *)
(* that saw what they replaced (get_manual_cop, put_manual_cop).           *)
(***************************************************************************)
THEOREM AnswersAreGivenRight == EvidenceSpec => []AnswersAreTheirOwn
<1>1. (verdict = "readiness" => ReadinessIInv)
        => (verdict = "readiness" => Readiness!AnswersAreTheirOwn)
  BY ReadinessAnswersFit
<1>2. (verdict = "serving" => ServingIInv)
        => (verdict = "serving" => Serving!ForecastsAreCurrent)
  BY ServingCurrentForecasts
<1>3. (verdict = "cop" => CopIInv)
        => (verdict = "cop" => /\ Cop!EditsAreSeen /\ Cop!QueriedIsEnough
                               /\ Cop!NoHindsight /\ Cop!PagesListAll)
  BY CopManualRowsAreTheirOwn
<1>4. /\ verdict = "readiness" => ReadinessIInv
      /\ verdict = "serving" => ServingIInv
      /\ verdict = "cop" => CopIInv
      => AnswersAreTheirOwn
  BY <1>1, <1>2, <1>3 DEF AnswersAreTheirOwn
<1> QED
  BY <1>4, ReadinessInvariant, ServingInvariant, CopInvariant, PTL

=============================================================================
