----------------------- MODULE RestoreOwnershipProofs -----------------------
(***************************************************************************)
(* Proofs about RestoreOwnership, for any number of processes, restores,   *)
(* devices and tokens and for every set of faults.                         *)
(***************************************************************************)
EXTENDS RestoreOwnership, TLAPS

LEMMA TypePreserved ==
  ASSUME TypeOK, [Next]_vars
  PROVE  TypeOK'
<1> USE OwnershipAssumption DEF TypeOK, rowVars, procVars, Goto, Aim, Dev, OnlyProgress, Step,
        Working, Status, Unresolved
<1>1. CASE UNCHANGED vars
  BY <1>1 DEF vars
<1>2. ASSUME NEW p \in Process, NEW a \in Action, Acquire(p, a) PROVE TypeOK'
  BY <1>2 DEF Acquire
<1>3. ASSUME NEW p \in Process, NEW t \in Token, Claim(p, t) \/ ClaimUnacknowledged(p, t)
      PROVE  TypeOK'
  <2>1. Bind(p, t) /\ tok' \in [Process -> Token \cup {NoToken}] /\ pc' \in [Process -> Step]
    BY <1>3 DEF Claim, ClaimUnacknowledged
  <2> QED
    BY <2>1 DEF Bind
<1>4. ASSUME NEW p \in Process, TryLock(p) \/ AdmissionFails(p) \/ ClaimRefused(p)
      PROVE  TypeOK'
  BY ZenonT(40), <1>4 DEF TryLock, AdmissionFails, ClaimRefused
<1>5. ASSUME NEW p \in Process,
             Preflight(p) \/ LearningDefers(p) \/ AlreadySafe(p) \/ Authorise(p)
      PROVE  TypeOK'
  BY <1>5 DEF Preflight, LearningDefers, AlreadySafe, Authorise
<1>6. ASSUME NEW p \in Process, Send(p) PROVE TypeOK'
  <2>1. [proc |-> p, act |-> act[p], tok |-> tok[p]] \in Call
    BY DEF Call
  <2>2. calls' \in SUBSET Call
    BY <1>6, <2>1 DEF Send
  <2> QED
    BY <1>6, <2>2 DEF Send
<1>7. ASSUME NEW p \in Process, CallReturns(p) \/ Drain(p) PROVE TypeOK'
  <2>1. calls' \subseteq calls
    BY <1>7 DEF CallReturns, Drain
  <2>2. calls' \in SUBSET Call
    BY <2>1
  <2> QED
    BY <1>7, <2>2 DEF CallReturns, Drain
<1>8. ASSUME NEW p \in Process,
             RecordDispatched(p) \/ Verified(p) \/ Interrupt(p) \/ FenceLossSeen(p)
      PROVE  TypeOK'
  BY ZenonT(40), <1>8 DEF RecordDispatched, Verified, Interrupt, FenceLossSeen, Interruptible
<1>9. ASSUME NEW p \in Process,
             DrainFails(p) \/ Requeue(p) \/ Complete(p) \/ CloseFails(p)
      PROVE  TypeOK'
  BY <1>9 DEF DrainFails, Requeue, Complete, CloseFails
<1>10. ASSUME NEW p \in Process, Unlock(p) \/ UnlockFails(p) PROVE TypeOK'
  <2>1. session' \in [Device -> Process \cup {Nobody}]
    BY <1>10 DEF Unlock, UnlockFails
  <2> QED
    BY <1>10, <2>1 DEF Unlock, UnlockFails
<1>11. ASSUME NEW p \in Process, Unfence(p) PROVE TypeOK'
  <2>1. owned' \in [Process -> SUBSET Device]
    BY <1>11 DEF Unfence
  <2> QED
    BY <1>11, <2>1 DEF Unfence, Forget
<1>12. ASSUME NEW c \in calls, StrandedCallEnds(c) PROVE TypeOK'
  <2>1. calls' \in SUBSET Call
    BY <1>12 DEF StrandedCallEnds
  <2> QED
    BY <1>12, <2>1 DEF StrandedCallEnds
<1>13. ASSUME NEW p \in Process, Crash(p) PROVE TypeOK'
  <2>1. calls' \in SUBSET Call
    BY <1>13 DEF Crash
  <2>2. session' \in [Device -> Process \cup {Nobody}]
    BY <1>13 DEF Crash
  <2> QED
    BY <1>13, <2>1, <2>2 DEF Crash, Forget
<1>14. ASSUME NEW d \in Device, SessionLost(d) PROVE TypeOK'
  BY <1>14 DEF SessionLost
<1>15. ASSUME NEW a \in Action, ShowerReschedule(a) \/ BecomesReady(a) PROVE TypeOK'
  BY <1>15 DEF ShowerReschedule, BecomesReady
<1>16. ASSUME NEW l \in {"active", "inactive", "unknown"}, SetLearning(l) PROVE TypeOK'
  BY <1>16 DEF SetLearning
<1> QED
  BY <1>1, <1>2, <1>3, <1>4, <1>5, <1>6, <1>7, <1>8,
     <1>9, <1>10, <1>11, <1>12, <1>13, <1>14, <1>15, <1>16
     DEF Next, Attempt, Environment

LEMMA TypeInitially == Init => TypeOK
  BY OwnershipAssumption DEF Init, TypeOK, Status, Step, Working, Call

\* Every variable of the executors keeps its type.
THEOREM TypeCorrect == Spec => []TypeOK
  BY TypeInitially, TypePreserved, PTL DEF Spec

-----------------------------------------------------------------------------
(***************************************************************************)
(* The ownership invariant, one lemma per action or group of actions that  *)
(* disturb the same parts of it.                                           *)
(***************************************************************************)

\* Steps that move one attempt along: no row, token or attempt changes, calls
\* only end, sessions are only given up, and the attempt does not re-enter a
\* stage that promises more.
LEMMA ProgressStep ==
  ASSUME OwnershipInv, TypeOK', NEW p \in Process,
         UNCHANGED <<status, token, proven, owned, act, tok>>,
         calls' \subseteq calls,
         \A d \in Device : session'[d] \in {session[d], Nobody},
         \A q \in Process : stuck[q] => stuck'[q],
         \A q \in Process : q # p => pc'[q] = pc[q],
         pc'[p] \in Working => pc[p] \in Working,
         pc'[p] \notin {"idle", "admitting", "fenced"},
         pc[p] # "idle",
         pc'[p] \in {"claimed", "cleared", "authorised", "closing"} =>
           \/ pc[p] \in {"claimed", "cleared", "authorised", "closing"}
           \/ \A c \in calls' : c.tok # tok[p],
         pc'[p] = "unlocked" => stuck'[p] \/ session'[Dev(p)] # p
  PROVE  OwnershipInv'
<1> USE OwnershipAssumption DEF OwnershipInv
<1>1. CallsAreClaimed'
  BY DEF CallsAreClaimed
<1>2. WorkersAreClaimed'
  BY DEF WorkersAreClaimed
<1>3. TokensIdentify'
  BY DEF TokensIdentify
<1>4. WorkersAreAlone'
  BY DEF WorkersAreAlone, OneWorkerPerDevice, OneCallPerDevice, Dev
<1>5. FencesNested'
  <2>1. FenceReleasedInOrder'
    BY DEF FencesNested, FenceReleasedInOrder, TypeOK
  <2>2. ASSUME NEW q \in Process
        PROVE  /\ pc'[q] # "idle" => Dev(q)' \in owned'[q]
               /\ pc'[q] = "unlocked" /\ session'[Dev(q)'] = q => stuck'[q]
    <3>1. Dev(q)' = Dev(q) /\ (pc[q] # "idle" => Dev(q) \in Device)
      BY DEF FencesNested, Dev, TypeOK
    <3>2. pc[q] # "idle" /\ session'[Dev(q)] = q => session[Dev(q)] = q
      BY <3>1
    <3> QED
      BY <3>1, <3>2 DEF FencesNested
  <2> QED
    BY <2>1, <2>2 DEF FencesNested
<1> QED
  BY <1>1, <1>2, <1>3, <1>4, <1>5

\* Steps outside every attempt: calls end, sessions are lost, drainage evidence
\* is wiped.
LEMMA OutsideStep ==
  ASSUME OwnershipInv, TypeOK',
         UNCHANGED <<status, token, owned, pc, act, tok, stuck>>,
         calls' \subseteq calls,
         \A a \in Action : proven'[a] => proven[a],
         \A d \in Device : session'[d] \in {session[d], Nobody}
  PROVE  OwnershipInv'
<1> USE OwnershipAssumption DEF OwnershipInv, TypeOK
<1>1. CallsAreClaimed'
  BY DEF CallsAreClaimed, Call
<1>2. WorkersAreClaimed'
  BY DEF WorkersAreClaimed
<1>3. TokensIdentify'
  BY DEF TokensIdentify
<1>4. WorkersAreAlone'
  BY DEF WorkersAreAlone, OneWorkerPerDevice, OneCallPerDevice, Dev
<1>5. FencesNested'
  BY DEF FencesNested, FenceReleasedInOrder, Dev
<1> QED
  BY <1>1, <1>2, <1>3, <1>4, <1>5

LEMMA AcquireStep ==
  ASSUME OwnershipInv, TypeOK', NEW p \in Process, NEW a \in Action, Acquire(p, a)
  PROVE  OwnershipInv'
<1> USE DEF OwnershipInv, TypeOK
<1>0. /\ UNCHANGED <<status, token, proven, session, tok, calls>>
      /\ pc' = [pc EXCEPT ![p] = "admitting"]
      /\ act' = [act EXCEPT ![p] = a]
      /\ owned' = [owned EXCEPT ![p] = @ \cup {DeviceOf[a]}]
      /\ stuck' = [stuck EXCEPT ![p] = FALSE]
      /\ pc[p] = "idle"
  BY DEF Acquire, Goto, rowVars
<1>1. CallsAreClaimed'
  BY <1>0 DEF CallsAreClaimed
<1>2. WorkersAreClaimed'
  BY <1>0 DEF WorkersAreClaimed, Working
<1>3. TokensIdentify'
  BY <1>0 DEF TokensIdentify
<1>4. WorkersAreAlone'
  BY <1>0 DEF WorkersAreAlone, OneWorkerPerDevice, OneCallPerDevice, Dev, Working
<1>5. FencesNested'
  <2>1. FenceReleasedInOrder'
    BY <1>0 DEF FencesNested, FenceReleasedInOrder
  <2>2. ASSUME NEW q \in Process
        PROVE  /\ pc'[q] # "idle" => Dev(q)' \in owned'[q]
               /\ pc'[q] = "unlocked" /\ session'[Dev(q)'] = q => stuck'[q]
    BY <1>0, <2>2 DEF FencesNested, Dev
  <2> QED
    BY <2>1, <2>2 DEF FencesNested
<1> QED
  BY <1>1, <1>2, <1>3, <1>4, <1>5

LEMMA TryLockStep ==
  ASSUME OwnershipInv, TypeOK', NEW p \in Process, TryLock(p)
  PROVE  OwnershipInv'
<1> USE DEF OwnershipInv, TypeOK
<1>0. /\ UNCHANGED <<status, token, proven, owned, act, tok, stuck, calls>>
      /\ pc' = [pc EXCEPT ![p] = pc'[p]]
      /\ pc[p] = "admitting"
      /\ pc'[p] \in {"fenced", "releasing"}
  BY DEF TryLock, Goto, rowVars
<1>1. CallsAreClaimed'
  BY <1>0 DEF CallsAreClaimed
<1>2. WorkersAreClaimed'
  BY <1>0 DEF WorkersAreClaimed, Working
<1>3. TokensIdentify'
  BY <1>0 DEF TokensIdentify
<1>4. WorkersAreAlone'
  BY <1>0 DEF WorkersAreAlone, OneWorkerPerDevice, OneCallPerDevice, Dev, Working
<1>5. FencesNested'
  <2>0. Dev(p) \in owned[p]
    BY <1>0 DEF FencesNested
  <2>1. ASSUME NEW d \in Device
        PROVE  session'[d] = session[d] \/ (d = Dev(p) /\ session'[d] = p)
    <3>1. session' = session \/ session' = [session EXCEPT ![Dev(p)] = p]
      BY DEF TryLock
    <3> QED
      BY <3>1
  <2>2. FenceReleasedInOrder'
    BY <1>0, <2>0, <2>1 DEF FencesNested, FenceReleasedInOrder
  <2>3. ASSUME NEW q \in Process
        PROVE  /\ pc'[q] # "idle" => Dev(q)' \in owned'[q]
               /\ pc'[q] = "unlocked" /\ session'[Dev(q)'] = q => stuck'[q]
    <3>1. Dev(q)' = Dev(q) /\ (pc[q] # "idle" => Dev(q) \in Device)
      BY <1>0 DEF FencesNested, Dev
    <3>2. CASE q = p
      BY <1>0, <2>0, <3>1, <3>2
    <3>3. CASE q # p
      <4>1. pc'[q] = pc[q]
        BY <1>0, <3>3
      <4>2. pc[q] # "idle" /\ session'[Dev(q)] = q => session[Dev(q)] = q
        BY <2>1, <3>1, <3>3
      <4> QED
        BY <1>0, <3>1, <4>1, <4>2 DEF FencesNested
    <3> QED
      BY <3>2, <3>3
  <2> QED
    BY <2>2, <2>3 DEF FencesNested
<1> QED
  BY <1>1, <1>2, <1>3, <1>4, <1>5

\* A fresh token for an admissible row of the device that p has fenced.
LEMMA BindStep ==
  ASSUME OwnershipInv, TypeOK', NEW p \in Process, NEW t \in Token,
         Claim(p, t) \/ ClaimUnacknowledged(p, t)
  PROVE  OwnershipInv'
<1> USE OwnershipAssumption DEF OwnershipInv, TypeOK
<1> DEFINE a == act[p]
           d == DeviceOf[a]
<1>0. /\ status' = [status EXCEPT ![a] = "executing"]
      /\ token' = [token EXCEPT ![a] = t]
      /\ proven' = [proven EXCEPT ![a] = FALSE]
      /\ UNCHANGED <<session, owned, act, stuck, calls>>
      /\ pc[p] = "fenced"
      /\ Admissible(a) /\ Fresh(t)
      /\ \/ pc' = [pc EXCEPT ![p] = "claimed"] /\ tok' = [tok EXCEPT ![p] = t]
         \/ pc' = [pc EXCEPT ![p] = "releasing"] /\ tok' = tok
  BY DEF Claim, ClaimUnacknowledged, Bind, Goto
<1>1. t # NoToken /\ a \in Action /\ tok[p] = NoToken
  BY <1>0 DEF TokensIdentify
<1>2. ASSUME NEW b \in Action, status[b] \in {"executing", "dispatched"}, ~proven[b]
      PROVE  DeviceOf[b] # d /\ b # a
  <2>1. b \notin Actors(d)
    BY <1>0, <1>2 DEF Admissible, ConfirmedDrain
  <2> QED
    BY <1>2, <2>1 DEF Actors
<1>3. \A c \in calls : c.act \in Action /\ DeviceOf[c.act] # d /\ c.act # a /\ c.tok # t
  BY <1>0, <1>2 DEF CallsAreClaimed, Fresh, Call
<1>4. \A q \in Process : pc[q] \in Working => Dev(q) # d /\ act[q] # a /\ q # p
  BY <1>0, <1>2 DEF WorkersAreClaimed, Dev, Working
<1>5. CallsAreClaimed'
  BY <1>0, <1>1, <1>3 DEF CallsAreClaimed
<1>6. WorkersAreClaimed'
  <2> SUFFICES ASSUME NEW q \in Process, pc'[q] \in Working
               PROVE  /\ tok'[q] # NoToken
                      /\ token'[act'[q]] = tok'[q]
                      /\ status'[act'[q]] \in {"executing", "dispatched"}
                      /\ ~proven'[act'[q]]
    BY DEF WorkersAreClaimed
  <2>1. CASE q = p
    BY <1>0, <1>1, <2>1 DEF Working
  <2>2. CASE q # p
    BY <1>0, <1>4, <2>2 DEF WorkersAreClaimed
  <2> QED
    BY <2>1, <2>2
<1>7. TokensIdentify'
  <2>1. \A b, e \in Action : token'[b] = token'[e] /\ token'[b] # NoToken => b = e
    BY <1>0, <1>1 DEF TokensIdentify, Fresh
  <2>2. \A q, r \in Process : tok'[q] = tok'[r] /\ tok'[q] # NoToken => q = r
    BY <1>0, <1>1 DEF TokensIdentify, Fresh
  <2>3. \A c \in calls', q \in Process : tok'[q] = c.tok => c.proc = q
    BY <1>0, <1>1, <1>3 DEF TokensIdentify
  <2>4. \A q \in Process : pc'[q] \in {"idle", "admitting", "fenced"} => tok'[q] = NoToken
    BY <1>0 DEF TokensIdentify
  <2> QED
    BY <2>1, <2>2, <2>3, <2>4 DEF TokensIdentify
<1>8. WorkersAreAlone'
  <2>1. \A q \in Process : q # p => pc'[q] = pc[q] /\ tok'[q] = tok[q]
    BY <1>0
  <2>2. pc'[p] \in Working => tok'[p] = t /\ pc'[p] = "claimed"
    BY <1>0 DEF Working
  <2>3. OneWorkerPerDevice'
    BY <1>0, <1>4, <2>1 DEF WorkersAreAlone, OneWorkerPerDevice, Dev
  <2>4. OneCallPerDevice'
    BY <1>0 DEF WorkersAreAlone, OneCallPerDevice
  <2>5. \A q \in Process, c \in calls' :
          pc'[q] \in Working /\ DeviceOf[c.act] = Dev(q)' => c.tok = tok'[q]
    BY <1>0, <1>3, <2>1 DEF WorkersAreAlone, Dev
  <2>6. \A q \in Process, c \in calls' :
          pc'[q] \in {"claimed", "cleared", "authorised", "closing"} => c.tok # tok'[q]
    BY <1>0, <1>3, <2>1, <2>2 DEF WorkersAreAlone, Working
  <2> QED
    BY <2>3, <2>4, <2>5, <2>6 DEF WorkersAreAlone
<1>9. FencesNested'
  BY <1>0 DEF FencesNested, FenceReleasedInOrder, Dev
<1> QED
  BY <1>5, <1>6, <1>7, <1>8, <1>9

LEMMA SendStep ==
  ASSUME OwnershipInv, TypeOK', NEW p \in Process, Send(p)
  PROVE  OwnershipInv'
<1> USE DEF OwnershipInv, TypeOK
<1> DEFINE new == [proc |-> p, act |-> act[p], tok |-> tok[p]]
<1>0. /\ UNCHANGED <<status, token, proven, session, owned, act, tok, stuck>>
      /\ pc[p] = "authorised"
      /\ pc' = [pc EXCEPT ![p] = "calling"]
      /\ calls' = calls \cup {new}
  BY DEF Send, Goto, OnlyProgress, rowVars
<1>1. /\ tok[p] # NoToken
      /\ token[act[p]] = tok[p]
      /\ status[act[p]] \in {"executing", "dispatched"}
      /\ ~proven[act[p]]
  BY <1>0 DEF WorkersAreClaimed, Working
<1>2. \A c \in calls : DeviceOf[c.act] # Dev(p) /\ c.tok # tok[p]
  BY <1>0 DEF WorkersAreAlone, Working
<1>3. CallsAreClaimed'
  BY <1>0, <1>1 DEF CallsAreClaimed
<1>4. WorkersAreClaimed'
  BY <1>0 DEF WorkersAreClaimed, Working
<1>5. TokensIdentify'
  <2>1. \A c \in calls', q \in Process : tok'[q] = c.tok => c.proc = q
    BY <1>0, <1>1 DEF TokensIdentify
  <2> QED
    BY <1>0, <2>1 DEF TokensIdentify
<1>6. WorkersAreAlone'
  <2>1. OneWorkerPerDevice'
    BY <1>0 DEF WorkersAreAlone, OneWorkerPerDevice, Dev, Working
  <2>2. OneCallPerDevice'
    BY <1>0, <1>2 DEF WorkersAreAlone, OneCallPerDevice, Dev
  <2>3. ASSUME NEW q \in Process, NEW c \in calls',
               pc'[q] \in Working, DeviceOf[c.act] = Dev(q)'
        PROVE  c.tok = tok'[q]
    <3>1. pc[q] \in Working /\ Dev(q)' = Dev(q)
      BY <1>0, <2>3 DEF Working, Dev
    <3>2. CASE c \in calls
      BY <1>0, <2>3, <3>1, <3>2 DEF WorkersAreAlone
    <3>3. CASE c = new
      <4>1. Dev(q) = Dev(p)
        BY <2>3, <3>1, <3>3 DEF Dev
      <4>2. q = p
        BY <1>0, <3>1, <4>1 DEF WorkersAreAlone, OneWorkerPerDevice, Working
      <4> QED
        BY <1>0, <3>3, <4>2
    <3> QED
      BY <1>0, <3>2, <3>3
  <2>4. ASSUME NEW q \in Process, NEW c \in calls',
               pc'[q] \in {"claimed", "cleared", "authorised", "closing"}
        PROVE  c.tok # tok'[q]
    <3>1. q # p /\ pc[q] = pc'[q]
      BY <1>0, <2>4
    <3>2. tok[q] # tok[p]
      BY <1>1, <3>1 DEF TokensIdentify
    <3> QED
      BY <1>0, <2>4, <3>1, <3>2 DEF WorkersAreAlone
  <2> QED
    BY <2>1, <2>2, <2>3, <2>4 DEF WorkersAreAlone
<1>7. FencesNested'
  BY <1>0 DEF FencesNested, FenceReleasedInOrder, Dev
<1> QED
  BY <1>3, <1>4, <1>5, <1>6, <1>7

\* A step of p that rewrites the row it has claimed and may then end its work.
LEMMA RowStep ==
  ASSUME OwnershipInv, TypeOK', NEW p \in Process,
         RecordDispatched(p) \/ Requeue(p) \/ Complete(p)
  PROVE  OwnershipInv'
<1> USE DEF OwnershipInv, TypeOK
<1> DEFINE a == act[p]
<1>0. /\ UNCHANGED <<token, session, owned, act, tok, stuck, calls>>
      /\ pc[p] \in {"settled", "closing"}
      /\ \A b \in Action : b # a => status'[b] = status[b] /\ proven'[b] = proven[b]
      /\ \A q \in Process : q # p => pc'[q] = pc[q]
  BY DEF RecordDispatched, Requeue, Complete, Goto
<1>1. \/ /\ pc[p] = "settled" /\ pc'[p] = "verifying"
         /\ status'[a] = "dispatched" /\ proven'[a] = proven[a]
      \/ pc[p] = "closing" /\ pc'[p] = "releasing"
  BY DEF RecordDispatched, Requeue, Complete, Goto
<1>2. tok[p] # NoToken /\ token[a] = tok[p] /\ ~proven[a]
  BY <1>0 DEF WorkersAreClaimed, Working
<1>3. \A c \in calls : c.act = a => c.tok = tok[p]
  BY <1>2 DEF CallsAreClaimed
<1>4. \A q \in Process : q # p /\ pc[q] \in Working => act[q] # a
  BY <1>2 DEF WorkersAreClaimed, TokensIdentify
<1>5. CallsAreClaimed'
  <2> SUFFICES ASSUME NEW c \in calls
               PROVE  /\ status'[c.act] \in {"executing", "dispatched"}
                      /\ ~proven'[c.act]
    BY <1>0 DEF CallsAreClaimed
  <2>1. c.act \in Action
    BY DEF Call
  <2>2. CASE c.act # a
    BY <1>0, <2>1, <2>2 DEF CallsAreClaimed
  <2>3. CASE c.act = a
    <3>1. pc[p] # "closing"
      BY <1>3, <2>3 DEF WorkersAreAlone
    <3> QED
      BY <1>1, <1>2, <2>3, <3>1
  <2> QED
    BY <2>2, <2>3
<1>6. WorkersAreClaimed'
  <2> SUFFICES ASSUME NEW q \in Process, pc'[q] \in Working
               PROVE  /\ tok[q] # NoToken
                      /\ token[act[q]] = tok[q]
                      /\ status'[act[q]] \in {"executing", "dispatched"}
                      /\ ~proven'[act[q]]
    BY <1>0 DEF WorkersAreClaimed
  <2>1. CASE q = p
    BY <1>1, <1>2, <2>1 DEF Working
  <2>2. CASE q # p
    BY <1>0, <1>4, <2>2 DEF WorkersAreClaimed
  <2> QED
    BY <2>1, <2>2
<1>7. TokensIdentify'
  BY <1>0, <1>1 DEF TokensIdentify
<1>8. WorkersAreAlone'
  <2>1. \A q \in Process : /\ pc'[q] \in Working => pc[q] \in Working
                           /\ pc'[q] # pc[q] =>
                                pc'[q] \notin {"claimed", "cleared", "authorised", "closing"}
    BY <1>0, <1>1 DEF Working
  <2> QED
    BY <1>0, <2>1 DEF WorkersAreAlone, OneWorkerPerDevice, OneCallPerDevice, Dev
<1>9. FencesNested'
  BY <1>0, <1>1 DEF FencesNested, FenceReleasedInOrder, Dev
<1> QED
  BY <1>5, <1>6, <1>7, <1>8, <1>9

LEMMA UnfenceStep ==
  ASSUME OwnershipInv, TypeOK', NEW p \in Process, Unfence(p)
  PROVE  OwnershipInv'
<1> USE OwnershipAssumption DEF OwnershipInv, TypeOK
<1>0. /\ UNCHANGED <<status, token, proven, session, act, stuck, calls>>
      /\ pc[p] = "unlocked"
      /\ pc' = [pc EXCEPT ![p] = "idle"]
      /\ tok' = [tok EXCEPT ![p] = NoToken]
      /\ owned' = [owned EXCEPT ![p] = IF stuck[p] THEN @ ELSE @ \ {Dev(p)}]
  BY DEF Unfence, Forget, Goto, rowVars
<1>1. CallsAreClaimed'
  BY <1>0 DEF CallsAreClaimed
<1>2. WorkersAreClaimed'
  BY <1>0 DEF WorkersAreClaimed, Working
<1>3. TokensIdentify'
  <2>1. \A c \in calls : c.tok # NoToken
    BY DEF CallsAreClaimed
  <2> QED
    BY <1>0, <2>1 DEF TokensIdentify
<1>4. WorkersAreAlone'
  BY <1>0 DEF WorkersAreAlone, OneWorkerPerDevice, OneCallPerDevice, Dev, Working
<1>5. FencesNested'
  <2>1. ASSUME NEW d \in Device, session[d] # Nobody
        PROVE  d \in owned'[session[d]]
    <3>1. session[d] \in Process /\ d \in owned[session[d]]
      BY <2>1 DEF FencesNested, FenceReleasedInOrder
    <3>2. CASE session[d] # p
      BY <1>0, <3>1, <3>2
    <3>3. CASE session[d] = p /\ d # Dev(p)
      BY <1>0, <3>1, <3>3
    <3>4. CASE session[d] = p /\ d = Dev(p)
      BY <1>0, <3>1, <3>4 DEF FencesNested
    <3> QED
      BY <3>2, <3>3, <3>4
  <2>2. FenceReleasedInOrder'
    BY <1>0, <2>1 DEF FenceReleasedInOrder
  <2>3. ASSUME NEW q \in Process
        PROVE  /\ pc'[q] # "idle" => Dev(q)' \in owned'[q]
               /\ pc'[q] = "unlocked" /\ session'[Dev(q)'] = q => stuck'[q]
    BY <1>0 DEF FencesNested, Dev
  <2> QED
    BY <2>2, <2>3 DEF FencesNested
<1> QED
  BY <1>1, <1>2, <1>3, <1>4, <1>5

LEMMA CrashStep ==
  ASSUME OwnershipInv, TypeOK', NEW p \in Process, Crash(p)
  PROVE  OwnershipInv'
<1> USE OwnershipAssumption DEF OwnershipInv, TypeOK
<1>0. /\ UNCHANGED <<status, token, proven, act>>
      /\ session' = [d \in Device |-> IF session[d] = p THEN Nobody ELSE session[d]]
      /\ pc' = [pc EXCEPT ![p] = "idle"]
      /\ tok' = [tok EXCEPT ![p] = NoToken]
      /\ owned' = [owned EXCEPT ![p] = {}]
      /\ stuck' = [stuck EXCEPT ![p] = FALSE]
      /\ calls' \subseteq calls
  BY DEF Crash, Forget, Goto, rowVars
<1>1. CallsAreClaimed'
  BY <1>0 DEF CallsAreClaimed
<1>2. WorkersAreClaimed'
  BY <1>0 DEF WorkersAreClaimed, Working
<1>3. TokensIdentify'
  <2>1. \A c \in calls' : c.tok # NoToken
    BY <1>0 DEF CallsAreClaimed
  <2> QED
    BY <1>0, <2>1 DEF TokensIdentify
<1>4. WorkersAreAlone'
  BY <1>0 DEF WorkersAreAlone, OneWorkerPerDevice, OneCallPerDevice, Dev, Working
<1>5. FencesNested'
  <2>1. FenceReleasedInOrder'
    BY <1>0 DEF FencesNested, FenceReleasedInOrder
  <2>2. ASSUME NEW q \in Process, pc'[q] # "idle"
        PROVE  /\ Dev(q)' \in owned'[q]
               /\ pc'[q] = "unlocked" /\ session'[Dev(q)'] = q => stuck'[q]
    <3>1. q # p /\ pc'[q] = pc[q] /\ owned'[q] = owned[q] /\ stuck'[q] = stuck[q]
      BY <1>0, <2>2
    <3>2. Dev(q)' = Dev(q) /\ Dev(q) \in owned[q] /\ Dev(q) \in Device
      BY <1>0, <2>2, <3>1 DEF FencesNested, Dev
    <3>3. session'[Dev(q)] = q => session[Dev(q)] = q
      BY <1>0, <3>2
    <3> QED
      BY <3>1, <3>2, <3>3 DEF FencesNested
  <2> QED
    BY <2>1, <2>2 DEF FencesNested
<1> QED
  BY <1>1, <1>2, <1>3, <1>4, <1>5

LEMMA OwnershipInitially == Init => OwnershipInv
<1> SUFFICES ASSUME Init PROVE OwnershipInv
  OBVIOUS
<1>1. TypeOK
  BY TypeInitially
<1>2. FencesNested
  BY OwnershipAssumption DEF Init, FencesNested, FenceReleasedInOrder, Dev
<1> QED
  BY <1>1, <1>2 DEF Init, OwnershipInv, CallsAreClaimed, WorkersAreClaimed, TokensIdentify,
     WorkersAreAlone, OneWorkerPerDevice, OneCallPerDevice, Working

LEMMA OwnershipPreserved ==
  ASSUME OwnershipInv, [Next]_vars
  PROVE  OwnershipInv'
<1> USE DEF rowVars, procVars, Goto, Aim, OnlyProgress
<1>0. TypeOK /\ TypeOK'
  BY TypePreserved DEF OwnershipInv
<1>1. CASE UNCHANGED vars
  BY <1>0, <1>1, OutsideStep DEF vars
<1>2. ASSUME NEW p \in Process, NEW a \in Action, Acquire(p, a) PROVE OwnershipInv'
  BY <1>0, <1>2, AcquireStep
<1>3. ASSUME NEW p \in Process, NEW t \in Token, Claim(p, t) \/ ClaimUnacknowledged(p, t)
      PROVE  OwnershipInv'
  BY <1>0, <1>3, BindStep
<1>4. ASSUME NEW p \in Process, TryLock(p) PROVE OwnershipInv'
  BY <1>0, <1>4, TryLockStep
<1>5. ASSUME NEW p \in Process, Send(p) PROVE OwnershipInv'
  BY <1>0, <1>5, SendStep
<1>6. ASSUME NEW p \in Process, AdmissionFails(p) \/ ClaimRefused(p) PROVE OwnershipInv'
  <2>1. /\ UNCHANGED <<status, token, proven, owned, act, tok, session, calls>>
        /\ pc[p] \in {"admitting", "fenced"} /\ pc'[p] = "releasing"
        /\ \A q \in Process : q # p => pc'[q] = pc[q]
        /\ \A q \in Process : stuck[q] => stuck'[q]
    BY <1>0, <1>6 DEF AdmissionFails, ClaimRefused, TypeOK
  <2> QED
    BY <1>0, <2>1, ProgressStep DEF Working
<1>7. ASSUME NEW p \in Process,
             \/ Preflight(p) \/ LearningDefers(p) \/ AlreadySafe(p) \/ Authorise(p)
             \/ Verified(p) \/ Interrupt(p)
      PROVE  OwnershipInv'
  <2>1. /\ UNCHANGED <<status, token, proven, owned, act, tok, session, stuck, calls>>
        /\ pc[p] \in Interruptible
        /\ \/ pc'[p] \in {"draining"}
           \/ pc[p] = "claimed" /\ pc'[p] = "cleared"
           \/ pc[p] = "cleared" /\ pc'[p] = "authorised"
        /\ \A q \in Process : q # p => pc'[q] = pc[q]
    BY <1>0, <1>7 DEF Preflight, LearningDefers, AlreadySafe, Authorise, Verified, Interrupt,
       Interruptible, TypeOK
  <2> QED
    BY <1>0, <2>1, ProgressStep DEF Working, Interruptible
<1>8. ASSUME NEW p \in Process, CallReturns(p) \/ Drain(p) PROVE OwnershipInv'
  <2>1. /\ UNCHANGED <<status, token, proven, owned, act, tok, session, stuck>>
        /\ calls' = {c \in calls : ~(c.proc = p /\ c.tok = tok[p])}
        /\ pc[p] \in {"calling", "draining"}
        /\ pc'[p] \in {"settled", "closing", "releasing"}
        /\ \A q \in Process : q # p => pc'[q] = pc[q]
    BY <1>0, <1>8 DEF CallReturns, Drain, TypeOK
  <2>2. \A c \in calls' : c.tok # tok[p]
    BY <2>1 DEF OwnershipInv, TokensIdentify
  <2> QED
    BY <1>0, <2>1, <2>2, ProgressStep DEF Working
<1>9. ASSUME NEW p \in Process, FenceLossSeen(p) \/ DrainFails(p) \/ CloseFails(p)
      PROVE  OwnershipInv'
  <2>1. /\ UNCHANGED <<status, token, proven, owned, act, tok, session, calls>>
        /\ pc[p] \in Interruptible \cup {"draining", "closing"}
        /\ \/ pc'[p] \in {"releasing", "draining"}
           \/ pc[p] = "closing" /\ pc'[p] = "closing"
        /\ \A q \in Process : q # p => pc'[q] = pc[q]
        /\ \A q \in Process : stuck[q] => stuck'[q]
    BY <1>0, <1>9 DEF FenceLossSeen, DrainFails, CloseFails, Interruptible, TypeOK
  <2> QED
    BY <1>0, <2>1, ProgressStep DEF Working, Interruptible
<1>10. ASSUME NEW p \in Process, RecordDispatched(p) \/ Requeue(p) \/ Complete(p)
       PROVE  OwnershipInv'
  BY <1>0, <1>10, RowStep
<1>11. ASSUME NEW p \in Process, Unlock(p) \/ UnlockFails(p) PROVE OwnershipInv'
  <2>1. /\ UNCHANGED <<status, token, proven, owned, act, tok, calls>>
        /\ pc[p] = "releasing" /\ pc'[p] = "unlocked"
        /\ \A q \in Process : q # p => pc'[q] = pc[q]
        /\ \A q \in Process : stuck[q] => stuck'[q]
    BY <1>0, <1>11 DEF Unlock, UnlockFails, TypeOK
  <2>2. Dev(p) \in Device
    BY <1>0, <2>1 DEF OwnershipInv, FencesNested, TypeOK
  <2>3. /\ \A d \in Device : session'[d] \in {session[d], Nobody}
        /\ stuck'[p] \/ session'[Dev(p)] # p
    BY <1>0, <1>11, <2>2, OwnershipAssumption DEF Unlock, UnlockFails, TypeOK
  <2> QED
    BY <1>0, <2>1, <2>3, ProgressStep DEF Working
<1>12. ASSUME NEW p \in Process, Unfence(p) PROVE OwnershipInv'
  BY <1>0, <1>12, UnfenceStep
<1>13. ASSUME NEW p \in Process, Crash(p) PROVE OwnershipInv'
  BY <1>0, <1>13, CrashStep
<1>14. ASSUME NEW c \in calls, StrandedCallEnds(c) PROVE OwnershipInv'
  BY <1>0, <1>14, OutsideStep DEF StrandedCallEnds
<1>15. ASSUME NEW d \in Device, SessionLost(d) PROVE OwnershipInv'
  <2>1. \A e \in Device : session'[e] \in {session[e], Nobody}
    BY <1>0, <1>15 DEF SessionLost, TypeOK
  <2> QED
    BY <1>0, <1>15, <2>1, OutsideStep DEF SessionLost
<1>16. ASSUME NEW a \in Action, ShowerReschedule(a) \/ BecomesReady(a) PROVE OwnershipInv'
  <2>1. \A b \in Action : proven'[b] => proven[b]
    BY <1>0, <1>16 DEF ShowerReschedule, BecomesReady, TypeOK
  <2> QED
    BY <1>0, <1>16, <2>1, OutsideStep DEF ShowerReschedule, BecomesReady
<1>17. ASSUME NEW l \in {"active", "inactive", "unknown"}, SetLearning(l) PROVE OwnershipInv'
  BY <1>0, <1>17, OutsideStep DEF SetLearning
<1> QED
  BY <1>1, <1>2, <1>3, <1>4, <1>5, <1>6, <1>7, <1>8, <1>9, <1>10, <1>11, <1>12, <1>13,
     <1>14, <1>15, <1>16, <1>17
     DEF Next, Attempt, Environment

\* The inductive invariant holds of every execution.
THEOREM Ownership == Spec => []OwnershipInv
  BY OwnershipInitially, OwnershipPreserved, PTL DEF Spec

-----------------------------------------------------------------------------
(***************************************************************************)
(* What the invariant gives.                                               *)
(***************************************************************************)

\* Over all processes, at most one SDK restore call is in progress for a
\* device, whatever crashes, lost sessions and undrained calls there are.
THEOREM OneCall == Spec => []OneCallPerDevice
<1>1. OwnershipInv => OneCallPerDevice
  BY DEF OwnershipInv, WorkersAreAlone
<1> QED
  BY <1>1, Ownership, PTL

\* At most one attempt works on a device.
THEOREM OneWorker == Spec => []OneWorkerPerDevice
<1>1. OwnershipInv => OneWorkerPerDevice
  BY DEF OwnershipInv, WorkersAreAlone
<1> QED
  BY <1>1, Ownership, PTL

\* Drainage evidence is never written for, nor left to, an owner that can act.
THEOREM DrainProofTrue == Spec => []DrainProofIsTrue
<1>1. OwnershipInv => DrainProofIsTrue
  <2> SUFFICES ASSUME OwnershipInv, NEW a \in Action, ConfirmedDrain(a)
               PROVE  /\ \A c \in calls : c.tok # token[a]
                      /\ \A p \in Process : pc[p] \in Working => tok[p] # token[a]
    BY DEF DrainProofIsTrue
  <2>1. \A c \in calls : c.tok # token[a]
    BY DEF ConfirmedDrain, OwnershipInv, CallsAreClaimed, TokensIdentify, TypeOK, Call
  <2>2. \A p \in Process : pc[p] \in Working => tok[p] # token[a]
    BY DEF ConfirmedDrain, OwnershipInv, WorkersAreClaimed, TokensIdentify, TypeOK
  <2> QED
    BY <2>1, <2>2
<1> QED
  BY <1>1, Ownership, PTL

\* A settled restore has no call and no attempt.
THEOREM SettledQuiet == Spec => []SettledIsQuiet
<1>1. OwnershipInv => SettledIsQuiet
  BY DEF OwnershipInv, CallsAreClaimed, WorkersAreClaimed, SettledIsQuiet
<1> QED
  BY <1>1, Ownership, PTL

\* No process gives up its device fence before the session lock.
THEOREM FencesInOrder == Spec => []FenceReleasedInOrder
<1>1. OwnershipInv => FenceReleasedInOrder
  BY DEF OwnershipInv, FencesNested
<1> QED
  BY <1>1, Ownership, PTL

\* Nobody takes a row over, by age or otherwise, from an owner that may act.
THEOREM NoTakeover == Spec => NoTakeoverWhileActing
<1> DEFINE Quietly ==
      \A a \in Action : token'[a] # token[a] =>
        /\ \A c \in calls : DeviceOf[c.act] # DeviceOf[a]
        /\ \A p \in Process : pc[p] \in Working => Dev(p) # DeviceOf[a]
<1>1. OwnershipInv /\ [Next]_vars => [Quietly]_vars
  <2> SUFFICES ASSUME OwnershipInv, Next PROVE Quietly
    OBVIOUS
  <2>1. ASSUME NEW p \in Process, NEW t \in Token, Claim(p, t) \/ ClaimUnacknowledged(p, t)
        PROVE  Quietly
    <3> SUFFICES ASSUME NEW a \in Action, token'[a] # token[a]
                 PROVE  /\ \A c \in calls : DeviceOf[c.act] # DeviceOf[a]
                        /\ \A q \in Process : pc[q] \in Working => Dev(q) # DeviceOf[a]
      OBVIOUS
    <3>1. a = act[p] /\ Admissible(a)
      BY <2>1 DEF Claim, ClaimUnacknowledged, Bind, OwnershipInv, TypeOK
    <3>2. ASSUME NEW b \in Action, status[b] \in {"executing", "dispatched"}, ~proven[b]
          PROVE  DeviceOf[b] # DeviceOf[a]
      <4>1. b \notin Actors(DeviceOf[a])
        BY <3>1, <3>2 DEF Admissible, ConfirmedDrain
      <4> QED
        BY <3>2, <4>1 DEF Actors
    <3> QED
      BY <3>2 DEF OwnershipInv, TypeOK, Call, CallsAreClaimed, WorkersAreClaimed, Dev
  <2>2. ASSUME NEW p \in Process, Attempt(p),
               ~(\E t \in Token : Claim(p, t) \/ ClaimUnacknowledged(p, t))
        PROVE  token' = token
    BY <2>2 DEF Attempt, Acquire, TryLock, AdmissionFails, ClaimRefused, Preflight,
       LearningDefers, AlreadySafe, Authorise, Send, CallReturns, RecordDispatched, Verified,
       Interrupt, FenceLossSeen, Drain, DrainFails, Requeue, Complete, CloseFails, Unlock,
       UnlockFails, Unfence, OnlyProgress, rowVars
  <2>3. ASSUME Environment PROVE token' = token
    BY <2>3 DEF Environment, StrandedCallEnds, Crash, SessionLost, ShowerReschedule,
       BecomesReady, SetLearning, rowVars
  <2> QED
    BY <2>1, <2>2, <2>3 DEF Next
<1> QED
  BY <1>1, Ownership, PTL DEF Spec, NoTakeoverWhileActing

\* Nothing is claimed for a device one of whose rows has an owner nobody can
\* name, nor anywhere while the device of such a row is unknown.
THEOREM LegacyFences == Spec => []LegacyRowFencesItsDevice
<1>1. Init => LegacyRowFencesItsDevice
  BY DEF Init, LegacyRowFencesItsDevice, Working
<1>2. OwnershipInv /\ LegacyRowFencesItsDevice /\ [Next]_vars => LegacyRowFencesItsDevice'
  <2> SUFFICES ASSUME OwnershipInv, LegacyRowFencesItsDevice, [Next]_vars,
                      NEW a \in Action, status'[a] \in {"executing", "dispatched"},
                      token'[a] = NoToken, NEW p \in Process, pc'[p] \in Working
               PROVE  DeviceOf[a] \notin {Dev(p)', NoDevice}
    BY DEF LegacyRowFencesItsDevice
  <2>1. CASE UNCHANGED vars
    BY <2>1 DEF LegacyRowFencesItsDevice, vars, Dev
  <2>2. ASSUME NEW q \in Process, NEW t \in Token, Claim(q, t) \/ ClaimUnacknowledged(q, t)
        PROVE  DeviceOf[a] \notin {Dev(p)', NoDevice}
    <3> DEFINE b == act[q]
    <3>1. /\ b \in Action /\ Admissible(b) /\ act' = act
          /\ status' = [status EXCEPT ![b] = "executing"]
          /\ token' = [token EXCEPT ![b] = t]
          /\ \A r \in Process : r # q => pc'[r] = pc[r]
      BY <2>2 DEF Claim, ClaimUnacknowledged, Bind, Goto, OwnershipInv, TypeOK
    <3>2. a # b /\ status[a] \in {"executing", "dispatched"} /\ token[a] = NoToken
      BY <3>1, OwnershipAssumption DEF OwnershipInv, TypeOK
    <3>3. a \notin Actors(DeviceOf[b])
      BY <3>1, <3>2 DEF Admissible, ConfirmedDrain
    <3>4. DeviceOf[a] \notin {DeviceOf[b], NoDevice}
      BY <3>2, <3>3 DEF Actors
    <3> QED
      BY <3>1, <3>2, <3>4 DEF LegacyRowFencesItsDevice, Dev
  <2>3. ASSUME NEW q \in Process, RecordDispatched(q) \/ Requeue(q) \/ Complete(q)
        PROVE  DeviceOf[a] \notin {Dev(p)', NoDevice}
    <3>1. /\ token' = token /\ act' = act
          /\ \A r \in Process : r # q => pc'[r] = pc[r]
          /\ pc[q] \in {"settled", "closing"}
          /\ \A b \in Action : b # act[q] => status'[b] = status[b]
      BY <2>3 DEF RecordDispatched, Requeue, Complete, Goto, OwnershipInv, TypeOK
    <3>2. a # act[q]
      BY <3>1 DEF OwnershipInv, WorkersAreClaimed, Working
    <3> QED
      BY <3>1, <3>2 DEF LegacyRowFencesItsDevice, Dev, Working
  <2>4. ASSUME NEW q \in Process, Attempt(q),
               ~(\E t \in Token : Claim(q, t) \/ ClaimUnacknowledged(q, t)),
               ~RecordDispatched(q), ~Requeue(q), ~Complete(q)
        PROVE  /\ token' = token /\ status' = status
               /\ \A r \in Process :
                    pc'[r] \in Working => pc[r] \in Working /\ act'[r] = act[r]
    <3> USE DEF OwnershipInv, TypeOK, Goto, OnlyProgress, rowVars, Working
    <3>1. CASE TryLock(q) \/ AdmissionFails(q) \/ ClaimRefused(q)
      BY <3>1 DEF TryLock, AdmissionFails, ClaimRefused
    <3>2. CASE Preflight(q) \/ LearningDefers(q) \/ AlreadySafe(q) \/ Authorise(q)
      BY <3>2 DEF Preflight, LearningDefers, AlreadySafe, Authorise
    <3>3. CASE Send(q) \/ CallReturns(q) \/ Verified(q) \/ Interrupt(q)
      BY <3>3 DEF Send, CallReturns, Verified, Interrupt, Interruptible
    <3>4. CASE FenceLossSeen(q) \/ Drain(q) \/ DrainFails(q) \/ CloseFails(q)
      BY <3>4 DEF FenceLossSeen, Drain, DrainFails, CloseFails, Interruptible
    <3>5. CASE Unlock(q) \/ UnlockFails(q) \/ Unfence(q)
      BY <3>5 DEF Unlock, UnlockFails, Unfence, Forget
    <3>6. ASSUME NEW b \in Action, Acquire(q, b)
          PROVE  /\ token' = token /\ status' = status
                 /\ \A r \in Process :
                      pc'[r] \in Working => pc[r] \in Working /\ act'[r] = act[r]
      BY <3>6 DEF Acquire
    <3> QED
      BY <2>4, <3>1, <3>2, <3>3, <3>4, <3>5, <3>6 DEF Attempt
  <2>5. ASSUME Environment
        PROVE  /\ token' = token /\ status' = status
               /\ \A r \in Process :
                    pc'[r] \in Working => pc[r] \in Working /\ act'[r] = act[r]
    BY <2>5 DEF Environment, StrandedCallEnds, Crash, Forget, Goto, SessionLost,
       ShowerReschedule, BecomesReady, SetLearning, rowVars, procVars, OwnershipInv, TypeOK,
       Working
  <2>6. ASSUME token' = token, status' = status,
               \A r \in Process : pc'[r] \in Working => pc[r] \in Working /\ act'[r] = act[r]
        PROVE  DeviceOf[a] \notin {Dev(p)', NoDevice}
    BY <2>6 DEF LegacyRowFencesItsDevice, Dev
  <2> QED
    BY <2>1, <2>2, <2>3, <2>4, <2>5, <2>6 DEF Next
<1> QED
  BY <1>1, <1>2, Ownership, PTL DEF Spec

-----------------------------------------------------------------------------
(***************************************************************************)
(* The executors implement the ledger.                                     *)
(***************************************************************************)

\* BusyWith names the one call of a device.
LEMMA BusyIsTheCall ==
  ASSUME NEW K \in SUBSET Call,
         \A c, e \in K : DeviceOf[c.act] = DeviceOf[e.act] => c = e
  PROVE  /\ \A c \in K : DeviceOf[c.act] \in Device => BusyWith(K)[DeviceOf[c.act]] = c.act
         /\ \A d \in Device : (\A c \in K : DeviceOf[c.act] # d) => BusyWith(K)[d] = Quiet
         /\ \A d \in Device : BusyWith(K)[d] # Quiet =>
              \E c \in K : DeviceOf[c.act] = d /\ BusyWith(K)[d] = c.act
         /\ BusyWith(K) = [d \in Device |-> BusyWith(K)[d]]
<1>1. ASSUME NEW c \in K, DeviceOf[c.act] \in Device
      PROVE  BusyWith(K)[DeviceOf[c.act]] = c.act
  <2> DEFINE one == CHOOSE e \in K : DeviceOf[e.act] = DeviceOf[c.act]
  <2>1. one \in K /\ DeviceOf[one.act] = DeviceOf[c.act]
    OBVIOUS
  <2>2. one = c
    BY <2>1
  <2> QED
    BY <1>1, <2>2 DEF BusyWith
<1>2. ASSUME NEW d \in Device, \A c \in K : DeviceOf[c.act] # d
      PROVE  BusyWith(K)[d] = Quiet
  BY <1>2 DEF BusyWith
<1>3. ASSUME NEW d \in Device, BusyWith(K)[d] # Quiet
      PROVE  \E c \in K : DeviceOf[c.act] = d /\ BusyWith(K)[d] = c.act
  <2>1. PICK c \in K : DeviceOf[c.act] = d
    BY <1>2, <1>3
  <2> QED
    BY <1>1, <2>1
<1>4. BusyWith(K) = [d \in Device |-> BusyWith(K)[d]]
  BY DEF BusyWith
<1> QED
  BY <1>1, <1>2, <1>3, <1>4

\* Calls that only end are ledger steps that end commands, or stutter.
LEMMA EndingImplements ==
  ASSUME OwnershipInv, OwnershipInv', calls' \subseteq calls, status' = status
  PROVE  [Ledger!LedgerNext]_(Ledger!ledgerVars)
<1> DEFINE D == {d \in Device : BusyWith(calls)[d] # Quiet /\ BusyWith(calls')[d] = Quiet}
<1>0. /\ calls \in SUBSET Call
      /\ \A c, e \in calls : DeviceOf[c.act] = DeviceOf[e.act] => c = e
      /\ calls' \in SUBSET Call
      /\ \A c, e \in calls' : DeviceOf[c.act] = DeviceOf[e.act] => c = e
  BY DEF OwnershipInv, WorkersAreAlone, OneCallPerDevice, TypeOK
<1>1. openActions' = openActions
  BY DEF openActions
<1>2. ASSUME NEW d \in Device, BusyWith(calls')[d] # Quiet
      PROVE  BusyWith(calls')[d] = BusyWith(calls)[d]
  <2>1. PICK c \in calls' : DeviceOf[c.act] = d /\ BusyWith(calls')[d] = c.act
    BY <1>0, <1>2, BusyIsTheCall
  <2>2. c \in calls /\ BusyWith(calls)[d] = c.act
    BY <1>0, <2>1, BusyIsTheCall
  <2> QED
    BY <2>1, <2>2
<1>3. BusyWith(calls') = [d \in Device |-> IF d \in D THEN Quiet ELSE BusyWith(calls)[d]]
  <2>1. \A d \in Device : BusyWith(calls')[d] = IF d \in D THEN Quiet ELSE BusyWith(calls)[d]
    BY <1>2
  <2>2. BusyWith(calls') = [d \in Device |-> BusyWith(calls')[d]]
    BY DEF BusyWith
  <2> QED
    BY <2>1, <2>2
<1>4. CASE D = {}
  <2>1. BusyWith(calls') = BusyWith(calls)
    BY <1>3, <1>4 DEF BusyWith
  <2> QED
    BY <1>1, <2>1 DEF Ledger!ledgerVars
<1>5. CASE D # {}
  <2>1. Ledger!End(D)
    BY <1>1, <1>3, <1>5 DEF Ledger!End
  <2>2. D \in SUBSET Device
    OBVIOUS
  <2> QED
    BY <2>1, <2>2 DEF Ledger!LedgerNext
<1> QED
  BY <1>4, <1>5

LEMMA SendImplements ==
  ASSUME OwnershipInv, OwnershipInv', NEW p \in Process, Send(p)
  PROVE  Ledger!Begin(act[p])
<1> DEFINE a == act[p]
<1>0. /\ calls \in SUBSET Call
      /\ \A c, e \in calls : DeviceOf[c.act] = DeviceOf[e.act] => c = e
      /\ calls' \in SUBSET Call
      /\ \A c, e \in calls' : DeviceOf[c.act] = DeviceOf[e.act] => c = e
  BY DEF OwnershipInv, WorkersAreAlone, OneCallPerDevice, TypeOK
<1>1. pc[p] = "authorised" /\ status' = status
      /\ calls' = calls \cup {[proc |-> p, act |-> a, tok |-> tok[p]]}
  BY DEF Send, OnlyProgress, rowVars
<1>2. a \in Action /\ DeviceOf[a] \in Device
  BY <1>0, <1>1 DEF OwnershipInv, FencesNested, Dev, TypeOK
<1>3. a \in openActions /\ openActions' = openActions
  BY <1>1, <1>2 DEF OwnershipInv, WorkersAreClaimed, Working, openActions
<1>4. \A c \in calls : DeviceOf[c.act] # DeviceOf[a]
  BY <1>1 DEF OwnershipInv, WorkersAreAlone, Dev, Working
<1>5. BusyWith(calls)[DeviceOf[a]] = Quiet
  BY <1>0, <1>2, <1>4, BusyIsTheCall
<1>6. BusyWith(calls')[DeviceOf[a]] = a
  <2> DEFINE new == [proc |-> p, act |-> a, tok |-> tok[p]]
  <2>1. new \in calls' /\ new.act = a
    BY <1>1
  <2> HIDE DEF new
  <2> QED
    BY <1>0, <1>2, <2>1, BusyIsTheCall
<1>7. ASSUME NEW d \in Device, d # DeviceOf[a]
      PROVE  BusyWith(calls')[d] = BusyWith(calls)[d]
  <2>1. \A c \in calls' : DeviceOf[c.act] = d => c \in calls
    BY <1>1, <1>7
  <2>2. CASE \E c \in calls : DeviceOf[c.act] = d
    BY <1>0, <1>1, <2>2, BusyIsTheCall
  <2>3. CASE \A c \in calls : DeviceOf[c.act] # d
    BY <1>0, <2>1, <2>3, BusyIsTheCall
  <2> QED
    BY <2>2, <2>3
<1>8. BusyWith(calls') = [BusyWith(calls) EXCEPT ![DeviceOf[a]] = a]
  <2>1. /\ BusyWith(calls') = [d \in Device |-> BusyWith(calls')[d]]
        /\ BusyWith(calls) = [d \in Device |-> BusyWith(calls)[d]]
    BY <1>0, BusyIsTheCall
  <2>2. \A d \in Device : BusyWith(calls')[d] = [BusyWith(calls) EXCEPT ![DeviceOf[a]] = a][d]
    BY <1>2, <1>6, <1>7, <2>1
  <2> QED
    BY <2>1, <2>2
<1> QED
  BY <1>2, <1>3, <1>5, <1>8 DEF Ledger!Begin

LEMMA RowStepImplements ==
  ASSUME OwnershipInv, OwnershipInv', NEW p \in Process,
         RecordDispatched(p) \/ Requeue(p) \/ Complete(p)
  PROVE  [Ledger!LedgerNext]_(Ledger!ledgerVars)
<1> DEFINE a == act[p]
<1>1. calls' = calls /\ TypeOK /\ OneCallPerDevice
  BY DEF OwnershipInv, WorkersAreAlone, RecordDispatched, Requeue, Complete
<1>2. BusyWith(calls') = BusyWith(calls)
  BY <1>1 DEF BusyWith
<1>3. a \in Action /\ a \in openActions
  BY DEF OwnershipInv, TypeOK, WorkersAreClaimed, Working, openActions, RecordDispatched,
     Requeue, Complete
<1>4. CASE RecordDispatched(p) \/ Requeue(p)
  <2>1. openActions' = openActions
    BY <1>1, <1>3, <1>4 DEF openActions, RecordDispatched, Requeue, TypeOK
  <2> QED
    BY <1>2, <2>1 DEF Ledger!ledgerVars
<1>5. CASE Complete(p)
  <2>1. openActions' = openActions \ {a}
    BY <1>1, <1>3, <1>5 DEF openActions, Complete, TypeOK
  <2>2. status'[a] = "executed"
    BY <1>1, <1>3, <1>5 DEF Complete, TypeOK
  <2>3. \A c \in calls : c.act # a
    BY <1>1, <2>2 DEF OwnershipInv, CallsAreClaimed
  <2>4. \A d \in Device : BusyWith(calls)[d] # a
    <3>1. /\ calls \in SUBSET Call
          /\ \A c, e \in calls : DeviceOf[c.act] = DeviceOf[e.act] => c = e
      BY <1>1 DEF OneCallPerDevice, TypeOK
    <3>2. ASSUME NEW d \in Device, BusyWith(calls)[d] = a
          PROVE  FALSE
      <4>1. BusyWith(calls)[d] # Quiet
        BY <1>3, <3>2, OwnershipAssumption
      <4>2. PICK c \in calls : DeviceOf[c.act] = d /\ BusyWith(calls)[d] = c.act
        BY <3>1, <4>1, BusyIsTheCall
      <4> QED
        BY <2>3, <3>2, <4>2
    <3> QED
      BY <3>2
  <2> QED
    BY <1>2, <1>3, <2>1, <2>4 DEF Ledger!Settle, Ledger!LedgerNext
<1> QED
  BY <1>4, <1>5

LEMMA StepImplements ==
  ASSUME OwnershipInv, OwnershipInv', [Next]_vars
  PROVE  [Ledger!LedgerNext]_(Ledger!ledgerVars)
<1>1. ASSUME NEW p \in Process, Send(p) PROVE Ledger!LedgerNext
  BY <1>1, SendImplements DEF Ledger!LedgerNext, OwnershipInv, TypeOK
<1>2. ASSUME NEW p \in Process, RecordDispatched(p) \/ Requeue(p) \/ Complete(p)
      PROVE  [Ledger!LedgerNext]_(Ledger!ledgerVars)
  BY <1>2, RowStepImplements
<1>3. ASSUME NEW p \in Process, NEW t \in Token, Claim(p, t) \/ ClaimUnacknowledged(p, t)
      PROVE  [Ledger!LedgerNext]_(Ledger!ledgerVars)
  <2>1. calls' = calls /\ openActions' = openActions
    BY <1>3 DEF Claim, ClaimUnacknowledged, Bind, Admissible, Unresolved, openActions,
       OwnershipInv, TypeOK
  <2> QED
    BY <2>1 DEF BusyWith, Ledger!ledgerVars
<1>4. ASSUME NEW p \in Process, Attempt(p), ~Send(p), ~RecordDispatched(p), ~Requeue(p),
             ~Complete(p), ~(\E t \in Token : Claim(p, t) \/ ClaimUnacknowledged(p, t))
      PROVE  calls' \subseteq calls /\ status' = status
  BY <1>4 DEF Attempt, Acquire, TryLock, AdmissionFails, ClaimRefused, Preflight,
     LearningDefers, AlreadySafe, Authorise, CallReturns, Verified, Interrupt, FenceLossSeen,
     Drain, DrainFails, CloseFails, Unlock, UnlockFails, Unfence, OnlyProgress, rowVars
<1>5. ASSUME Environment PROVE calls' \subseteq calls /\ status' = status
  BY <1>5 DEF Environment, StrandedCallEnds, Crash, SessionLost, ShowerReschedule,
     BecomesReady, SetLearning, rowVars
<1>6. CASE UNCHANGED vars
  BY <1>6, EndingImplements DEF vars
<1> QED
  BY <1>1, <1>2, <1>3, <1>4, <1>5, <1>6, EndingImplements DEF Next

\* Any number of executors, with crashes, lost fences, undrained calls and
\* rewritten rows, implement the ledger of RestoreLedger.
THEOREM Refinement == Spec => ImplementsLedger
<1>1. Init => Ledger!LedgerInit
  BY OwnershipAssumption DEF Init, Ledger!LedgerInit, openActions, BusyWith
<1>2. OwnershipInv /\ OwnershipInv' /\ [Next]_vars => [Ledger!LedgerNext]_(Ledger!ledgerVars)
  BY StepImplements
<1> QED
  BY <1>1, <1>2, Ownership, PTL DEF Spec, ImplementsLedger, Ledger!LedgerSpec
=============================================================================
