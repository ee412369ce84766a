-------------------------- MODULE AccountProofs ---------------------------
(***************************************************************************)
(* Proofs about the services between the program and its owner, for any    *)
(* values of their constants that satisfy the assumptions of               *)
(* AccountServices.                                                        *)
(***************************************************************************)
EXTENDS AccountServices, FiniteSetTheorems, Sequences, TLAPS

-----------------------------------------------------------------------------
(***************************************************************************)
(* The tokens of SmartThings (SmartThingsTokens).                          *)
(***************************************************************************)

\* A token that is held has been granted.
TokensHeldIsGranted ==
  /\ tokens_exchanged \subseteq 1..tokens_granted
  /\ tokens_row # tokens_NoRow => tokens_row.refresh \in 1..tokens_granted
  /\ \A c \in tokens_Callers : Tokens!Inside(c)
       => tokens_caller[c].refresh \in 1..tokens_granted
  /\ \A c \in tokens_Callers : tokens_caller[c].at = "answered"
       => tokens_caller[c].grant \in 1..tokens_granted
  /\ tokens_consent.at = "coded" => tokens_consent.grant \in 1..tokens_granted

\* The advisory lock.
TokensOneInside == \A c, d \in tokens_Callers : Tokens!Inside(c) /\ Tokens!Inside(d) => c = d

\* The stored token works, unless its successor is on its way or was lost.
TokensRowIsUnspent ==
  tokens_row # tokens_NoRow /\ tokens_row.refresh \in tokens_exchanged \ tokens_lost =>
    \E c \in tokens_Callers : tokens_caller[c].at = "answered"

TokensAnswerIsUnspent ==
  \A c \in tokens_Callers : tokens_caller[c].at = "answered"
    => tokens_caller[c].refresh \notin tokens_exchanged

\* What the browser brought back is nobody's yet.
TokensCodeIsUnspent ==
  tokens_consent.at = "coded" =>
    /\ tokens_consent.grant \notin tokens_exchanged
    /\ tokens_row # tokens_NoRow => tokens_row.refresh # tokens_consent.grant
    /\ \A c \in tokens_Callers : Tokens!Inside(c)
         => tokens_caller[c].refresh # tokens_consent.grant

TokensIInv == /\ Tokens!TypeOK
              /\ TokensHeldIsGranted
              /\ TokensOneInside
              /\ TokensRowIsUnspent
              /\ TokensAnswerIsUnspent
              /\ TokensCodeIsUnspent
              /\ Tokens!PresentsUnspent

\* The first state of the system.
LEMMA TokensInvariantInitially == Tokens!Init => TokensIInv
  BY SMT, TokensAssumption DEF Tokens!Init, TokensIInv, Tokens!TypeOK,
     TokensHeldIsGranted, TokensOneInside, TokensRowIsUnspent, TokensAnswerIsUnspent,
     TokensCodeIsUnspent, Tokens!PresentsUnspent, Tokens!Inside, Tokens!Idle,
     Tokens!NoConsent, Tokens!Callings, Tokens!Grants, Tokens!Lives

\* A task at rest, or with a token to use, is of the type of tasks.
LEMMA TokensIdleIs ==
         /\ Tokens!Idle \in Tokens!Callings
         /\ \A token, rejected \in Tokens!Grants \cup {tokens_NoRow} :
              [Tokens!Idle EXCEPT !.at = "using", !.token = token, !.rejected = rejected] \in
                Tokens!Callings
         /\ \A rejected \in Tokens!Grants \cup {tokens_NoRow} :
              [Tokens!Idle EXCEPT !.at = "rejected", !.rejected = rejected] \in Tokens!Callings
  BY DEF Tokens!Idle, Tokens!Callings, Tokens!Lives

\* One task moves, and is not in the refresh transaction afterwards.
TokensLeaves(c) ==
  /\ \A d \in tokens_Callers \ {c} : tokens_caller'[d] = tokens_caller[d]
  /\ ~Tokens!Inside(c)'
  /\ tokens_row' = tokens_row /\ tokens_granted' = tokens_granted
       /\ tokens_exchanged' = tokens_exchanged /\ tokens_consent' = tokens_consent
  /\ tokens_lost \subseteq tokens_lost'
  /\ tokens_row # tokens_NoRow /\ tokens_row.refresh \in tokens_exchanged \ tokens_lost'
       => tokens_caller[c].at # "answered"

\* Such a step keeps the invariant.
LEMMA TokensLeavesStep ==
  ASSUME TokensIInv, Tokens!TypeOK', NEW c \in tokens_Callers, TokensLeaves(c)
  PROVE  TokensIInv'
<1> USE DEF TokensIInv, TokensLeaves, Tokens!Inside
<1>1. TokensHeldIsGranted'
  BY DEF TokensHeldIsGranted
<1>2. TokensOneInside'
  BY DEF TokensOneInside
<1>3. TokensRowIsUnspent'
  <2> SUFFICES ASSUME tokens_row # tokens_NoRow,
                      tokens_row.refresh \in tokens_exchanged \ tokens_lost'
               PROVE  \E d \in tokens_Callers : tokens_caller'[d].at = "answered"
    BY DEF TokensRowIsUnspent
  <2>1. PICK d \in tokens_Callers : tokens_caller[d].at = "answered"
    BY DEF TokensRowIsUnspent
  <2>2. d # c
    BY <2>1
  <2> QED
    BY <2>1, <2>2
<1>4. TokensAnswerIsUnspent'
  BY DEF TokensAnswerIsUnspent
<1>5. TokensCodeIsUnspent'
  BY DEF TokensCodeIsUnspent
<1>6. Tokens!PresentsUnspent'
  BY DEF Tokens!PresentsUnspent
<1> QED
  BY <1>1, <1>2, <1>3, <1>4, <1>5, <1>6

\* A task that is told of a usable token, or waits for the lock.
LEMMA TokensResolveStep ==
  ASSUME TokensIInv, NEW c \in tokens_Callers, Tokens!Resolve(c)
  PROVE  TokensIInv'
<1> DEFINE new == tokens_caller'[c]
<1>1. /\ tokens_caller' = [tokens_caller EXCEPT ![c] = new]
      /\ new \in Tokens!Callings
      /\ new.at \in {"idle", "using", "waiting"}
  <2>1. tokens_caller[c] \in Tokens!Callings
          /\ tokens_caller \in [tokens_Callers -> Tokens!Callings]
          /\ tokens_row \in Tokens!Rows \cup {tokens_NoRow}
    BY DEF TokensIInv, Tokens!TypeOK
  <2>2. CASE Tokens!GivesUp(c)
    BY <2>1, <2>2, TokensIdleIs DEF Tokens!GivesUp, Tokens!Idle
  <2>3. CASE tokens_row # tokens_NoRow /\ Tokens!Using(c, tokens_row.access)
    <3>1. tokens_row.access \in Tokens!Grants
            /\ tokens_caller[c].rejected \in Tokens!Grants \cup {tokens_NoRow}
      BY <2>1, <2>3 DEF Tokens!Rows, Tokens!Callings
    <3> DEFINE using == [Tokens!Idle EXCEPT !.at = "using", !.token = tokens_row.access,
                                            !.rejected = tokens_caller[c].rejected]
    <3>2. using \in Tokens!Callings /\ using.at = "using"
      BY <3>1, TokensIdleIs DEF Tokens!Idle
    <3>3. tokens_caller' = [tokens_caller EXCEPT ![c] = using]
      BY <2>3 DEF Tokens!Using
    <3> HIDE DEF using
    <3> QED
      BY <2>1, <3>2, <3>3
  <2>4. CASE /\ tokens_row # tokens_NoRow
             /\ tokens_caller' = [tokens_caller EXCEPT ![c].at = "waiting",
                                                       ![c].seen = tokens_row.life]
    <3>1. tokens_row.life \in Tokens!Lives
      BY <2>1, <2>4 DEF Tokens!Rows
    <3> QED
      BY <2>1, <2>4, <3>1 DEF Tokens!Callings
  <2> QED
    BY <2>2, <2>3, <2>4 DEF Tokens!Resolve
<1>2. Tokens!TypeOK'
  BY <1>1 DEF TokensIInv, Tokens!TypeOK, Tokens!Resolve
<1>3. TokensLeaves(c)
  BY <1>1 DEF TokensLeaves, Tokens!Inside, TokensIInv, Tokens!TypeOK, Tokens!Resolve
<1> QED
  BY <1>2, <1>3, TokensLeavesStep

\* The answer of SmartThings to the token, or a failure of the exchange.
LEMMA TokensFetchStep ==
  ASSUME TokensIInv, NEW c \in tokens_Callers, Tokens!Fetch(c) \/ Tokens!Refused(c)
  PROVE  TokensIInv'
<1> DEFINE new == tokens_caller'[c]
<1>1. /\ tokens_caller' = [tokens_caller EXCEPT ![c] = new]
      /\ new \in Tokens!Callings
      /\ new.at \in {"idle", "rejected"}
  <2>1. tokens_caller[c] \in Tokens!Callings
          /\ tokens_caller \in [tokens_Callers -> Tokens!Callings]
    BY DEF TokensIInv, Tokens!TypeOK
  <2>2. CASE Tokens!GivesUp(c)
    BY <2>1, <2>2, TokensIdleIs DEF Tokens!GivesUp, Tokens!Idle
  <2>3. CASE tokens_caller' = [tokens_caller EXCEPT ![c] =
                                 [Tokens!Idle EXCEPT !.at = "rejected",
                                                                               !.rejected = tokens_caller[c].token]]
    <3> DEFINE refused == [Tokens!Idle EXCEPT !.at = "rejected",
                                              !.rejected = tokens_caller[c].token]
    <3>1. tokens_caller[c].token \in Tokens!Grants \cup {tokens_NoRow}
      BY <2>1 DEF Tokens!Callings
    <3>2. refused \in Tokens!Callings /\ refused.at = "rejected"
      BY <3>1, TokensIdleIs DEF Tokens!Idle
    <3> HIDE DEF refused
    <3> QED
      BY <2>1, <2>3, <3>2 DEF refused
  <2> QED
    BY <2>2, <2>3 DEF Tokens!Fetch, Tokens!Refused
<1>2. Tokens!TypeOK'
  BY <1>1 DEF TokensIInv, Tokens!TypeOK, Tokens!Fetch, Tokens!Refused
<1>3. TokensLeaves(c)
  BY <1>1 DEF TokensLeaves, Tokens!Inside, TokensIInv, Tokens!TypeOK, Tokens!Fetch,
     Tokens!Refused
<1> QED
  BY <1>2, <1>3, TokensLeavesStep

\* The process dies with the answer.
LEMMA TokensAnswerLostStep ==
  ASSUME TokensIInv, NEW c \in tokens_Callers, Tokens!AnswerLost(c)
  PROVE  TokensIInv'
<1>1. tokens_caller' = [tokens_caller EXCEPT ![c] = Tokens!Idle]
        /\ Tokens!Idle \in Tokens!Callings /\ Tokens!Idle.at = "idle"
  BY TokensIdleIs DEF Tokens!AnswerLost, Tokens!GivesUp, Tokens!Idle
<1>2. Tokens!TypeOK'
  BY <1>1 DEF TokensIInv, Tokens!TypeOK, Tokens!AnswerLost
<1>3. TokensLeaves(c)
  BY <1>1 DEF TokensLeaves, Tokens!Inside, TokensIInv, Tokens!TypeOK, Tokens!AnswerLost
<1> QED
  BY <1>2, <1>3, TokensLeavesStep

\* The lock is granted; the row read under it may have what is needed.
LEMMA TokensEnterStep ==
  ASSUME TokensIInv, NEW c \in tokens_Callers, Tokens!Enter(c)
  PROVE  TokensIInv'
<1> DEFINE new == tokens_caller'[c]
<1>1. CASE ~Tokens!Inside(c)'
  <2>1. /\ tokens_caller' = [tokens_caller EXCEPT ![c] = new]
        /\ new \in Tokens!Callings
        /\ new.at \notin {"inside", "answered"}
    <3>1. tokens_caller[c] \in Tokens!Callings
            /\ tokens_caller \in [tokens_Callers -> Tokens!Callings]
            /\ tokens_row \in Tokens!Rows \cup {tokens_NoRow}
      BY DEF TokensIInv, Tokens!TypeOK
    <3>2. CASE Tokens!GivesUp(c)
      BY <3>1, <3>2, TokensIdleIs DEF Tokens!GivesUp, Tokens!Idle
    <3>3. CASE tokens_row # tokens_NoRow /\ Tokens!Using(c, tokens_row.access)
      <4>1. tokens_row.access \in Tokens!Grants
              /\ tokens_caller[c].rejected \in Tokens!Grants \cup {tokens_NoRow}
        BY <3>1, <3>3 DEF Tokens!Rows, Tokens!Callings
      <4> DEFINE using == [Tokens!Idle EXCEPT !.at = "using", !.token = tokens_row.access,
                                              !.rejected = tokens_caller[c].rejected]
      <4>2. using \in Tokens!Callings /\ using.at = "using"
        BY <4>1, TokensIdleIs DEF Tokens!Idle
      <4>3. tokens_caller' = [tokens_caller EXCEPT ![c] = using]
        BY <3>3 DEF Tokens!Using
      <4> HIDE DEF using
      <4> QED
        BY <3>1, <4>2, <4>3
    <3>4. ASSUME tokens_caller' = [tokens_caller EXCEPT ![c].at = "inside",
                                                        ![c].refresh = tokens_row.refresh]
          PROVE  FALSE
      BY <1>1, <3>1, <3>4 DEF Tokens!Inside, Tokens!Callings
    <3> QED
      BY <3>2, <3>3, <3>4 DEF Tokens!Enter
  <2>2. Tokens!TypeOK'
    BY <2>1 DEF TokensIInv, Tokens!TypeOK, Tokens!Enter
  <2>3. TokensLeaves(c)
    BY <2>1 DEF TokensLeaves, Tokens!Inside, TokensIInv, Tokens!TypeOK, Tokens!Enter
  <2> QED
    BY <2>2, <2>3, TokensLeavesStep
<1>2. CASE Tokens!Inside(c)'
  <2>1. /\ tokens_row # tokens_NoRow
        /\ \A d \in tokens_Callers : ~Tokens!Inside(d)
        /\ tokens_caller' = [tokens_caller EXCEPT ![c].at = "inside",
                                                  ![c].refresh = tokens_row.refresh]
        /\ UNCHANGED <<tokens_row, tokens_granted, tokens_dead, tokens_exchanged, tokens_lost,
                       tokens_consent, tokens_faults>>
    <3>1. tokens_caller \in [tokens_Callers -> Tokens!Callings]
      BY DEF TokensIInv, Tokens!TypeOK
    <3>2. ~Tokens!GivesUp(c)
      BY <1>2, <3>1 DEF Tokens!GivesUp, Tokens!Idle, Tokens!Inside
    <3>3. ~Tokens!Using(c, tokens_row.access)
      BY <1>2, <3>1 DEF Tokens!Using, Tokens!Idle, Tokens!Inside
    <3> QED
      BY <3>2, <3>3 DEF Tokens!Enter
  <2>2. /\ \A d \in tokens_Callers \ {c} : tokens_caller'[d] = tokens_caller[d]
             /\ ~Tokens!Inside(d)'
        /\ new.at = "inside" /\ new.refresh = tokens_row.refresh
        /\ new \in Tokens!Callings
        /\ tokens_caller' = [tokens_caller EXCEPT ![c] = new]
    BY ZenonT(40), <2>1 DEF TokensIInv, Tokens!TypeOK, Tokens!Callings, Tokens!Rows,
       Tokens!Inside
  <2>3. Tokens!TypeOK'
    BY <2>1, <2>2 DEF TokensIInv, Tokens!TypeOK
  <2>4. TokensHeldIsGranted'
    BY <2>1, <2>2 DEF TokensIInv, TokensHeldIsGranted, Tokens!Inside
  <2>5. TokensOneInside'
    BY <2>2 DEF TokensOneInside
  <2>6. tokens_row.refresh \notin tokens_exchanged \ tokens_lost
    BY <2>1 DEF TokensIInv, TokensRowIsUnspent, Tokens!Inside
  <2>7. TokensRowIsUnspent'
    BY <2>1, <2>6 DEF TokensRowIsUnspent
  <2>8. TokensAnswerIsUnspent' /\ Tokens!PresentsUnspent'
    BY <2>1, <2>2, <2>6 DEF TokensAnswerIsUnspent, Tokens!PresentsUnspent, Tokens!Inside
  <2>9. TokensCodeIsUnspent'
    BY <2>1, <2>2 DEF TokensIInv, TokensCodeIsUnspent
  <2> QED
    BY <2>3, <2>4, <2>5, <2>7, <2>8, <2>9 DEF TokensIInv
<1> QED
  BY <1>1, <1>2

\* SmartThings refuses the token, or replaces it, or lets it be used again.
LEMMA TokensExchangeStep ==
  ASSUME TokensIInv, NEW c \in tokens_Callers, Tokens!Exchange(c)
  PROVE  TokensIInv'
<1> DEFINE new == tokens_caller'[c]
<1>1. CASE tokens_caller[c].refresh \in tokens_exchanged /\ Tokens!GivesUp(c)
             /\ UNCHANGED <<tokens_granted, tokens_exchanged>>
  <2>1. tokens_caller' = [tokens_caller EXCEPT ![c] = Tokens!Idle]
          /\ Tokens!Idle \in Tokens!Callings /\ Tokens!Idle.at = "idle"
    BY <1>1, TokensIdleIs DEF Tokens!GivesUp, Tokens!Idle
  <2>2. Tokens!TypeOK'
    BY <1>1, <2>1 DEF TokensIInv, Tokens!TypeOK, Tokens!Exchange
  <2>3. TokensLeaves(c)
    BY <1>1, <2>1 DEF TokensLeaves, Tokens!Inside, TokensIInv, Tokens!TypeOK,
       Tokens!Exchange
  <2> QED
    BY <2>2, <2>3, TokensLeavesStep
<1>2. ASSUME tokens_caller[c].refresh \notin tokens_exchanged,
             tokens_granted < tokens_MaxGrants, tokens_granted' = tokens_granted + 1,
             NEW keep \in BOOLEAN,
             tokens_exchanged' = IF keep THEN tokens_exchanged
               ELSE tokens_exchanged \cup {tokens_caller[c].refresh},
             tokens_caller' = [tokens_caller EXCEPT
                 ![c].at = "answered", ![c].grant = tokens_granted + 1,
                 ![c].refresh = IF keep THEN @ ELSE tokens_granted + 1]
      PROVE  TokensIInv'
  <2>1. /\ tokens_caller[c].at = "inside"
        /\ UNCHANGED <<tokens_row, tokens_dead, tokens_lost, tokens_consent, tokens_faults>>
    BY DEF Tokens!Exchange
  <2>2. tokens_granted \in 0..tokens_MaxGrants /\ tokens_granted + 1 \in Tokens!Grants
          /\ tokens_MaxGrants \in Nat
    BY <1>2, TokensAssumption DEF TokensIInv, Tokens!TypeOK, Tokens!Grants
  <2>3. /\ \A d \in tokens_Callers \ {c} : tokens_caller'[d] = tokens_caller[d]
        /\ new.at = "answered" /\ new.grant = tokens_granted + 1
        /\ new.refresh = IF keep THEN tokens_caller[c].refresh ELSE tokens_granted + 1
        /\ new \in Tokens!Callings
        /\ tokens_caller' = [tokens_caller EXCEPT ![c] = new]
    <3>1. tokens_caller \in [tokens_Callers -> Tokens!Callings]
            /\ tokens_caller[c] \in Tokens!Callings
      BY DEF TokensIInv, Tokens!TypeOK
    <3> DEFINE one == [tokens_caller[c] EXCEPT !.at = "answered"]
               two == [one EXCEPT !.grant = tokens_granted + 1]
               three == [two EXCEPT !.refresh = IF keep THEN tokens_caller[c].refresh
                           ELSE tokens_granted + 1]
    <3>2. one \in Tokens!Callings /\ one.at = "answered"
            /\ one.refresh = tokens_caller[c].refresh
      BY <3>1 DEF Tokens!Callings
    <3>3. two \in Tokens!Callings /\ two.at = one.at /\ two.refresh = one.refresh
            /\ two.grant = tokens_granted + 1
      <4> HIDE DEF one
      <4> QED
        BY <3>2, <2>2 DEF Tokens!Callings
    <3>4. /\ three \in Tokens!Callings /\ three.at = two.at /\ three.grant = two.grant
          /\ three.refresh = IF keep THEN tokens_caller[c].refresh ELSE tokens_granted + 1
      <4>1. tokens_caller[c].refresh \in Tokens!Grants \cup {tokens_NoRow}
        BY <3>1 DEF Tokens!Callings
      <4> HIDE DEF two
      <4> QED
        BY <3>3, <4>1, <2>2 DEF Tokens!Callings
    <3>5. tokens_caller' = [tokens_caller EXCEPT ![c] = three]
      BY <1>2, <3>1 DEF Tokens!Callings
    <3> HIDE DEF three
    <3> QED
      BY <3>1, <3>2, <3>3, <3>4, <3>5
  <2>4. tokens_caller[c].refresh \in 1..tokens_granted
    BY <2>1 DEF TokensIInv, TokensHeldIsGranted, Tokens!Inside
  <2>5. \A d \in tokens_Callers \ {c} : ~Tokens!Inside(d) /\ ~Tokens!Inside(d)'
    BY <2>1, <2>3 DEF TokensIInv, TokensOneInside, Tokens!Inside
  <2>6. Tokens!TypeOK'
    BY <1>2, <2>1, <2>2, <2>3, <2>4 DEF TokensIInv, Tokens!TypeOK, Tokens!Grants
  <2>7. TokensHeldIsGranted'
    <3>1. 1..tokens_granted \subseteq 1..tokens_granted'
            /\ tokens_granted + 1 \in 1..tokens_granted'
      BY <1>2, <2>2
    <3>2. tokens_exchanged' \subseteq 1..tokens_granted'
      BY <1>2, <2>4, <3>1 DEF TokensIInv, TokensHeldIsGranted
    <3>3. new.refresh \in 1..tokens_granted' /\ new.grant \in 1..tokens_granted'
      BY <2>3, <2>4, <3>1
    <3>4. /\ tokens_row' # tokens_NoRow => tokens_row'.refresh \in 1..tokens_granted'
          /\ tokens_consent'.at = "coded" => tokens_consent'.grant \in 1..tokens_granted'
      BY <2>1, <3>1 DEF TokensIInv, TokensHeldIsGranted
    <3> QED
      BY <2>3, <2>5, <3>2, <3>3, <3>4 DEF TokensHeldIsGranted, Tokens!Inside
  <2>8. TokensOneInside'
    BY <2>5 DEF TokensOneInside
  <2>9. TokensRowIsUnspent'
    BY <2>3 DEF TokensRowIsUnspent
  <2>10. TokensAnswerIsUnspent' /\ Tokens!PresentsUnspent'
    <3>1. tokens_exchanged \subseteq 1..tokens_granted
      BY DEF TokensIInv, TokensHeldIsGranted
    <3>2. new.refresh \notin tokens_exchanged'
      BY <1>2, <2>2, <2>3, <2>4, <3>1
    <3> QED
      BY <3>2, <2>3, <2>5 DEF TokensAnswerIsUnspent, Tokens!PresentsUnspent, Tokens!Inside
  <2>11. TokensCodeIsUnspent'
    <3>1. tokens_consent.at = "coded" => /\ tokens_consent.grant \in 1..tokens_granted
                                         /\ tokens_consent.grant \notin tokens_exchanged
                                         /\ tokens_caller[c].refresh # tokens_consent.grant
                                         /\ tokens_row # tokens_NoRow
                                              => tokens_row.refresh # tokens_consent.grant
      BY <2>1 DEF TokensIInv, TokensHeldIsGranted, TokensCodeIsUnspent, Tokens!Inside
    <3> QED
      <4>1. tokens_consent.at = "coded" => tokens_consent.grant \notin tokens_exchanged'
        BY <3>1, <1>2
      <4>2. tokens_consent.at = "coded" => new.refresh # tokens_consent.grant
        BY <3>1, <2>2, <2>3
      <4> QED
        BY <3>1, <4>1, <4>2, <2>1, <2>5 DEF TokensCodeIsUnspent
  <2> QED
    BY <2>6, <2>7, <2>8, <2>9, <2>10, <2>11 DEF TokensIInv
<1> QED
  BY <1>1, <1>2 DEF Tokens!Exchange

\* What a task sees of the clock is set when a row is written.
LEMMA TokensSeenIs ==
  ASSUME Tokens!TypeOK, NEW d \in tokens_Callers
  PROVE  /\ [tokens_caller[d] EXCEPT !.seen = "valid"] \in Tokens!Callings
         /\ [tokens_caller[d] EXCEPT !.seen = "valid"].at = tokens_caller[d].at
         /\ [tokens_caller[d] EXCEPT !.seen = "valid"].refresh = tokens_caller[d].refresh
         /\ [tokens_caller[d] EXCEPT !.seen = "valid"].grant = tokens_caller[d].grant
  BY DEF Tokens!TypeOK, Tokens!Callings, Tokens!Lives

\* The refreshed credentials are stored.
LEMMA TokensCommitStep ==
  ASSUME TokensIInv, NEW c \in tokens_Callers, Tokens!Commit(c)
  PROVE  TokensIInv'
<1> USE DEF TokensIInv
<1>1. CASE tokens_row = tokens_NoRow /\ Tokens!GivesUp(c) /\ UNCHANGED tokens_row
  <2>1. tokens_caller' = [tokens_caller EXCEPT ![c] = Tokens!Idle]
          /\ Tokens!Idle \in Tokens!Callings /\ Tokens!Idle.at = "idle"
    BY <1>1, TokensIdleIs DEF Tokens!GivesUp, Tokens!Idle
  <2>2. Tokens!TypeOK'
    BY <1>1, <2>1 DEF Tokens!TypeOK, Tokens!Commit
  <2>3. TokensLeaves(c)
    BY <1>1, <2>1 DEF TokensLeaves, Tokens!Inside, Tokens!TypeOK, Tokens!Commit
  <2> QED
    BY <2>2, <2>3, TokensLeavesStep
<1>2. CASE ~(tokens_row = tokens_NoRow /\ Tokens!GivesUp(c) /\ UNCHANGED tokens_row)
  <2> DEFINE using == [Tokens!Idle EXCEPT !.at = "using", !.token = tokens_caller[c].grant,
                                          !.rejected = tokens_caller[c].rejected]
             next(d) == IF d = c THEN using ELSE [tokens_caller[d] EXCEPT !.seen = "valid"]
  <2>1. /\ tokens_caller[c].at = "answered"
        /\ tokens_row' = [access |-> tokens_caller[c].grant,
                          refresh |-> tokens_caller[c].refresh, life |-> "valid"]
        /\ tokens_caller' = [d \in tokens_Callers |-> next(d)]
        /\ UNCHANGED <<tokens_granted, tokens_dead, tokens_exchanged, tokens_lost,
                       tokens_consent, tokens_faults>>
    BY <1>2 DEF Tokens!Commit
  <2>2. tokens_caller[c] \in Tokens!Callings /\ tokens_granted \in 0..tokens_MaxGrants
          /\ tokens_MaxGrants \in Nat
    BY TokensAssumption DEF Tokens!TypeOK
  <2>3. using \in Tokens!Callings /\ using.at = "using"
    BY <2>2, TokensIdleIs DEF Tokens!Callings, Tokens!Idle
  <2>4. /\ tokens_caller[c].refresh \in 1..tokens_granted
             /\ tokens_caller[c].grant \in 1..tokens_granted
        /\ tokens_caller[c].refresh \notin tokens_exchanged
    BY <2>1 DEF TokensHeldIsGranted, TokensAnswerIsUnspent, Tokens!Inside
  <2>5. \A d \in tokens_Callers : /\ next(d) \in Tokens!Callings
                                  /\ d # c => next(d).at = tokens_caller[d].at
    BY <2>3, TokensSeenIs
  <2>6. /\ tokens_caller' \in [tokens_Callers -> Tokens!Callings]
        /\ tokens_caller'[c].at = "using"
        /\ \A d \in tokens_Callers \ {c} : tokens_caller'[d].at = tokens_caller[d].at
    BY <2>1, <2>3, <2>5
  <2>7. \A d \in tokens_Callers : ~Tokens!Inside(d)'
    BY <2>1, <2>6 DEF TokensOneInside, Tokens!Inside
  <2>8. /\ tokens_row'.refresh = tokens_caller[c].refresh
        /\ tokens_row' \in Tokens!Rows
    BY <2>1, <2>2, <2>4 DEF Tokens!Rows, Tokens!Grants, Tokens!Lives
  <2> HIDE DEF next, using
  <2>9. Tokens!TypeOK'
    BY <2>1, <2>6, <2>8 DEF Tokens!TypeOK
  <2>10. TokensHeldIsGranted'
    BY <2>1, <2>4, <2>7, <2>8 DEF TokensHeldIsGranted, Tokens!Inside
  <2>11. TokensOneInside' /\ TokensAnswerIsUnspent' /\ Tokens!PresentsUnspent'
    BY <2>7 DEF TokensOneInside, TokensAnswerIsUnspent, Tokens!PresentsUnspent,
       Tokens!Inside
  <2>12. TokensRowIsUnspent'
    BY <2>1, <2>4, <2>8 DEF TokensRowIsUnspent
  <2>13. TokensCodeIsUnspent'
    BY <2>1, <2>7, <2>8 DEF TokensCodeIsUnspent, Tokens!Inside
  <2> QED
    BY <2>9, <2>10, <2>11, <2>12, <2>13
<1> QED
  BY <1>1, <1>2

\* A consent's credentials are stored under the lock of a refresh.
LEMMA TokensSaveTokensStep ==
  ASSUME TokensIInv, Tokens!SaveTokens
  PROVE  TokensIInv'
<1> USE DEF TokensIInv
<1> DEFINE next(d) == [tokens_caller[d] EXCEPT !.seen = "valid"]
<1>1. /\ tokens_consent.at = "coded"
      /\ \A c \in tokens_Callers : ~Tokens!Inside(c)
      /\ tokens_row' = [access |-> tokens_consent.grant, refresh |-> tokens_consent.grant,
                        life |-> "valid"]
      /\ tokens_caller' = [d \in tokens_Callers |-> next(d)]
      /\ tokens_consent' = Tokens!NoConsent
      /\ UNCHANGED <<tokens_granted, tokens_dead, tokens_exchanged, tokens_lost, tokens_faults>>
  BY DEF Tokens!SaveTokens
<1>2. \A d \in tokens_Callers : next(d) \in Tokens!Callings /\ next(d).at = tokens_caller[d].at
  BY TokensSeenIs
<1>3. tokens_caller' \in [tokens_Callers -> Tokens!Callings]
        /\ \A d \in tokens_Callers : ~Tokens!Inside(d)'
  BY <1>1, <1>2 DEF Tokens!Inside
<1>4. tokens_consent.grant \in 1..tokens_granted
        /\ tokens_consent.grant \notin tokens_exchanged
        /\ tokens_consent.grant \in Tokens!Grants
  BY <1>1, TokensAssumption DEF TokensHeldIsGranted, TokensCodeIsUnspent, Tokens!TypeOK,
     Tokens!Grants
<1>5. tokens_row'.refresh = tokens_consent.grant /\ tokens_row' \in Tokens!Rows
  BY <1>1, <1>4 DEF Tokens!Rows, Tokens!Lives
<1> HIDE DEF next
<1>6. Tokens!TypeOK'
  BY <1>1, <1>3, <1>5 DEF Tokens!TypeOK, Tokens!NoConsent
<1>7. TokensHeldIsGranted'
  BY <1>1, <1>3, <1>4, <1>5 DEF TokensHeldIsGranted, Tokens!NoConsent, Tokens!Inside
<1>8. TokensOneInside' /\ TokensAnswerIsUnspent' /\ Tokens!PresentsUnspent'
  BY <1>3 DEF TokensOneInside, TokensAnswerIsUnspent, Tokens!PresentsUnspent, Tokens!Inside
<1>9. TokensRowIsUnspent'
  BY <1>1, <1>4, <1>5 DEF TokensRowIsUnspent
<1>10. TokensCodeIsUnspent'
  BY <1>1 DEF TokensCodeIsUnspent, Tokens!NoConsent
<1> QED
  BY <1>6, <1>7, <1>8, <1>9, <1>10

\* The browser, the disconnect and the clock.
LEMMA TokensOutsideStep ==
  ASSUME TokensIInv, Tokens!Authorize \/ Tokens!Callback \/ Tokens!Disconnect \/ Tokens!Age
           \/ Tokens!Invalidate
  PROVE  TokensIInv'
<1> USE DEF TokensIInv
<1>1. CASE Tokens!Authorize
  BY <1>1 DEF Tokens!Authorize, Tokens!TypeOK, TokensHeldIsGranted, TokensOneInside,
     TokensRowIsUnspent, TokensAnswerIsUnspent,
     TokensCodeIsUnspent, Tokens!PresentsUnspent, Tokens!Inside
<1>2. CASE Tokens!Callback
  <2>1. /\ tokens_granted \in 0..tokens_MaxGrants /\ tokens_MaxGrants \in Nat
        /\ (tokens_granted' = tokens_granted
            \/ (tokens_granted' = tokens_granted + 1 /\ tokens_granted + 1 \in Tokens!Grants))
        /\ \/ tokens_consent' = Tokens!NoConsent
           \/ tokens_consent' = [at |-> "coded", grant |-> tokens_granted + 1]
                /\ tokens_granted' = tokens_granted + 1
        /\ UNCHANGED <<tokens_row, tokens_dead, tokens_exchanged, tokens_lost, tokens_caller,
                       tokens_faults>>
    BY <1>2, TokensAssumption DEF Tokens!Callback, Tokens!TypeOK, Tokens!Grants
  <2>2. Tokens!TypeOK'
    BY <2>1 DEF Tokens!TypeOK, Tokens!NoConsent, Tokens!Grants
  <2>3. TokensHeldIsGranted'
    BY <2>1 DEF TokensHeldIsGranted, Tokens!Inside, Tokens!NoConsent
  <2>4. TokensOneInside' /\ TokensRowIsUnspent' /\ TokensAnswerIsUnspent'
          /\ Tokens!PresentsUnspent'
    BY <2>1 DEF TokensOneInside, TokensRowIsUnspent, TokensAnswerIsUnspent,
       Tokens!PresentsUnspent, Tokens!Inside
  <2>5. TokensCodeIsUnspent'
    BY <2>1 DEF TokensCodeIsUnspent, TokensHeldIsGranted, Tokens!Inside, Tokens!NoConsent
  <2> QED
    BY <2>2, <2>3, <2>4, <2>5
<1>3. CASE Tokens!Disconnect
  BY <1>3 DEF Tokens!Disconnect, Tokens!TypeOK, TokensHeldIsGranted, TokensOneInside,
     TokensRowIsUnspent, TokensAnswerIsUnspent,
     TokensCodeIsUnspent, Tokens!PresentsUnspent, Tokens!Inside
<1>4. CASE Tokens!Age \/ Tokens!Invalidate
  <2>1. /\ tokens_row # tokens_NoRow /\ tokens_row \in Tokens!Rows
        /\ tokens_row' \in Tokens!Rows /\ tokens_row'.refresh = tokens_row.refresh
        /\ tokens_dead' \subseteq tokens_dead \cup {tokens_row.access}
        /\ UNCHANGED <<tokens_granted, tokens_exchanged, tokens_lost, tokens_caller,
                       tokens_consent, tokens_faults>>
    BY <1>4 DEF Tokens!Age, Tokens!Invalidate, Tokens!TypeOK, Tokens!Rows, Tokens!Lives
  <2>2. Tokens!TypeOK'
    BY <2>1 DEF Tokens!TypeOK, Tokens!Rows
  <2>3. TokensHeldIsGranted' /\ TokensOneInside'
    BY <2>1 DEF TokensHeldIsGranted, TokensOneInside, Tokens!Inside
  <2>4. TokensRowIsUnspent' /\ TokensAnswerIsUnspent' /\ Tokens!PresentsUnspent'
    BY <2>1 DEF TokensRowIsUnspent, TokensAnswerIsUnspent, Tokens!PresentsUnspent
  <2>5. TokensCodeIsUnspent'
    BY <2>1 DEF TokensCodeIsUnspent, Tokens!Inside
  <2> QED
    BY <2>2, <2>3, <2>4, <2>5
<1> QED
  BY <1>1, <1>2, <1>3, <1>4

\* Every step, and no step at all.
LEMMA TokensInvariantKept == TokensIInv /\ [Tokens!Next]_tokensVars => TokensIInv'
<1> SUFFICES ASSUME TokensIInv, [Tokens!Next]_tokensVars
             PROVE  TokensIInv'
  OBVIOUS
<1>1. ASSUME NEW c \in tokens_Callers, Tokens!Step(c)
      PROVE  TokensIInv'
  BY <1>1, TokensResolveStep, TokensEnterStep, TokensExchangeStep, TokensFetchStep,
     TokensCommitStep, TokensAnswerLostStep DEF Tokens!Step
<1>2. CASE Tokens!SaveTokens
  BY <1>2, TokensSaveTokensStep
<1>3. CASE Tokens!Authorize \/ Tokens!Callback \/ Tokens!Disconnect \/ Tokens!Age
             \/ Tokens!Invalidate
  BY <1>3, TokensOutsideStep
<1>4. CASE UNCHANGED tokensVars
  BY <1>4 DEF tokensVars, TokensIInv, Tokens!TypeOK, TokensHeldIsGranted,
     TokensOneInside, TokensRowIsUnspent, TokensAnswerIsUnspent,
     TokensCodeIsUnspent, Tokens!PresentsUnspent, Tokens!Inside
<1> QED
  BY <1>1, <1>2, <1>3, <1>4 DEF Tokens!Next


\* The invariant of this service, whenever it is the one that acts.
LEMMA TokensInvariant == AccountSpec => [](account = "tokens" => TokensIInv)
<1>1. AccountInit => (account = "tokens" => TokensIInv)
  BY TokensInvariantInitially DEF AccountInit
<1>2. (account = "tokens" => TokensIInv) /\ [AccountNext]_accountVars
        => (account = "tokens" => TokensIInv)'
  BY TokensInvariantKept DEF AccountNext, accountVars
<1> QED
  BY <1>1, <1>2, PTL DEF AccountSpec

-----------------------------------------------------------------------------
(***************************************************************************)
(* The breakers around a login (LoginBreaker).                             *)
(***************************************************************************)

\* Processes with a failure that is not counted yet, and those that may fail.
LoginsFailing == {p \in logins_Processes : logins_login[p] = "failing"}
LoginsOut == {p \in logins_Processes : logins_login[p] \in {"sent", "failing"}}

\* The shared breaker opens with the threshold; it is missed only by an outage.
LoginsBreakerIs ==
  /\ ~logins_shared.open => logins_shared.failures < logins_Threshold
  /\ logins_outages = 0 => logins_redisUp

\* The failures of a period are counted, are about to be, or died uncounted;
\* those counted and those that may still come are no more than the threshold
\* and the other processes.
LoginsFailuresAreCounted ==
  logins_outages = 0 =>
    /\ logins_failed <= logins_shared.failures + Cardinality(LoginsFailing) + logins_uncounted
    /\ logins_shared.failures + Cardinality(LoginsOut) <= logins_Threshold - 1 + Cardinality(logins_Processes)

LoginsIInv == Logins!TypeOK /\ LoginsBreakerIs /\ LoginsFailuresAreCounted

\* Sets of processes are finite.
LEMMA LoginsProcessesCount ==
  ASSUME NEW S \in SUBSET logins_Processes
  PROVE  /\ IsFiniteSet(S) /\ Cardinality(S) \in Nat
         /\ Cardinality(logins_Processes) \in Nat
              /\ Cardinality(S) <= Cardinality(logins_Processes)
         /\ \A p \in logins_Processes :
              /\ Cardinality(S \cup {p}) = IF p \in S THEN Cardinality(S)
                   ELSE Cardinality(S) + 1
              /\ Cardinality(S \ {p}) = IF p \in S THEN Cardinality(S) - 1 ELSE Cardinality(S)
<1>1. IsFiniteSet(S) /\ Cardinality(S) <= Cardinality(logins_Processes)
  BY LoginsAssumption, FS_Subset
<1>2. Cardinality(S) \in Nat /\ Cardinality(logins_Processes) \in Nat
  BY <1>1, LoginsAssumption, FS_CardinalityType
<1> QED
  BY <1>1, <1>2, FS_AddElement, FS_RemoveElement

\* What a failure makes of a breaker.
LEMMA LoginsCountedIsBreaker ==
  ASSUME NEW b \in Logins!Breaker
  PROVE  /\ Logins!Counted(b) \in Logins!Breaker /\ Logins!Counted(b).failures = b.failures + 1
         /\ ~Logins!Counted(b).open => Logins!Counted(b).failures < logins_Threshold
<1>1. b.failures \in Nat /\ b.open \in BOOLEAN
  BY DEF Logins!Breaker
<1>2. /\ Logins!Counted(b).failures = b.failures + 1
      /\ Logins!Counted(b).open <=> (b.open \/ b.failures + 1 >= logins_Threshold)
  BY DEF Logins!Counted
<1>3. b.failures + 1 \in Nat /\ (b.open \/ b.failures + 1 >= logins_Threshold) \in BOOLEAN
  BY <1>1
<1>4. Logins!Counted(b) \in Logins!Breaker
  BY <1>3, Zenon DEF Logins!Breaker, Logins!Counted
<1>5. ~(b.failures + 1 >= logins_Threshold) => b.failures + 1 < logins_Threshold
  BY <1>1, LoginsAssumption
<1> QED
  BY <1>2, <1>4, <1>5

\* The module's cardinality is the one of finite sets.
LEMMA LoginsCardinalityIs == \A S : Logins!Cardinality(S) = Cardinality(S)
  BY DEF Logins!Cardinality, Cardinality

\* The invariant says what the breakers promise.
LEMMA LoginsFailuresAreBounded == LoginsIInv => Logins!LoginsAreBounded
<1> SUFFICES ASSUME LoginsIInv, logins_outages = 0
             PROVE  logins_failed <= logins_Threshold + Cardinality(logins_Processes) - 1 + logins_uncounted
  BY LoginsCardinalityIs DEF Logins!LoginsAreBounded
<1>1. LoginsFailing \in SUBSET LoginsOut /\ LoginsOut \in SUBSET logins_Processes
        /\ IsFiniteSet(LoginsOut)
  BY LoginsProcessesCount DEF LoginsFailing, LoginsOut
<1>2. Cardinality(LoginsFailing) <= Cardinality(LoginsOut)
  BY <1>1, FS_Subset
<1>3. /\ Cardinality(LoginsFailing) \in Nat /\ Cardinality(LoginsOut) \in Nat
           /\ Cardinality(logins_Processes) \in Nat
      /\ logins_shared.failures \in Nat /\ logins_failed \in Nat /\ logins_uncounted \in Nat
  BY <1>1, LoginsProcessesCount DEF LoginsIInv, Logins!TypeOK, Logins!Breaker
<1>4. /\ logins_failed <= logins_shared.failures + Cardinality(LoginsFailing) + logins_uncounted
      /\ logins_shared.failures + Cardinality(LoginsOut) <= logins_Threshold - 1 + Cardinality(logins_Processes)
  BY DEF LoginsIInv, LoginsFailuresAreCounted
<1> QED
  BY <1>2, <1>3, <1>4, LoginsAssumption

\* A service that starts.
LEMMA LoginsInvariantInitially == Logins!Init => LoginsIInv
<1> SUFFICES ASSUME Logins!Init
             PROVE  LoginsIInv
  OBVIOUS
<1>1. LoginsFailing = {} /\ LoginsOut = {}
  BY DEF Logins!Init, LoginsFailing, LoginsOut
<1>2. Logins!TypeOK
  BY LoginsAssumption DEF Logins!Init, Logins!TypeOK, Logins!Breaker, Logins!Closed
<1>3. LoginsBreakerIs
  BY LoginsAssumption DEF Logins!Init, LoginsBreakerIs, Logins!Closed
<1>4. Cardinality({}) = 0 /\ Cardinality(logins_Processes) \in Nat
  BY FS_EmptySet, LoginsProcessesCount
<1>5. LoginsFailuresAreCounted
  BY <1>1, <1>4, LoginsAssumption DEF Logins!Init, LoginsFailuresAreCounted, Logins!Closed
<1> QED
  BY <1>2, <1>3, <1>5 DEF LoginsIInv

\* How many may fail after a step of one process.
LEMMA LoginsOutMoves ==
  ASSUME LoginsIInv, NEW p \in logins_Processes, NEW at,
         logins_login' = [logins_login EXCEPT ![p] = at]
  PROVE  /\ LoginsFailing' = IF at = "failing" THEN LoginsFailing \cup {p}
              ELSE LoginsFailing \ {p}
         /\ LoginsOut' = IF at \in {"sent", "failing"} THEN LoginsOut \cup {p}
              ELSE LoginsOut \ {p}
         /\ p \in LoginsFailing <=> logins_login[p] = "failing"
         /\ p \in LoginsOut <=> logins_login[p] \in {"sent", "failing"}
<1>1. \A q \in logins_Processes : logins_login'[q] = IF q = p THEN at ELSE logins_login[q]
  BY DEF LoginsIInv, Logins!TypeOK
<1> QED
  BY <1>1 DEF LoginsFailing, LoginsOut

\* A process whose login is not under way is not counted with them.
LEMMA LoginsOutLeft ==
  ASSUME LoginsIInv, NEW p \in logins_Processes, NEW at \in {"rest", "checked", "succeeding"},
         logins_login' = [logins_login EXCEPT ![p] = at]
  PROVE  LoginsFailing' = LoginsFailing \ {p} /\ LoginsOut' = LoginsOut \ {p}
<1>1. \A q \in logins_Processes : logins_login'[q] = IF q = p THEN at ELSE logins_login[q]
  BY DEF LoginsIInv, Logins!TypeOK
<1> QED
  BY <1>1 DEF LoginsFailing, LoginsOut

\* Every step of the service keeps the invariant.
LEMMA LoginsInvariantKept == LoginsIInv /\ [Logins!Next]_loginsVars => LoginsIInv'
<1> SUFFICES ASSUME LoginsIInv, [Logins!Next]_loginsVars
             PROVE  LoginsIInv'
  OBVIOUS
<1> DEFINE F == Cardinality(LoginsFailing)
           O == Cardinality(LoginsOut)
           N == Cardinality(logins_Processes)
<1>1. /\ LoginsFailing \in SUBSET logins_Processes /\ LoginsOut \in SUBSET logins_Processes
      /\ F \in Nat /\ O \in Nat /\ N \in Nat /\ O <= N
  BY LoginsProcessesCount DEF LoginsFailing, LoginsOut
<1>2. /\ logins_shared.failures \in Nat /\ logins_failed \in Nat /\ logins_uncounted \in Nat
           /\ logins_shared \in Logins!Breaker
      /\ Logins!Closed \in Logins!Breaker /\ Logins!Closed.failures = 0
           /\ Logins!Closed.open = FALSE
  BY DEF LoginsIInv, Logins!TypeOK, Logins!Breaker, Logins!Closed
<1>3. \A b \in Logins!Breaker : /\ Logins!Counted(b) \in Logins!Breaker
                                     /\ Logins!Counted(b).failures = b.failures + 1
                                /\ ~Logins!Counted(b).open
                                     => Logins!Counted(b).failures < logins_Threshold
  BY LoginsCountedIsBreaker
<1>4. \A p \in logins_Processes : logins_memory[p] \in Logins!Breaker
  BY DEF LoginsIInv, Logins!TypeOK
<1>5. logins_outages = 0 => logins_failed <= logins_shared.failures + F + logins_uncounted
                            /\ logins_shared.failures + O <= logins_Threshold - 1 + N
  BY DEF LoginsIInv, LoginsFailuresAreCounted
<1>6. \A p \in logins_Processes :
         /\ Cardinality(LoginsFailing \cup {p}) = IF p \in LoginsFailing THEN F ELSE F + 1
         /\ Cardinality(LoginsFailing \ {p}) = IF p \in LoginsFailing THEN F - 1 ELSE F
         /\ Cardinality(LoginsOut \cup {p}) = IF p \in LoginsOut THEN O ELSE O + 1
         /\ Cardinality(LoginsOut \ {p}) = IF p \in LoginsOut THEN O - 1 ELSE O
  BY <1>1, LoginsProcessesCount
<1> DEFINE F2 == Cardinality(LoginsFailing')
           O2 == Cardinality(LoginsOut')
<1>7. LoginsOut' \in SUBSET logins_Processes /\ O2 \in Nat /\ O2 <= N
  BY LoginsProcessesCount DEF LoginsOut
<1>8. ASSUME Logins!TypeOK', LoginsBreakerIs',
             logins_outages' = 0 => logins_failed' <= logins_shared'.failures + F2 + logins_uncounted'
                                    /\ logins_shared'.failures + O2 <= logins_Threshold - 1 + N
      PROVE  LoginsIInv'
  BY <1>8 DEF LoginsIInv, LoginsFailuresAreCounted
<1>9. ASSUME NEW p \in logins_Processes, Logins!MayTry(p)
      PROVE  LoginsIInv'
  <2>1. /\ logins_memory' \in [logins_Processes -> Logins!Breaker]
        /\ logins_login' = [logins_login EXCEPT ![p] = "checked"] /\ logins_login[p] = "rest"
        /\ UNCHANGED <<logins_shared, logins_redisUp, logins_outages, logins_restarts,
                       logins_failed, logins_uncounted>>
    BY <1>2, <1>9 DEF Logins!MayTry, LoginsIInv, Logins!TypeOK
  <2>2. Logins!TypeOK' /\ LoginsBreakerIs'
    BY <2>1 DEF LoginsIInv, Logins!TypeOK, LoginsBreakerIs
  <2>3. F2 = F /\ O2 = O
    <3>1. LoginsFailing' = LoginsFailing \ {p} /\ LoginsOut' = LoginsOut \ {p}
      BY <2>1, LoginsOutLeft
    <3>2. p \notin LoginsFailing /\ p \notin LoginsOut
      BY <2>1 DEF LoginsFailing, LoginsOut
    <3> QED
      BY <1>1, <1>6, <3>1, <3>2
  <2> HIDE DEF F, O, N, F2, O2
  <2> QED
    BY <1>5, <1>8, <2>1, <2>2, <2>3
<1>10. ASSUME NEW p \in logins_Processes, Logins!AskRedis(p)
       PROVE  LoginsIInv'
  <2>1. /\ logins_login[p] = "checked"
        /\ \/ logins_login' = [logins_login EXCEPT ![p] = "rest"]
           \/ logins_login' = [logins_login EXCEPT ![p] = "sent"]
                /\ ~(logins_redisUp /\ logins_shared.open)
        /\ UNCHANGED <<logins_memory, logins_shared, logins_redisUp, logins_outages,
                       logins_restarts, logins_failed, logins_uncounted>>
    BY <1>10 DEF Logins!AskRedis
  <2>2. Logins!TypeOK' /\ LoginsBreakerIs'
    BY <2>1 DEF LoginsIInv, Logins!TypeOK, LoginsBreakerIs
  <2>3. F2 = F
    BY <1>6, <2>1, LoginsOutMoves
  <2>4. O2 = O \/ ~(logins_redisUp /\ logins_shared.open)
    BY <1>6, <2>1, LoginsOutMoves
  <2>5. logins_outages = 0 /\ ~(logins_redisUp /\ logins_shared.open)
          => logins_shared.failures < logins_Threshold
    BY DEF LoginsIInv, LoginsBreakerIs
  <2> HIDE DEF F, O, N, F2, O2
  <2>6. logins_outages' = 0 => logins_failed' <= logins_shared'.failures + F2 + logins_uncounted'
                                    /\ logins_shared'.failures + O2 <= logins_Threshold - 1 + N
    BY <1>1, <1>2, <1>5, <1>7, <2>1, <2>3, <2>4, <2>5, LoginsAssumption
  <2> QED
    BY <1>8, <2>2, <2>6
<1>11. ASSUME NEW p \in logins_Processes, Logins!LoginFails(p)
       PROVE  LoginsIInv'
  <2>1. /\ logins_login[p] = "sent" /\ logins_login' = [logins_login EXCEPT ![p] = "failing"]
             /\ logins_failed' = logins_failed + 1
        /\ logins_memory' = [logins_memory EXCEPT ![p] = Logins!Counted(@)]
        /\ UNCHANGED <<logins_shared, logins_redisUp, logins_outages, logins_restarts,
                       logins_uncounted>>
    BY <1>11 DEF Logins!LoginFails
  <2>2. Logins!TypeOK' /\ LoginsBreakerIs'
    BY <1>2, <1>3, <1>4, <2>1 DEF LoginsIInv, Logins!TypeOK, LoginsBreakerIs
  <2>3. F2 = F + 1 /\ O2 = O
    BY <1>6, <2>1, LoginsOutMoves
  <2> HIDE DEF F, O, N, F2, O2
  <2> QED
    BY <1>1, <1>2, <1>5, <1>8, <2>1, <2>2, <2>3
<1>12. ASSUME NEW p \in logins_Processes, Logins!CountFailure(p)
       PROVE  LoginsIInv'
  <2>1. /\ logins_login[p] = "failing" /\ logins_login' = [logins_login EXCEPT ![p] = "rest"]
        /\ logins_shared' = IF logins_redisUp THEN Logins!Counted(logins_shared)
             ELSE logins_shared
        /\ UNCHANGED <<logins_memory, logins_redisUp, logins_outages, logins_restarts,
                       logins_failed, logins_uncounted>>
    BY <1>12 DEF Logins!CountFailure
  <2>2. Logins!TypeOK' /\ LoginsBreakerIs'
    BY <1>2, <1>3, <2>1 DEF LoginsIInv, Logins!TypeOK, LoginsBreakerIs
  <2>3. F2 = F - 1 /\ O2 = O - 1
    <3>1. LoginsFailing' = LoginsFailing \ {p} /\ LoginsOut' = LoginsOut \ {p}
      BY <2>1, LoginsOutLeft
    <3>2. p \in LoginsFailing /\ p \in LoginsOut
      BY <2>1 DEF LoginsFailing, LoginsOut
    <3> QED
      BY <1>1, <1>6, <3>1, <3>2
  <2>4. logins_outages = 0 => logins_shared'.failures = logins_shared.failures + 1
    BY <1>2, <1>3, <2>1 DEF LoginsIInv, LoginsBreakerIs
  <2> HIDE DEF F, O, N, F2, O2
  <2> QED
    BY <1>1, <1>2, <1>5, <1>8, <2>1, <2>2, <2>3, <2>4
<1>13. ASSUME NEW p \in logins_Processes, Logins!LoginSucceeds(p)
       PROVE  LoginsIInv'
  <2>1. /\ logins_login[p] = "sent" /\ logins_login' = [logins_login EXCEPT ![p] = "succeeding"]
        /\ logins_memory' = [logins_memory EXCEPT ![p] = Logins!Closed]
        /\ UNCHANGED <<logins_shared, logins_redisUp, logins_outages, logins_restarts,
                       logins_failed, logins_uncounted>>
    BY <1>13 DEF Logins!LoginSucceeds
  <2>2. Logins!TypeOK' /\ LoginsBreakerIs'
    BY <1>2, <2>1 DEF LoginsIInv, Logins!TypeOK, LoginsBreakerIs
  <2>3. F2 = F /\ O2 = O - 1
    <3>1. LoginsFailing' = LoginsFailing \ {p} /\ LoginsOut' = LoginsOut \ {p}
      BY <2>1, LoginsOutLeft
    <3>2. p \notin LoginsFailing /\ p \in LoginsOut
      BY <2>1 DEF LoginsFailing, LoginsOut
    <3> QED
      BY <1>1, <1>6, <3>1, <3>2
  <2> HIDE DEF F, O, N, F2, O2
  <2> QED
    BY <1>1, <1>2, <1>5, <1>8, <2>1, <2>2, <2>3, LoginsAssumption
<1>14. ASSUME NEW p \in logins_Processes, Logins!ResetShared(p)
       PROVE  LoginsIInv'
  <2>1. /\ logins_login[p] = "succeeding" /\ logins_login' = [logins_login EXCEPT ![p] = "rest"]
        /\ \/ logins_shared' = Logins!Closed /\ logins_failed' = 0 /\ logins_uncounted' = 0
           \/ UNCHANGED <<logins_shared, logins_failed, logins_uncounted>>
        /\ UNCHANGED <<logins_memory, logins_redisUp, logins_outages, logins_restarts>>
    BY <1>14 DEF Logins!ResetShared
  <2>2. Logins!TypeOK' /\ LoginsBreakerIs'
    BY <1>2, <2>1, LoginsAssumption DEF LoginsIInv, Logins!TypeOK, LoginsBreakerIs
  <2>3. F2 = F /\ O2 = O
    <3>1. LoginsFailing' = LoginsFailing \ {p} /\ LoginsOut' = LoginsOut \ {p}
      BY <2>1, LoginsOutLeft
    <3>2. p \notin LoginsFailing /\ p \notin LoginsOut
      BY <2>1 DEF LoginsFailing, LoginsOut
    <3> QED
      BY <1>1, <1>6, <3>1, <3>2
  <2> HIDE DEF F, O, N, F2, O2
  <2> QED
    BY <1>1, <1>2, <1>5, <1>8, <2>1, <2>2, <2>3, LoginsAssumption
<1>15. CASE Logins!Expire
  <2>1. /\ logins_shared' = Logins!Closed /\ logins_failed' = 0 /\ logins_uncounted' = 0
        /\ UNCHANGED <<logins_login, logins_memory, logins_redisUp, logins_outages,
                       logins_restarts>>
    BY <1>15 DEF Logins!Expire
  <2>2. Logins!TypeOK' /\ LoginsBreakerIs'
    BY <1>2, <2>1, LoginsAssumption DEF LoginsIInv, Logins!TypeOK, LoginsBreakerIs
  <2>3. F2 = F /\ O2 = O
    BY <2>1 DEF LoginsFailing, LoginsOut
  <2> HIDE DEF F, O, N, F2, O2
  <2> QED
    BY <1>1, <1>2, <1>8, <2>1, <2>2, <2>3, LoginsAssumption
<1>16. ASSUME NEW p \in logins_Processes, Logins!Restart(p)
       PROVE  LoginsIInv'
  <2>1. /\ logins_login' = [logins_login EXCEPT ![p] = "rest"]
             /\ logins_restarts' = logins_restarts + 1 /\ logins_restarts < logins_MaxRestarts
        /\ logins_uncounted' = logins_uncounted + (IF logins_login[p] = "failing" THEN 1 ELSE 0)
        /\ logins_memory' = [logins_memory EXCEPT ![p] = Logins!Closed]
        /\ UNCHANGED <<logins_shared, logins_redisUp, logins_outages, logins_failed>>
    BY <1>16 DEF Logins!Restart
  <2>2. logins_uncounted' \in Nat /\ logins_restarts' \in 0 .. logins_MaxRestarts
    BY <1>2, <2>1, LoginsAssumption DEF LoginsIInv, Logins!TypeOK
  <2>3. Logins!TypeOK' /\ LoginsBreakerIs'
    BY <1>2, <2>1, <2>2 DEF LoginsIInv, Logins!TypeOK, LoginsBreakerIs
  <2>4. F2 = (IF logins_login[p] = "failing" THEN F - 1 ELSE F) /\ O2 <= O
    <3>1. LoginsFailing' = LoginsFailing \ {p} /\ LoginsOut' = LoginsOut \ {p}
      BY <2>1, LoginsOutLeft
    <3>2. p \in LoginsFailing <=> logins_login[p] = "failing"
      BY DEF LoginsFailing
    <3>3. F2 = (IF logins_login[p] = "failing" THEN F - 1 ELSE F)
      BY <1>6, <3>1, <3>2
    <3>4. O2 = O \/ O2 = O - 1
      BY <1>6, <3>1
    <3> QED
      BY <1>1, <3>3, <3>4
  <2> HIDE DEF F, O, N, F2, O2
  <2>5. logins_outages' = 0 => logins_failed' <= logins_shared'.failures + F2 + logins_uncounted'
                                    /\ logins_shared'.failures + O2 <= logins_Threshold - 1 + N
    BY <1>1, <1>2, <1>5, <1>7, <2>1, <2>4, LoginsAssumption
  <2> QED
    BY <1>8, <2>3, <2>5
<1>17. CASE Logins!Outage
  <2>1. /\ UNCHANGED <<logins_login, logins_memory, logins_shared, logins_restarts,
                       logins_failed, logins_uncounted>>
        /\ \/ logins_redisUp' = FALSE /\ logins_outages' = logins_outages + 1
                /\ logins_outages < logins_MaxOutages
           \/ logins_redisUp' = TRUE /\ logins_outages' = logins_outages
    BY <1>17 DEF Logins!Outage
  <2>2. logins_outages' \in 0 .. logins_MaxOutages
          /\ (logins_outages' = 0 => logins_redisUp' /\ logins_outages = 0)
    BY <2>1, LoginsAssumption DEF LoginsIInv, Logins!TypeOK, LoginsBreakerIs
  <2>3. Logins!TypeOK' /\ LoginsBreakerIs'
    BY <2>1, <2>2 DEF LoginsIInv, Logins!TypeOK, LoginsBreakerIs
  <2>4. F2 = F /\ O2 = O
    BY <2>1 DEF LoginsFailing, LoginsOut
  <2> HIDE DEF F, O, N, F2, O2
  <2> QED
    BY <1>5, <1>8, <2>1, <2>2, <2>3, <2>4
<1>18. CASE UNCHANGED loginsVars
  <2>1. UNCHANGED <<logins_login, logins_memory, logins_shared, logins_redisUp, logins_outages,
                    logins_restarts, logins_failed, logins_uncounted>>
    BY <1>18 DEF loginsVars
  <2> QED
    BY <2>1 DEF LoginsIInv, Logins!TypeOK, LoginsBreakerIs, LoginsFailuresAreCounted,
       LoginsFailing, LoginsOut
<1> QED
  BY <1>9, <1>10, <1>11, <1>12, <1>13, <1>14, <1>15, <1>16, <1>17, <1>18 DEF Logins!Next


\* The invariant of this service, whenever it is the one that acts.
LEMMA LoginsInvariant == AccountSpec => [](account = "logins" => LoginsIInv)
<1>1. AccountInit => (account = "logins" => LoginsIInv)
  BY LoginsInvariantInitially DEF AccountInit
<1>2. (account = "logins" => LoginsIInv) /\ [AccountNext]_accountVars
        => (account = "logins" => LoginsIInv)'
  BY LoginsInvariantKept DEF AccountNext, accountVars
<1> QED
  BY <1>1, <1>2, PTL DEF AccountSpec

-----------------------------------------------------------------------------
(***************************************************************************)
(* The bucket of reads (ReadQuota).                                        *)
(***************************************************************************)

\* What is left is what a stretch that ends now has not spent.
QuotaLevelIsUnspent ==
  \A i \in 1..quota_now :
    quota_spent[quota_now] - quota_spent[i - 1] + Quota!Level <= quota_Capacity + (quota_now - i)

QuotaIInv == Quota!TypeOK /\ QuotaLevelIsUnspent /\ Quota!SpendingIsBounded

\* The level is within the bucket.
LEMMA QuotaLevelIs ==
  ASSUME Quota!TypeOK
  PROVE  Quota!Level \in 0..quota_Capacity
  BY QuotaAssumption DEF Quota!TypeOK, Quota!Level, Quota!Least

\* The first state.
LEMMA QuotaInvariantInitially == Quota!Init => QuotaIInv
<1> SUFFICES ASSUME Quota!Init PROVE QuotaIInv
  OBVIOUS
<1>1. Quota!TypeOK
  BY QuotaAssumption DEF Quota!Init, Quota!TypeOK, Quota!Fresh
<1>2. Quota!Level = quota_Capacity /\ quota_now = 1 /\ quota_spent[0] = 0 /\ quota_spent[1] = 0
  BY QuotaAssumption DEF Quota!Init, Quota!Level, Quota!Fresh
<1>3. QuotaLevelIsUnspent /\ Quota!SpendingIsBounded
  BY <1>2, QuotaAssumption DEF QuotaLevelIsUnspent, Quota!SpendingIsBounded
<1> QED
  BY <1>1, <1>3 DEF QuotaIInv

\* The script stores a level, and what it took has been spent.
LEMMA QuotaStoreStep ==
  ASSUME QuotaIInv, NEW cost \in Nat, cost <= Quota!Level,
         Quota!Stores(Quota!Level - cost),
         quota_spent' = [quota_spent EXCEPT ![quota_now] = quota_spent[quota_now] + cost],
         quota_now' = quota_now
  PROVE  QuotaIInv'
<1>1. Quota!Level \in 0..quota_Capacity /\ quota_Capacity \in Nat
        /\ quota_now \in 1..quota_Horizon /\ quota_Horizon \in Nat
  BY QuotaLevelIs, QuotaAssumption DEF QuotaIInv, Quota!TypeOK
<1>2. /\ quota_key'.level = Quota!Level - cost /\ quota_key'.at = quota_now
           /\ quota_key'.live = TRUE
      /\ quota_key' \in [level : 0..quota_Capacity, at : 0..quota_Horizon, live : BOOLEAN]
  BY <1>1 DEF Quota!Stores
<1>3. /\ quota_spent' \in [0..quota_Horizon -> Nat]
      /\ quota_spent'[quota_now] = quota_spent[quota_now] + cost
      /\ \A t \in 0..quota_Horizon : t # quota_now => quota_spent'[t] = quota_spent[t]
      /\ quota_spent \in [0..quota_Horizon -> Nat]
  BY <1>1 DEF QuotaIInv, Quota!TypeOK
<1>4. Quota!TypeOK'
  BY <1>1, <1>2, <1>3 DEF Quota!TypeOK
<1>5. Quota!Level' = Quota!Level - cost
  BY <1>1, <1>2 DEF Quota!Level, Quota!Least
<1>6. QuotaLevelIsUnspent'
  <2> SUFFICES ASSUME NEW i \in 1..quota_now
               PROVE  quota_spent'[quota_now] - quota_spent'[i - 1] + Quota!Level' <= quota_Capacity + (quota_now - i)
    BY DEF QuotaLevelIsUnspent
  <2>1. quota_spent[quota_now] - quota_spent[i - 1] + Quota!Level <= quota_Capacity + (quota_now - i)
    BY DEF QuotaIInv, QuotaLevelIsUnspent
  <2>2. i - 1 \in 0..quota_Horizon /\ i - 1 # quota_now /\ quota_spent[quota_now] \in Nat
          /\ quota_spent[i - 1] \in Nat
    BY <1>1, <1>3
  <2>3. quota_spent'[i - 1] = quota_spent[i - 1]
    BY <1>3, <2>2
  <2> HIDE DEF Quota!Level
  <2> QED
    BY <1>1, <1>3, <1>5, <2>1, <2>2, <2>3
<1>7. Quota!SpendingIsBounded'
  <2> SUFFICES ASSUME NEW i \in 1..quota_now, NEW j \in i..quota_now
               PROVE  quota_spent'[j] - quota_spent'[i - 1] <= quota_Capacity + (j - i)
    BY DEF Quota!SpendingIsBounded
  <2>1. CASE j = quota_now
    <3>1. quota_spent'[quota_now] - quota_spent'[i - 1] + Quota!Level' <= quota_Capacity + (quota_now - i)
      BY <1>6 DEF QuotaLevelIsUnspent
    <3>2. i - 1 \in 0..quota_Horizon /\ quota_spent'[quota_now] \in Nat
            /\ quota_spent'[i - 1] \in Nat
      BY <1>1, <1>3
    <3> QED
      BY <1>1, <1>5, <2>1, <3>1, <3>2
  <2>2. CASE j # quota_now
    <3>1. /\ i - 1 \in 0..quota_Horizon /\ i - 1 # quota_now /\ j \in 0..quota_Horizon
          /\ quota_spent[j] - quota_spent[i - 1] <= quota_Capacity + (j - i)
      BY <1>1 DEF QuotaIInv, Quota!SpendingIsBounded
    <3> QED
      BY <1>3, <2>2, <3>1
  <2> QED
    BY <2>1, <2>2
<1> QED
  BY <1>4, <1>6, <1>7 DEF QuotaIInv

\* A reservation is admitted and paid for, or refused; a snapshot pays nothing.
LEMMA QuotaReserveStep ==
  ASSUME QuotaIInv, NEW cost \in Nat, NEW keep \in Nat,
         Quota!Reserve(cost, keep) \/ Quota!Snapshot
  PROVE  QuotaIInv'
<1>1. /\ Quota!Level \in 0..quota_Capacity /\ quota_Capacity \in Nat
           /\ quota_now \in 1..quota_Horizon
      /\ quota_spent \in [0..quota_Horizon -> Nat] /\ quota_now' = quota_now
  BY QuotaLevelIs, QuotaAssumption DEF QuotaIInv, Quota!TypeOK, Quota!Reserve,
     Quota!Snapshot
<1>2. CASE Quota!Level >= cost + keep /\ Quota!Stores(Quota!Level - cost)
             /\ quota_spent' = [quota_spent EXCEPT ![quota_now] = @ + cost]
  <2>1. cost <= Quota!Level
    BY <1>1, <1>2
  <2> QED
    BY <1>1, <1>2, <2>1, QuotaStoreStep
<1>3. CASE Quota!Stores(Quota!Level) /\ UNCHANGED quota_spent
  <2>1. 0 \in Nat /\ 0 <= Quota!Level /\ Quota!Level - 0 = Quota!Level
    BY <1>1
  <2>2. Quota!Stores(Quota!Level - 0)
    BY <1>3, <2>1
  <2>3. quota_spent' = [quota_spent EXCEPT ![quota_now] = quota_spent[quota_now] + 0]
    BY <1>1, <1>3
  <2> QED
    BY <1>1, <2>1, <2>2, <2>3, QuotaStoreStep
<1> QED
  BY <1>2, <1>3 DEF Quota!Reserve, Quota!Snapshot

\* Time passes.  A key that expires was of a bucket that had filled.
LEMMA QuotaTickStep ==
  ASSUME QuotaIInv, Quota!Tick
  PROVE  QuotaIInv'
<1>1. /\ Quota!Level \in 0..quota_Capacity /\ quota_Capacity \in Nat
           /\ quota_now \in 1..quota_Horizon /\ quota_Horizon \in Nat
      /\ quota_now < quota_Horizon /\ quota_now' = quota_now + 1 /\ quota_TTL \in Nat
           /\ quota_Capacity <= quota_TTL
      /\ quota_spent \in [0..quota_Horizon -> Nat]
      /\ quota_key \in [level : 0..quota_Capacity, at : 0..quota_Horizon, live : BOOLEAN]
           /\ quota_key.at <= quota_now
  BY QuotaLevelIs, QuotaAssumption DEF QuotaIInv, Quota!TypeOK, Quota!Tick
<1>2. /\ quota_spent' \in [0..quota_Horizon -> Nat]
      /\ quota_spent'[quota_now + 1] = quota_spent[quota_now]
      /\ \A t \in 0..quota_now : quota_spent'[t] = quota_spent[t]
  BY <1>1 DEF Quota!Tick
<1>3. Quota!TypeOK'
  <2>1. quota_key' = quota_key \/ quota_key' = Quota!Fresh
    BY DEF Quota!Tick
  <2>2. /\ Quota!Fresh \in [level : 0..quota_Capacity, at : 0..quota_Horizon, live : BOOLEAN]
        /\ Quota!Fresh.at = 0
    BY <1>1 DEF Quota!Fresh
  <2>3. quota_key' \in [level : 0..quota_Capacity, at : 0..quota_Horizon, live : BOOLEAN]
          /\ quota_key'.at <= quota_now'
    <3>1. CASE quota_key' = quota_key
      BY <1>1, <3>1
    <3>2. CASE quota_key' = Quota!Fresh
      BY <1>1, <2>2, <3>2
    <3> QED
      BY <2>1, <3>1, <3>2
  <2> QED
    BY <1>1, <1>2, <2>3 DEF Quota!TypeOK
<1>4. Quota!Level' \in 0..quota_Capacity /\ Quota!Level' <= Quota!Level + 1
  <2>1. Quota!Level' \in 0..quota_Capacity
    <3>1. /\ quota_key' \in [level : 0..quota_Capacity, at : 0..quota_Horizon, live : BOOLEAN]
          /\ quota_key'.at <= quota_now' /\ quota_now' \in Nat
      BY <1>1, <1>3 DEF Quota!TypeOK
    <3>2. quota_key'.level \in Nat /\ quota_key'.at \in Nat
            /\ quota_now' - quota_key'.at \in Nat /\ quota_Capacity \in Nat
      BY <1>1, <3>1
    <3>3. \A b \in Nat : Quota!Least(quota_Capacity, b) \in 0..quota_Capacity
      BY <1>1 DEF Quota!Least
    <3>4. quota_key'.level + (quota_now' - quota_key'.at) \in Nat
            /\ quota_Capacity \in 0..quota_Capacity
      BY <3>2
    <3> QED
      BY <3>3, <3>4 DEF Quota!Level
  <2>2. CASE Quota!Expired
    <3>1. quota_key.live /\ quota_now + 1 - quota_key.at > quota_TTL
      BY <2>2 DEF Quota!Expired
    <3>2. Quota!Level = quota_Capacity
      BY <1>1, <3>1 DEF Quota!Level, Quota!Least
    <3> QED
      BY <1>1, <2>1, <3>2
  <2>3. CASE ~Quota!Expired
    <3>1. quota_key' = quota_key
      BY <2>3 DEF Quota!Tick
    <3>2. CASE quota_key.live
      <4>1. /\ Quota!Level = Quota!Least(quota_Capacity,
                                         quota_key.level + (quota_now - quota_key.at))
            /\ Quota!Level' = Quota!Least(quota_Capacity,
                                          quota_key.level + (quota_now + 1 - quota_key.at))
        BY <1>1, <3>1, <3>2 DEF Quota!Level
      <4>2. quota_key.level \in Int /\ quota_key.at \in Int /\ quota_now \in Int
              /\ quota_Capacity \in Int
        BY <1>1
      <4>3. \A b \in Int : Quota!Least(quota_Capacity, b + 1) <= Quota!Least(quota_Capacity,
                                                            b) + 1
        BY <4>2 DEF Quota!Least
      <4>4. quota_key.level + (quota_now - quota_key.at) \in Int
            /\ quota_key.level + (quota_now + 1 - quota_key.at) =
                 quota_key.level + (quota_now - quota_key.at) + 1
        BY <4>2
      <4>5. Quota!Level' <= Quota!Level + 1
        BY <4>1, <4>2, <4>3, <4>4
      <4> QED
        BY <2>1, <4>5
    <3>3. CASE ~quota_key.live
      <4>1. Quota!Level = quota_Capacity /\ Quota!Level' = quota_Capacity
        BY <3>1, <3>3 DEF Quota!Level
      <4> QED
        BY <1>1, <4>1
    <3> QED
      BY <3>2, <3>3
  <2> QED
    BY <2>1, <2>2, <2>3
<1>5. QuotaLevelIsUnspent'
  <2> SUFFICES ASSUME NEW i \in 1..quota_now + 1
               PROVE  quota_spent'[quota_now + 1] - quota_spent'[i - 1] + Quota!Level' <= quota_Capacity + (quota_now + 1 - i)
    BY <1>1 DEF QuotaLevelIsUnspent
  <2>1. i - 1 \in 0..quota_now /\ quota_spent'[i - 1] = quota_spent[i - 1]
          /\ quota_spent[quota_now] \in Nat /\ quota_spent[i - 1] \in Nat
    BY <1>1, <1>2
  <2>2. CASE i = quota_now + 1
    BY <1>1, <1>2, <1>4, <2>1, <2>2
  <2>3. CASE i # quota_now + 1
    <3>1. i \in 1..quota_now /\ quota_spent[quota_now] - quota_spent[i - 1] + Quota!Level <= quota_Capacity + (quota_now - i)
      BY <1>1, <2>3 DEF QuotaIInv, QuotaLevelIsUnspent
    <3>2. /\ Quota!Level \in Int /\ Quota!Level' \in Int /\ quota_Capacity \in Int
               /\ quota_now \in Int /\ i \in Int
          /\ Quota!Level' <= Quota!Level + 1
               /\ quota_spent'[quota_now + 1] = quota_spent[quota_now]
      BY <1>1, <1>2, <1>4
    <3> QED
      BY <2>1, <3>1, <3>2
  <2> QED
    BY <2>2, <2>3
<1>6. Quota!SpendingIsBounded'
  <2> SUFFICES ASSUME NEW i \in 1..quota_now + 1, NEW j \in i..quota_now + 1
               PROVE  quota_spent'[j] - quota_spent'[i - 1] <= quota_Capacity + (j - i)
    BY <1>1 DEF Quota!SpendingIsBounded
  <2>1. CASE j = quota_now + 1
    <3>1. quota_spent'[quota_now + 1] - quota_spent'[i - 1] + Quota!Level' <= quota_Capacity + (quota_now + 1 - i)
      BY <1>1, <1>5 DEF QuotaLevelIsUnspent
    <3>2. /\ quota_spent'[quota_now + 1] \in Int /\ quota_spent'[i - 1] \in Int
               /\ Quota!Level' \in Nat
          /\ quota_Capacity \in Int /\ quota_now \in Int /\ i \in Int
      BY <1>1, <1>2, <1>4
    <3> QED
      BY <2>1, <3>1, <3>2
  <2>2. CASE j # quota_now + 1
    <3>1. j \in 0..quota_now /\ i - 1 \in 0..quota_now
            /\ quota_spent[j] - quota_spent[i - 1] <= quota_Capacity + (j - i)
      BY <1>1, <2>2 DEF QuotaIInv, Quota!SpendingIsBounded
    <3> QED
      BY <1>2, <3>1
  <2> QED
    BY <2>1, <2>2
<1> QED
  BY <1>3, <1>5, <1>6 DEF QuotaIInv

\* Every step, and no step at all.
LEMMA QuotaInvariantKept == QuotaIInv /\ [Quota!Next]_quotaVars => QuotaIInv'
<1> SUFFICES ASSUME QuotaIInv, [Quota!Next]_quotaVars
             PROVE  QuotaIInv'
  OBVIOUS
<1>1. CASE UNCHANGED quotaVars
  BY <1>1 DEF quotaVars, QuotaIInv, Quota!TypeOK, QuotaLevelIsUnspent,
     Quota!SpendingIsBounded, Quota!Level, Quota!Least
<1>2. quota_Cost \in Nat /\ 2 * quota_Cost \in Nat /\ 0 \in Nat /\ quota_ManualKeep \in Nat
  BY QuotaAssumption
<1> QED
  BY <1>1, <1>2, QuotaReserveStep, QuotaTickStep DEF Quota!Next, Quota!Background,
     Quota!Manual


\* The invariant of this service, whenever it is the one that acts.
LEMMA QuotaInvariant == AccountSpec => [](account = "quota" => QuotaIInv)
<1>1. AccountInit => (account = "quota" => QuotaIInv)
  BY QuotaInvariantInitially DEF AccountInit
<1>2. (account = "quota" => QuotaIInv) /\ [AccountNext]_accountVars
        => (account = "quota" => QuotaIInv)'
  BY QuotaInvariantKept DEF AccountNext, accountVars
<1> QED
  BY <1>1, <1>2, PTL DEF AccountSpec

-----------------------------------------------------------------------------
(***************************************************************************)
(* The reads of the wrapper and what they cost (DeviceAccess).             *)
(***************************************************************************)

DevicePlaces == {"rest", "pay", "owe", "both", "lock", "load", "fetch", "read", "extra",
                 "done", "send",
                 "decide", "capacity"}
DevicePayments == [by : device_Accounts \cup {device_Local}, for : {"status", "extra"}]

\* A device is there only after a login, and a login names its account.
DeviceLoginsPrecede ==
  /\ device_authenticated => device_account # device_NoAccount
  /\ device_device # "none" => device_authenticated

\* Whoever reads has been admitted with what is in its purse, for the account
\* that is logged in.
DeviceAdmittedAs(x) == device_account # device_NoAccount
  => \A p \in x.purse : p.by \in {device_account, device_Local}

\* What a task has paid, and what it knows of the device, where it stands.
DeviceSound(x) ==
  /\ x.at \in {"lock", "load", "fetch", "read"} => \E p \in x.purse : p.for = "status"
  /\ x.kind \in {"usage", "manual"} /\ x.at \in {"pay", "lock", "load", "fetch", "read"}
       => \E p \in x.purse : p.for = "extra"
  /\ x.at = "extra" => \E p \in x.purse : p.for = "extra"
  /\ x.at \in {"fetch", "read", "extra"} => DeviceAdmittedAs(x) /\ device_authenticated
  /\ x.at \in {"load", "fetch"} => device_device = "none"
  /\ x.at \in {"read", "extra"} => device_device # "none"
  /\ x.at = "owe" => \/ x.kind = "usage" /\ x.purse = {}
                     \/ x.kind = "timer" /\ device_device # "none" /\ DeviceAdmittedAs(x)
  /\ x.at \in {"decide", "capacity"} => x.kind = "restore"

DeviceOneHolds == \A t, u \in device_Tasks : Device!Holding(t) /\ Device!Holding(u) => t = u

DeviceIInv == /\ Device!TypeOK
              /\ DeviceLoginsPrecede
              /\ \A t \in device_Tasks : DeviceSound(device_task[t])
              /\ DeviceOneHolds

\* The invariant says that reads are paid for.
LEMMA DevicePaidReads == DeviceIInv => Device!ReadsArePaid
<1> SUFFICES ASSUME DeviceIInv, NEW t \in device_Tasks
             PROVE  /\ device_task[t].at \in {"fetch", "read"} =>
                         Device!Paid(device_account, "status") \in device_task[t].purse
                           \/ Device!Paid(device_Local, "status") \in device_task[t].purse
                    /\ device_task[t].at = "extra" =>
                         Device!Paid(device_account, "extra") \in device_task[t].purse
                           \/ Device!Paid(device_Local, "extra") \in device_task[t].purse
                    /\ device_task[t].at = "fetch"
                         => device_device = "none"
                           /\ \A u \in device_Tasks \ {t} : ~Device!Holding(u)
  BY DEF Device!ReadsArePaid
<1>1. DeviceSound(device_task[t])
        /\ device_task[t].purse \in SUBSET [by : device_Accounts \cup {device_Local},
                                            for : {"status", "extra"}]
  BY DEF DeviceIInv, Device!TypeOK, Device!TaskType
<1>2. \A p \in device_task[t].purse : p = Device!Paid(p.by, p.for)
  BY <1>1 DEF Device!Paid
<1>3. device_task[t].at \in {"fetch", "read", "extra"}
        => \A p \in device_task[t].purse : p.by = device_account \/ p.by = device_Local
  BY <1>1 DEF DeviceSound, DeviceAdmittedAs, DeviceIInv, DeviceLoginsPrecede
<1>4. ASSUME device_task[t].at \in {"fetch", "read"}
      PROVE  Device!Paid(device_account, "status") \in device_task[t].purse
               \/ Device!Paid(device_Local, "status") \in device_task[t].purse
  <2>1. PICK p \in device_task[t].purse : p.for = "status"
    BY <1>1, <1>4 DEF DeviceSound
  <2> QED
    BY <1>2, <1>3, <1>4, <2>1
<1>5. ASSUME device_task[t].at = "extra"
      PROVE  Device!Paid(device_account, "extra") \in device_task[t].purse
               \/ Device!Paid(device_Local, "extra") \in device_task[t].purse
  <2>1. PICK p \in device_task[t].purse : p.for = "extra"
    BY <1>1, <1>5 DEF DeviceSound
  <2> QED
    BY <1>2, <1>3, <1>5, <2>1
<1>6. ASSUME device_task[t].at = "fetch"
      PROVE  device_device = "none" /\ \A u \in device_Tasks \ {t} : ~Device!Holding(u)
  BY <1>1, <1>6 DEF DeviceSound, DeviceIInv, DeviceOneHolds, Device!Holding
<1> QED
  BY <1>4, <1>5, <1>6

\* A service that starts.
LEMMA DeviceInvariantInitially == Device!Init => DeviceIInv
<1> SUFFICES ASSUME Device!Init
             PROVE  DeviceIInv
  OBVIOUS
<1>1. Device!Free \in Device!TaskType /\ Device!Free.at = "rest"
  BY DEF Device!Free, Device!TaskType, Device!Kinds
<1>2. Device!TypeOK
  BY <1>1 DEF Device!Init, Device!TypeOK
<1>3. \A t \in device_Tasks : device_task[t] = Device!Free
  BY DEF Device!Init
<1>4. (\A t \in device_Tasks : DeviceSound(device_task[t])) /\ DeviceOneHolds
  BY <1>1, <1>3 DEF DeviceSound, DeviceOneHolds, Device!Holding
<1> QED
  BY <1>2, <1>4 DEF Device!Init, DeviceIInv, DeviceLoginsPrecede

\* One task moves while the account and the device stay what they are.
LEMMA DeviceOneMoves ==
  ASSUME DeviceIInv, NEW t \in device_Tasks, NEW x \in Device!TaskType,
         device_task' = [device_task EXCEPT ![t] = x],
         UNCHANGED <<device_setting, device_account, device_authenticated, device_redisUp,
                     device_device>>,
         device_age' \in {"none", "fresh", "stale"}, device_backoff' \in BOOLEAN,
         DeviceSound(x),
         x.at \in {"load", "fetch"} => \A u \in device_Tasks \ {t} : ~Device!Holding(u)
  PROVE  DeviceIInv'
<1>1. \A u \in device_Tasks : device_task'[u] = IF u = t THEN x ELSE device_task[u]
  BY DEF DeviceIInv, Device!TypeOK
<1>2. Device!TypeOK'
  BY DEF DeviceIInv, Device!TypeOK
<1>3. \A u \in device_Tasks : DeviceSound(device_task'[u])
  BY <1>1 DEF DeviceIInv
<1>4. \A u \in device_Tasks : DeviceSound(device_task[u])'
  BY <1>3 DEF DeviceSound, DeviceAdmittedAs
<1>5. DeviceOneHolds'
  BY <1>1 DEF DeviceIInv, DeviceOneHolds, Device!Holding
<1> QED
  BY <1>2, <1>4, <1>5 DEF DeviceIInv, DeviceLoginsPrecede

\* What is known of a task.
LEMMA DeviceTaskIs ==
  ASSUME DeviceIInv, NEW t \in device_Tasks
  PROVE  device_task[t] \in Device!TaskType /\ DeviceSound(device_task[t])
  BY DEF DeviceIInv, Device!TypeOK

\* A task goes on with another purse.
DeviceMovesTo(t, at, purse) == device_task' =
  [device_task EXCEPT ![t].at = at, ![t].purse = purse]

\* A task that goes on with another purse, or with the one it has.
LEMMA DeviceGoesWith ==
  ASSUME DeviceIInv, NEW t \in device_Tasks, NEW at \in DevicePlaces,
         NEW purse \in SUBSET DevicePayments,
         DeviceMovesTo(t, at, purse)
  PROVE  \E x \in Device!TaskType : /\ device_task' = [device_task EXCEPT ![t] = x]
                                    /\ x.at = at /\ x.kind = device_task[t].kind
                                         /\ x.purse = purse /\ x.leg = device_task[t].leg
<1> DEFINE x == [device_task[t] EXCEPT !.at = at, !.purse = purse]
<1>1. device_task \in [device_Tasks -> Device!TaskType] /\ device_task[t] \in Device!TaskType
  BY DEF DeviceIInv, Device!TypeOK
<1>2. /\ x \in Device!TaskType
      /\ x.at = at /\ x.kind = device_task[t].kind /\ x.purse = purse
           /\ x.leg = device_task[t].leg
  BY <1>1 DEF Device!TaskType, DevicePlaces, DevicePayments
<1>3. device_task' = [device_task EXCEPT ![t] = x]
  BY <1>1 DEF DeviceMovesTo
<1> QED
  BY <1>2, <1>3

\* The same purse.
LEMMA DeviceGoesOn ==
  ASSUME DeviceIInv, NEW t \in device_Tasks, NEW at \in DevicePlaces, Device!Goes(t, at)
  PROVE  \E x \in Device!TaskType : /\ device_task' = [device_task EXCEPT ![t] = x]
                                    /\ x.at = at /\ x.kind = device_task[t].kind
                                         /\ x.purse = device_task[t].purse
                                    /\ x.leg = device_task[t].leg
<1> DEFINE x == [device_task[t] EXCEPT !.at = at]
<1>1. device_task \in [device_Tasks -> Device!TaskType] /\ device_task[t] \in Device!TaskType
  BY DEF DeviceIInv, Device!TypeOK
<1>2. /\ x \in Device!TaskType
      /\ x.at = at /\ x.kind = device_task[t].kind /\ x.purse = device_task[t].purse
           /\ x.leg = device_task[t].leg
  BY <1>1 DEF Device!TaskType, DevicePlaces
<1>3. device_task' = [device_task EXCEPT ![t] = x]
  BY <1>1 DEF Device!Goes
<1> QED
  BY <1>2, <1>3

\* A task that ends.
LEMMA DeviceEnding ==
  ASSUME DeviceIInv, NEW t \in device_Tasks, Device!Ends(t),
         UNCHANGED <<device_setting, device_account, device_authenticated, device_redisUp,
                     device_device>>,
         device_age' \in {"none", "fresh", "stale"}, device_backoff' \in BOOLEAN
  PROVE  DeviceIInv'
<1>1. Device!Free \in Device!TaskType /\ Device!Free.at = "rest"
        /\ device_task' = [device_task EXCEPT ![t] = Device!Free]
  BY DEF Device!Free, Device!TaskType, Device!Kinds, Device!Ends
<1>2. DeviceSound(Device!Free)
  BY <1>1 DEF DeviceSound
<1> QED
  BY <1>1, <1>2, DeviceOneMoves

\* Start, where each kind of task begins.
LEMMA DeviceStartMoves ==
  ASSUME DeviceIInv, NEW t \in device_Tasks, NEW k \in Device!Kinds, Device!Start(t, k)
  PROVE  DeviceIInv'
<1> DEFINE at == CASE k = "status" -> IF device_backoff THEN "rest" ELSE "pay"
                   [] k = "usage" -> "owe"
                   [] k = "manual" -> "both"
                   [] OTHER -> IF device_device = "none" THEN "pay" ELSE Device!OnDevice(k)
           x == [Device!Free EXCEPT !.kind = k, !.at = at]
<1>1. /\ at \in {"rest", "pay", "owe", "both", "done", "decide"}
      /\ at = "pay" => k \notin {"usage", "manual"}
      /\ at = "owe" => k = "usage" \/ (k = "timer" /\ device_device # "none")
      /\ at = "decide" => k = "restore"
  BY DEF Device!Kinds, Device!OnDevice
<1>2. device_task' = [device_task EXCEPT ![t] = x]
  BY Zenon DEF Device!Start
<1> HIDE DEF at
<1>3. x.at = at /\ x.kind = k /\ x.purse = {}
  <2>1. x.at = at /\ x.kind = k
    BY DEF Device!Free
  <2> QED
    BY <2>1 DEF Device!Free
<1>4. x \in Device!TaskType
  <2>1. Device!Free \in Device!TaskType
    BY DEF Device!Free, Device!TaskType, Device!Kinds
  <2> QED
    BY <1>1, <2>1 DEF Device!TaskType
<1>5. DeviceSound(x)
  BY <1>1, <1>3 DEF DeviceSound, DeviceAdmittedAs
<1>6. UNCHANGED <<device_setting, device_account, device_authenticated, device_redisUp,
                  device_device, device_age, device_backoff>>
  BY DEF Device!Start
<1>7. x.at \notin {"load", "fetch"}
  BY <1>1, <1>3
<1> HIDE DEF x
<1> QED
  BY <1>2, <1>4, <1>5, <1>6, <1>7, DeviceOneMoves DEF DeviceIInv, Device!TypeOK

\* Reserve, which fills a purse.
LEMMA DeviceReserveMoves ==
  ASSUME DeviceIInv, NEW t \in device_Tasks, Device!Reserve(t)
  PROVE  DeviceIInv'
<1> DEFINE for == IF device_task[t].at = "pay" THEN "status" ELSE "extra"
           next == IF device_task[t].at = "pay" THEN "lock"
                   ELSE IF device_task[t].kind = "timer"
                     \/ device_device # "none" THEN "extra" ELSE "pay"
           paid == Device!Paid(IF device_redisUp THEN Device!Payer ELSE device_Local, for)
           purse == device_task[t].purse \cup {paid}
<1>1. device_task[t].at \in {"pay", "owe"} /\ device_task[t] \in Device!TaskType
        /\ DeviceSound(device_task[t])
  BY DeviceTaskIs DEF Device!Reserve
<1>2. /\ DeviceMovesTo(t, next, purse)
      /\ UNCHANGED <<device_setting, device_account, device_authenticated, device_redisUp,
                     device_device, device_age, device_backoff>>
  BY Zenon DEF Device!Reserve, DeviceMovesTo
<1>3. /\ paid.for = for /\ paid.by \in device_Accounts \cup {device_Local}
      /\ device_authenticated => paid.by \in {device_account, device_Local}
      /\ paid \in DevicePayments
  BY DEF Device!Paid, DevicePayments, Device!Payer, DeviceIInv, Device!TypeOK,
     DeviceLoginsPrecede
<1>4. /\ device_task[t].at = "pay" => next = "lock"
      /\ device_task[t].at = "owe" /\ device_task[t].kind = "timer" => next = "extra"
      /\ device_task[t].at = "owe" /\ device_task[t].kind = "usage"
           => next = IF device_device # "none" THEN "extra" ELSE "pay"
      /\ for = IF device_task[t].at = "pay" THEN "status" ELSE "extra"
  OBVIOUS
<1> HIDE DEF next, for, paid
<1>5. purse \in SUBSET DevicePayments /\ next \in DevicePlaces
  BY <1>1, <1>3, <1>4 DEF Device!TaskType, DevicePayments, DevicePlaces, DeviceSound
<1>6. /\ paid \in purse
      /\ \A p \in purse : p = paid \/ p \in device_task[t].purse
  OBVIOUS
<1> HIDE DEF purse
<1>7. PICK x \in Device!TaskType : /\ device_task' = [device_task EXCEPT ![t] = x]
                                   /\ x.at = next /\ x.kind = device_task[t].kind
                                        /\ x.purse = purse
                                   /\ x.leg = device_task[t].leg
  BY <1>2, <1>5, DeviceGoesWith
<1>8. CASE device_task[t].at = "pay"
  <2>1. x.at = "lock" /\ (x.kind \in {"usage", "manual"} => \E p \in x.purse : p.for = "extra")
    BY <1>1, <1>4, <1>6, <1>7, <1>8 DEF DeviceSound, purse
  <2>2. DeviceSound(x)
    BY <1>3, <1>4, <1>6, <1>7, <1>8, <2>1 DEF DeviceSound
  <2> QED
    BY <1>2, <1>7, <2>1, <2>2, DeviceOneMoves DEF DeviceIInv, Device!TypeOK
<1>9. CASE device_task[t].at = "owe"
  <2>1. /\ x.at \in {"pay", "extra"} /\ \E p \in x.purse : p.for = "extra"
        /\ x.at = "extra" => device_device # "none"
    BY <1>1, <1>3, <1>4, <1>6, <1>7, <1>9 DEF DeviceSound
  <2>2. x.at = "extra" => DeviceAdmittedAs(x) /\ device_authenticated
    BY <1>1, <1>3, <1>6, <1>7, <1>9, <2>1 DEF DeviceSound, DeviceAdmittedAs, DeviceIInv,
       DeviceLoginsPrecede
  <2>3. DeviceSound(x)
    BY <2>1, <2>2 DEF DeviceSound
  <2> QED
    BY <1>2, <1>7, <2>1, <2>3, DeviceOneMoves DEF DeviceIInv, Device!TypeOK
<1> QED
  BY <1>1, <1>8, <1>9

\* ReserveBoth, which pays for two reads or ends.
LEMMA DeviceReserveBothMoves ==
  ASSUME DeviceIInv, NEW t \in device_Tasks, Device!ReserveBoth(t)
  PROVE  DeviceIInv'
<1> DEFINE purse == {Device!Paid(Device!Payer, f) : f \in {"status", "extra"}}
<1>1. /\ DeviceMovesTo(t, "lock", purse) \/ Device!Ends(t)
      /\ UNCHANGED <<device_setting, device_account, device_authenticated, device_redisUp,
                     device_device, device_age, device_backoff>>
  BY Zenon DEF Device!ReserveBoth, DeviceMovesTo
<1>2. /\ purse \in SUBSET DevicePayments /\ "lock" \in DevicePlaces
      /\ \E p \in purse : p.for = "status"
      /\ \E p \in purse : p.for = "extra"
  <2>1. Device!Payer \in device_Accounts
    BY DEF Device!Payer, DeviceIInv, Device!TypeOK
  <2>2. \A f \in {"status", "extra"} : Device!Paid(Device!Payer, f) \in DevicePayments
          /\ Device!Paid(Device!Payer, f).for = f
    BY <2>1 DEF DevicePayments, Device!Paid
  <2> QED
    BY <2>2 DEF DevicePlaces
<1> HIDE DEF purse
<1>3. CASE DeviceMovesTo(t, "lock", purse)
  <2>1. PICK x \in Device!TaskType : device_task' = [device_task EXCEPT ![t] = x]
          /\ x.at = "lock" /\ x.purse = purse
    BY <1>2, <1>3, DeviceGoesWith
  <2>2. DeviceSound(x)
    BY <1>2, <2>1 DEF DeviceSound
  <2> QED
    BY <1>1, <2>1, <2>2, DeviceOneMoves DEF DeviceIInv, Device!TypeOK
<1> QED
  BY <1>1, <1>3, DeviceEnding DEF DeviceIInv, Device!TypeOK
\* Lock: whoever is admitted finds the device or loads it.
LEMMA DeviceLockMoves ==
  ASSUME DeviceIInv, NEW t \in device_Tasks, Device!Lock(t)
  PROVE  DeviceIInv'
<1> DEFINE next == IF device_device = "none" THEN "load"
                   ELSE IF \/ device_task[t].kind \in {"status", "manual"}
                           \/ device_task[t].leg = 2
                           \/ device_task[t].kind = "restore" /\ device_age # "fresh"
                        THEN "read" ELSE Device!OnDevice(device_task[t].kind)
<1>1. /\ device_task[t].at = "lock" /\ \A u \in device_Tasks : ~Device!Holding(u)
      /\ Device!Ends(t) \/ (Device!Admitted(t, device_account) /\ Device!Goes(t, next))
      /\ UNCHANGED <<device_setting, device_account, device_authenticated, device_redisUp,
                     device_device, device_age, device_backoff>>
  BY Zenon DEF Device!Lock
<1>2. device_task[t] \in Device!TaskType /\ DeviceSound(device_task[t])
        /\ device_task[t].kind \in Device!Kinds
  BY DeviceTaskIs DEF Device!TaskType
<1>3. /\ device_device = "none" => next = "load"
      /\ device_device # "none" => next \in {"read", "done", "owe", "extra", "decide"}
      /\ next = "owe" => device_task[t].kind = "timer"
      /\ next = "extra" => device_task[t].kind \in {"usage", "manual"}
      /\ next = "decide" => device_task[t].kind = "restore"
  BY <1>2 DEF Device!OnDevice, Device!Kinds
<1> HIDE DEF next
<1>4. CASE Device!Admitted(t, device_account) /\ Device!Goes(t, next)
  <2>1. next \in DevicePlaces
    BY <1>3 DEF DevicePlaces
  <2>2. PICK x \in Device!TaskType : /\ device_task' = [device_task EXCEPT ![t] = x]
                                     /\ x.at = next /\ x.kind = device_task[t].kind
                                          /\ x.purse = device_task[t].purse
                                     /\ x.leg = device_task[t].leg
    BY <1>4, <2>1, DeviceGoesOn
  <2>3. DeviceAdmittedAs(x)
    BY <1>4, <2>2 DEF DeviceAdmittedAs, Device!Admitted
  <2>4. device_device # "none" => device_authenticated
    BY DEF DeviceIInv, DeviceLoginsPrecede
  <2>5. DeviceSound(x)
    BY <1>1, <1>2, <1>3, <2>2, <2>3, <2>4 DEF DeviceSound
  <2> QED
    BY <1>1, <2>2, <2>5, DeviceOneMoves DEF DeviceIInv, Device!TypeOK
<1> QED
  BY <1>1, <1>4, DeviceEnding DEF DeviceIInv, Device!TypeOK

\* Authenticate: nobody has a device yet that could be of another account.
LEMMA DeviceAuthenticateMoves ==
  ASSUME DeviceIInv, NEW t \in device_Tasks, Device!Authenticate(t)
  PROVE  DeviceIInv'
<1>1. /\ device_task[t].at = "load"
      /\ device_account' = IF device_authenticated THEN device_account ELSE device_setting
      /\ UNCHANGED <<device_setting, device_redisUp, device_device, device_age, device_backoff>>
      /\ \/ device_authenticated' = TRUE /\ Device!Admitted(t, device_account')
              /\ Device!Goes(t, "fetch")
         \/ device_authenticated' \in BOOLEAN
              /\ (device_authenticated => device_authenticated')
              /\ (~device_authenticated => TRUE)
              /\ Device!Ends(t)
  BY DEF Device!Authenticate, DeviceIInv, Device!TypeOK
<1>2. device_account' \in device_Accounts \cup {device_NoAccount}
        /\ device_account' # device_NoAccount
  BY <1>1, DeviceAssumption DEF DeviceIInv, Device!TypeOK, DeviceLoginsPrecede
<1>3. device_task[t] \in Device!TaskType /\ DeviceSound(device_task[t])
        /\ device_device = "none"
  BY <1>1, DeviceTaskIs DEF DeviceSound
<1>4. PICK x \in Device!TaskType :
        /\ device_task' = [device_task EXCEPT ![t] = x]
        /\ \/ x = Device!Free
           \/ /\ x.at = "fetch" /\ x.kind = device_task[t].kind
                   /\ x.purse = device_task[t].purse
              /\ device_authenticated' = TRUE /\ Device!Admitted(t, device_account')
  <2>1. CASE Device!Goes(t, "fetch") /\ device_authenticated' = TRUE
               /\ Device!Admitted(t, device_account')
    BY <2>1, DeviceGoesOn DEF DevicePlaces
  <2>2. Device!Ends(t) => Device!Free \in Device!TaskType
          /\ device_task' = [device_task EXCEPT ![t] = Device!Free]
    BY DEF Device!Ends, Device!Free, Device!TaskType, Device!Kinds
  <2> QED
    BY <1>1, <2>1, <2>2
<1>5. \A u \in device_Tasks : device_task'[u] = IF u = t THEN x ELSE device_task[u]
  BY <1>4 DEF DeviceIInv, Device!TypeOK
<1>6. Device!TypeOK'
  BY <1>1, <1>2, <1>4 DEF DeviceIInv, Device!TypeOK
<1>7. DeviceLoginsPrecede'
  BY <1>1, <1>2, <1>3 DEF DeviceLoginsPrecede
<1>8. ASSUME NEW u \in device_Tasks, u # t
      PROVE  DeviceSound(device_task[u])'
  <2>1. DeviceSound(device_task[u]) /\ device_task'[u] = device_task[u]
    BY <1>5, <1>8 DEF DeviceIInv
  <2>2. device_task[u].at \notin {"load", "fetch", "read", "extra"}
        /\ (device_task[u].at = "owe"
            => device_task[u].kind = "usage" /\ device_task[u].purse = {})
    BY <1>1, <1>3, <1>8, <2>1 DEF DeviceSound, DeviceIInv, DeviceOneHolds, Device!Holding
  <2> QED
    BY <2>1, <2>2 DEF DeviceSound, DeviceAdmittedAs
<1>9. DeviceSound(device_task[t])'
  <2>1. device_task'[t] = x
    BY <1>5
  <2>2. CASE x = Device!Free
    BY <2>1, <2>2 DEF Device!Free, DeviceSound
  <2>3. CASE /\ x.at = "fetch" /\ x.kind = device_task[t].kind /\ x.purse = device_task[t].purse
             /\ device_authenticated' = TRUE /\ Device!Admitted(t, device_account')
    BY <1>1, <1>3, <2>1, <2>3 DEF DeviceSound, DeviceAdmittedAs, Device!Admitted
  <2> QED
    BY <1>4, <2>2, <2>3
<1>10. DeviceOneHolds'
  BY <1>1, <1>4, <1>5 DEF DeviceIInv, DeviceOneHolds, Device!Holding, Device!Free
<1> QED
  BY <1>6, <1>7, <1>8, <1>9, <1>10 DEF DeviceIInv
\* Loading and reading leave a device, which no one loads over.
LEMMA DeviceComes ==
  ASSUME DeviceIInv, NEW t \in device_Tasks, NEW x \in Device!TaskType,
         device_task' = [device_task EXCEPT ![t] = x],
         device_device # "none" \/ device_task[t].at = "fetch",
         device_device' \in {"live", "cached"}, device_authenticated,
         UNCHANGED <<device_setting, device_account, device_authenticated, device_redisUp>>,
         device_age' \in {"none", "fresh", "stale"}, device_backoff' \in BOOLEAN,
         DeviceSound(x)', x.at \notin {"load", "fetch"}
  PROVE  DeviceIInv'
<1>1. \A u \in device_Tasks : device_task'[u] = IF u = t THEN x ELSE device_task[u]
  BY DEF DeviceIInv, Device!TypeOK
<1>2. Device!TypeOK'
  BY DEF DeviceIInv, Device!TypeOK
<1>3. ASSUME NEW u \in device_Tasks, u # t
      PROVE  DeviceSound(device_task[u])' /\ ~Device!Holding(u)
  <2>1. DeviceSound(device_task[u]) /\ device_task'[u] = device_task[u]
          /\ DeviceSound(device_task[t])
    BY <1>1, <1>3 DEF DeviceIInv
  <2>2. device_task[u].at \notin {"load", "fetch"}
    BY <1>3, <2>1 DEF DeviceSound, DeviceIInv, DeviceOneHolds, Device!Holding
  <2> QED
    BY <2>1, <2>2 DEF DeviceSound, DeviceAdmittedAs, Device!Holding
<1>4. DeviceSound(device_task[t])'
  BY <1>1
<1>5. DeviceOneHolds'
  BY <1>1, <1>3 DEF DeviceOneHolds, Device!Holding
<1> QED
  BY <1>2, <1>3, <1>4, <1>5 DEF DeviceIInv, DeviceLoginsPrecede

\* What a task does with the device it has read from.
LEMMA DeviceReadingMoves ==
  ASSUME DeviceIInv, NEW t \in device_Tasks, device_task[t].at \in {"fetch", "read"},
         device_device' = "live", Device!Recorded(TRUE),
         Device!Spends(t, "status", Device!OnDevice(device_task[t].kind)),
         UNCHANGED <<device_setting, device_account, device_authenticated, device_redisUp>>
  PROVE  DeviceIInv'
<1> DEFINE next == Device!OnDevice(device_task[t].kind)
           purse == {p \in device_task[t].purse : p.for # "status"}
<1>1. device_task[t] \in Device!TaskType /\ DeviceSound(device_task[t])
        /\ device_task[t].kind \in Device!Kinds
  BY DeviceTaskIs DEF Device!TaskType
<1>2. /\ next \in {"done", "owe", "extra", "decide"}
      /\ next = "owe" => device_task[t].kind = "timer"
      /\ next = "extra" => device_task[t].kind \in {"usage", "manual"}
      /\ next = "decide" => device_task[t].kind = "restore"
  BY <1>1 DEF Device!OnDevice, Device!Kinds
<1>3. DeviceMovesTo(t, next, purse)
  BY Zenon DEF Device!Spends, DeviceMovesTo
<1>4. purse \in SUBSET DevicePayments /\ next \in DevicePlaces
  BY <1>1, <1>2 DEF DevicePayments, DevicePlaces, Device!TaskType
<1>5. /\ \A p \in purse : p \in device_task[t].purse
      /\ \A p \in device_task[t].purse : p.for = "extra" => p \in purse
  OBVIOUS
<1> HIDE DEF next, purse
<1>6. PICK x \in Device!TaskType : /\ device_task' = [device_task EXCEPT ![t] = x]
                                   /\ x.at = next /\ x.kind = device_task[t].kind
                                        /\ x.purse = purse
                                   /\ x.leg = device_task[t].leg
  BY <1>3, <1>4, DeviceGoesWith
<1>7. DeviceAdmittedAs(device_task[t]) /\ device_authenticated
  BY <1>1 DEF DeviceSound
<1>8. next = "extra" => \E p \in purse : p.for = "extra"
  BY <1>1, <1>2, <1>5 DEF DeviceSound
<1>9. DeviceSound(x)'
  BY <1>2, <1>5, <1>6, <1>7, <1>8 DEF DeviceSound, DeviceAdmittedAs
<1>10. device_device # "none" \/ device_task[t].at = "fetch"
  BY <1>1 DEF DeviceSound
<1>11. device_age' \in {"none", "fresh", "stale"} /\ device_backoff' \in BOOLEAN
  BY DEF Device!Recorded
<1> QED
  BY <1>2, <1>6, <1>7, <1>9, <1>10, <1>11, DeviceComes

\* Fetch and Read.
LEMMA DeviceFetchMoves ==
  ASSUME DeviceIInv, NEW t \in device_Tasks, Device!Fetch(t) \/ Device!Read(t)
  PROVE  DeviceIInv'
<1>1. /\ device_task[t].at \in {"fetch", "read"}
           /\ UNCHANGED <<device_setting, device_account, device_authenticated, device_redisUp>>
      /\ \/ device_device' = "live" /\ Device!Recorded(TRUE)
              /\ Device!Spends(t, "status", Device!OnDevice(device_task[t].kind))
         \/ device_device' = "cached" /\ Device!Recorded(FALSE) /\ Device!Ends(t)
              /\ device_task[t].at = "fetch"
         \/ Device!Ends(t) /\ UNCHANGED device_device
              /\ (Device!Recorded(FALSE) \/ UNCHANGED <<device_age, device_backoff>>)
  BY Zenon DEF Device!Fetch, Device!Read
<1>2. CASE device_device' = "cached" /\ Device!Recorded(FALSE) /\ Device!Ends(t)
             /\ device_task[t].at = "fetch"
  <2>1. Device!Free \in Device!TaskType
          /\ device_task' = [device_task EXCEPT ![t] = Device!Free] /\ Device!Free.at = "rest"
    BY <1>2 DEF Device!Ends, Device!Free, Device!TaskType, Device!Kinds
  <2>2. DeviceSound(Device!Free)'
    BY <2>1 DEF DeviceSound
  <2>3. device_authenticated
    BY <1>2, DeviceTaskIs DEF DeviceSound
  <2>4. device_age' \in {"none", "fresh", "stale"} /\ device_backoff' \in BOOLEAN
    BY <1>2 DEF Device!Recorded
  <2> QED
    BY <1>1, <1>2, <2>1, <2>2, <2>3, <2>4, DeviceComes
<1>3. CASE Device!Ends(t) /\ UNCHANGED device_device
             /\ (Device!Recorded(FALSE) \/ UNCHANGED <<device_age, device_backoff>>)
  <2>1. device_age' \in {"none", "fresh", "stale"} /\ device_backoff' \in BOOLEAN
    BY <1>3 DEF Device!Recorded, DeviceIInv, Device!TypeOK
  <2> QED
    BY <1>1, <1>3, <2>1, DeviceEnding
<1> QED
  BY <1>1, <1>2, <1>3, DeviceReadingMoves

\* Decide and Capacitate, of a restore.
LEMMA DeviceRestoreMoves ==
  ASSUME DeviceIInv, NEW t \in device_Tasks, Device!Decide(t) \/ Device!Capacitate(t)
  PROVE  DeviceIInv'
<1>1. device_task[t] \in Device!TaskType /\ DeviceSound(device_task[t])
        /\ device_task[t].at \in {"decide", "capacity"}
  BY DeviceTaskIs DEF Device!Decide, Device!Capacitate
<1>2. device_task[t].kind = "restore"
  BY <1>1 DEF DeviceSound
<1>3. UNCHANGED <<device_setting, device_account, device_authenticated, device_redisUp,
                  device_device>> /\ device_age' \in {"none", "fresh", "stale"}
      /\ device_backoff' \in BOOLEAN
  BY DEF Device!Decide, Device!Capacitate, DeviceIInv, Device!TypeOK
<1>4. ASSUME NEW at \in {"pay", "capacity", "send", "decide"}, NEW x \in Device!TaskType,
             device_task' = [device_task EXCEPT ![t] = x], x.at = at,
             x.kind = device_task[t].kind
      PROVE  DeviceIInv'
  BY <1>2, <1>3, <1>4, DeviceOneMoves DEF DeviceSound
<1>5. ASSUME NEW at \in {"pay", "capacity", "send"}, Device!Goes(t, at)
      PROVE  DeviceIInv'
  <2>1. PICK x \in Device!TaskType : device_task' = [device_task EXCEPT ![t] = x] /\ x.at = at
          /\ x.kind = device_task[t].kind
    BY <1>5, DeviceGoesOn DEF DevicePlaces
  <2> QED
    BY <1>4, <2>1
<1>6. CASE device_task' = [device_task EXCEPT ![t].at = "decide", ![t].leg = 2]
  <2> DEFINE x == [device_task[t] EXCEPT !.at = "decide", !.leg = 2]
  <2> DEFINE y == [device_task[t] EXCEPT !.at = "decide"]
  <2>1. x \in Device!TaskType /\ x.at = "decide" /\ x.kind = device_task[t].kind
    <3>1. y \in Device!TaskType /\ y.at = "decide" /\ y.kind = device_task[t].kind
      BY <1>1 DEF Device!TaskType
    <3>2. x = [y EXCEPT !.leg = 2] /\ 2 \in 1..2
      BY <1>1 DEF Device!TaskType
    <3> HIDE DEF y, x
    <3> QED
      BY <3>1, <3>2 DEF Device!TaskType
  <2>2. device_task' = [device_task EXCEPT ![t] = x]
    BY <1>6 DEF DeviceIInv, Device!TypeOK
  <2> HIDE DEF x
  <2> QED
    BY <1>4, <2>1, <2>2
<1>7. \/ Device!Ends(t)
      \/ \E at \in {"pay", "capacity", "send"} : Device!Goes(t, at)
      \/ device_task' = [device_task EXCEPT ![t].at = "decide", ![t].leg = 2]
  BY DEF Device!Decide, Device!Capacitate, Device!Goes
<1> QED
  BY <1>3, <1>5, <1>6, <1>7, DeviceEnding

\* Every step of the service keeps the invariant.
LEMMA DeviceInvariantKept == DeviceIInv /\ [Device!Next]_deviceVars => DeviceIInv'
<1> SUFFICES ASSUME DeviceIInv, [Device!Next]_deviceVars
             PROVE  DeviceIInv'
  OBVIOUS
<1>1. ASSUME NEW t \in device_Tasks, Device!ReadExtra(t) \/ Device!Finish(t)
      PROVE  DeviceIInv'
  BY <1>1, DeviceEnding DEF Device!ReadExtra, Device!Finish, DeviceIInv, Device!TypeOK
<1>2. CASE Device!Outside
  <2>1. /\ UNCHANGED <<device_account, device_authenticated, device_device, device_task>>
             /\ device_setting' \in device_Accounts
        /\ device_redisUp' \in BOOLEAN /\ device_age' \in {"none", "fresh", "stale"}
             /\ device_backoff' \in BOOLEAN
    BY <1>2 DEF Device!Outside, Device!SaveAccount, Device!RedisTurns, Device!Tick,
       DeviceIInv, Device!TypeOK
  <2> QED
    BY <2>1 DEF DeviceIInv, Device!TypeOK, DeviceLoginsPrecede, DeviceSound,
       DeviceAdmittedAs, DeviceOneHolds, Device!Holding
<1>3. CASE UNCHANGED deviceVars
  BY <1>3 DEF deviceVars, DeviceIInv, Device!TypeOK, DeviceLoginsPrecede, DeviceSound,
     DeviceAdmittedAs, DeviceOneHolds, Device!Holding
<1> QED
  BY <1>1, <1>2, <1>3, DeviceStartMoves, DeviceReserveMoves, DeviceReserveBothMoves,
     DeviceLockMoves, DeviceAuthenticateMoves,
     DeviceFetchMoves, DeviceRestoreMoves DEF Device!Next, Device!Step


\* The invariant of this service, whenever it is the one that acts.
LEMMA DeviceInvariant == AccountSpec => [](account = "device" => DeviceIInv)
<1>1. AccountInit => (account = "device" => DeviceIInv)
  BY DeviceInvariantInitially DEF AccountInit
<1>2. (account = "device" => DeviceIInv) /\ [AccountNext]_accountVars
        => (account = "device" => DeviceIInv)'
  BY DeviceInvariantKept DEF AccountNext, accountVars
<1> QED
  BY <1>1, <1>2, PTL DEF AccountSpec

-----------------------------------------------------------------------------
(***************************************************************************)
(* The device objects of the library and their commands (DeviceObject).    *)
(***************************************************************************)

\* What a command carries, and for which zones.
ObjectCarries(o, c) ==
  /\ \A f \in DOMAIN c.sends \ c.asked : c.sends[f] = c.saw[f]
  /\ {Object!Power, Object!Mode} \subseteq DOMAIN c.sends /\ ~c.sends[Object!Power] =>
       /\ c.sends[Object!Mode] = "off" /\ ~c.sends[Object!TankOn]
       /\ \A z \in Object!ZonesOf(o) : ~c.sends[Object!On(z)]
  /\ \A z \in object_Zones : Object!Heat(z) \in DOMAIN c.sends => z \in Object!ZonesOf(o)
  /\ \/ Object!Special \notin DOMAIN c.sends /\ Object!Special \notin c.asked
     \/ /\ Object!Special \in DOMAIN c.sends /\ Object!Special \in c.asked
        /\ \A z \in object_Zones : /\ Object!Heat(z) \in DOMAIN c.sends
                                   /\ c.sends[Object!Heat(z)] =
                                        Object!Shifted(c.saw, z, c.sends[Object!Special])

ObjectCallsCarry == \A o \in object_Objects : object_call[o] # object_None
  => ObjectCarries(o, object_call[o])

\* A status whose normal temperatures somebody chose.
ObjectNormalsAreChosen(s) == \A z \in object_Zones : Object!Normal(s, z) \in object_chosen[z]

\* Every status that anybody remembers has such temperatures.
ObjectStatusesAreChosen ==
  ~object_muddled => /\ ObjectNormalsAreChosen(object_pump)
                          /\ ObjectNormalsAreChosen(object_cloud)
                     /\ \A o \in object_Objects : /\ ObjectNormalsAreChosen(object_seen[o])
                                                  /\ object_call[o] # object_None
                                                       => ObjectNormalsAreChosen(object_call[o].saw)

ObjectIInv == Object!TypeOK /\ ObjectCallsCarry /\ ObjectStatusesAreChosen

\* The invariant says what the commands may do.
LEMMA ObjectCommandsAreFit == ObjectIInv => Object!CommandsAreTheOwners
  BY DEF ObjectIInv, ObjectCallsCarry, ObjectCarries, ObjectStatusesAreChosen,
     ObjectNormalsAreChosen, Object!CommandsAreTheOwners

\* The fields differ.
LEMMA ObjectFieldsDiffer ==
  /\ Object!Power # Object!Mode /\ Object!Power # Object!TankOn /\ Object!Power # Object!Target
       /\ Object!Power # Object!Special /\ Object!Power # Object!Extra
  /\ Object!Mode # Object!TankOn /\ Object!Mode # Object!Target /\ Object!Mode # Object!Special
       /\ Object!Mode # Object!Extra
  /\ Object!TankOn # Object!Target /\ Object!TankOn # Object!Special
       /\ Object!TankOn # Object!Extra
  /\ Object!Target # Object!Special /\ Object!Target # Object!Extra
       /\ Object!Special # Object!Extra
  /\ \A z : Object!On(z) \notin {Object!Power, Object!Mode, Object!TankOn, Object!Target,
                                 Object!Special, Object!Extra}
  /\ \A z : Object!Heat(z) \notin {Object!Power, Object!Mode, Object!TankOn, Object!Target,
                                   Object!Special, Object!Extra}
  /\ \A z, y : Object!On(z) # Object!Heat(y)
  /\ \A z, y : (Object!On(z) = Object!On(y) => z = y)
       /\ (Object!Heat(z) = Object!Heat(y) => z = y)
  BY DEF Object!Power, Object!Mode, Object!TankOn, Object!Target, Object!Special,
     Object!Extra, Object!On, Object!Heat

\* What the parts of a field are.
LEMMA ObjectFieldsAre ==
  /\ \A z : Object!On(z)[1] = "on" /\ Object!On(z)[2] = z /\ Object!Heat(z)[1] = "heat"
       /\ Object!Heat(z)[2] = z
  /\ Object!Power[1] = "power" /\ Object!Mode[1] = "mode" /\ Object!TankOn[1] = "tank"
       /\ Object!Target[1] = "target"
  /\ Object!Special[1] = "special" /\ Object!Extra[1] = "extra"
  BY DEF Object!Power, Object!Mode, Object!TankOn, Object!Target, Object!Special,
     Object!Extra, Object!On, Object!Heat

\* Which fields there are.
LEMMA ObjectFieldsInclude ==
  /\ {Object!Power, Object!Mode, Object!TankOn, Object!Target, Object!Special,
      Object!Extra} \subseteq Object!Fields
  /\ \A z \in object_Zones : Object!On(z) \in Object!Fields /\ Object!Heat(z) \in Object!Fields
  BY DEF Object!Fields

\* Modifiers and limits are numbers, and a limit changes only what is beyond it.
LEMMA ObjectNumbersAre ==
  /\ \A s \in {"none", "eco", "comfort"} : Object!Modifier(s) \in Int
  /\ Object!Modifier("none") = 0
  /\ \A n \in Int : Object!Limit(n) \in Int
       /\ (n \in object_Lowest..object_Highest => Object!Limit(n) = n)
<1>1. \A s \in {"none", "eco", "comfort"} : Object!Modifier(s) \in Int
  BY ObjectAssumption DEF Object!Modifier
<1>2. Object!Modifier("none") = 0
  BY DEF Object!Modifier
<1>3. \A n \in Int : Object!Limit(n) \in Int
        /\ (n \in object_Lowest..object_Highest => Object!Limit(n) = n)
  BY ObjectAssumption DEF Object!Limit
<1> QED
  BY <1>1, <1>2, <1>3

\* What a status holds.
LEMMA ObjectStatusHolds ==
  ASSUME NEW s, Object!IsStatus(s)
  PROVE  /\ s[Object!Special] \in {"none", "eco", "comfort"}
         /\ s[Object!Mode] \in {"off", "heat", "cool"}
         /\ s[Object!Power] \in BOOLEAN /\ s[Object!TankOn] \in BOOLEAN
              /\ s[Object!Extra] \in BOOLEAN /\ s[Object!Target] \in Int
         /\ \A z \in object_Zones : s[Object!Heat(z)] \in Int /\ s[Object!On(z)] \in BOOLEAN
              /\ Object!Normal(s, z) \in Int
<1>1. /\ s[Object!Special] \in {"none", "eco", "comfort"}
      /\ s[Object!Mode] \in {"off", "heat", "cool"}
      /\ s[Object!Power] \in BOOLEAN /\ s[Object!TankOn] \in BOOLEAN
           /\ s[Object!Extra] \in BOOLEAN /\ s[Object!Target] \in Int
  BY ObjectFieldsInclude DEF Object!IsStatus, Object!Fits
<1>2. \A z \in object_Zones : s[Object!Heat(z)] \in Int /\ s[Object!On(z)] \in BOOLEAN
  BY ObjectFieldsInclude DEF Object!IsStatus, Object!Fits
<1>3. \A z \in object_Zones : Object!Normal(s, z) \in Int
  BY <1>1, <1>2, ObjectNumbersAre DEF Object!Normal
<1> QED
  BY <1>1, <1>2, <1>3

\* A status with a field changed.
LEMMA ObjectStatusChanges ==
  ASSUME NEW s, Object!IsStatus(s), NEW f \in Object!Fields, NEW v, Object!Fits(f, v)
  PROVE  Object!IsStatus([s EXCEPT ![f] = v])
  BY DEF Object!IsStatus

\* A set point set for a special status leaves the normal temperature, unless a
\* limit is in the way.
LEMMA ObjectShiftKeepsNormal ==
  ASSUME NEW s, Object!IsStatus(s), NEW z \in object_Zones,
         NEW special \in {"none", "eco", "comfort"},
         {s[Object!Heat(z)] - Object!Modifier(s[Object!Special]),
          s[Object!Heat(z)] - Object!Modifier(s[Object!Special]) + Object!Modifier(special)} \ (object_Lowest..object_Highest) = {}
  PROVE  Object!Shifted(s, z, special) - Object!Modifier(special) = Object!Normal(s, z)
<1> DEFINE n == s[Object!Heat(z)] - Object!Modifier(s[Object!Special])
           m == Object!Modifier(special)
<1>1. s[Object!Heat(z)] \in Int /\ s[Object!Special] \in {"none", "eco", "comfort"}
  BY ObjectStatusHolds
<1>2. n \in Int /\ m \in Int /\ n \in object_Lowest..object_Highest
        /\ n + m \in object_Lowest..object_Highest
  <2>1. Object!Modifier(s[Object!Special]) \in Int /\ m \in Int
    BY <1>1, ObjectNumbersAre
  <2>2. n \in Int
    BY <1>1, <2>1
  <2>3. n \in object_Lowest..object_Highest /\ n + m \in object_Lowest..object_Highest
    BY Zenon
  <2> QED
    BY <2>1, <2>2, <2>3
<1>3. Object!Limit(n) = n /\ Object!Limit(n + m) = n + m
  BY <1>2, ObjectNumbersAre
<1>4. (IF s[Object!Special] = "none" THEN s[Object!Heat(z)] ELSE Object!Limit(n)) = n
  BY <1>1, <1>3, ObjectNumbersAre
<1>5. special = "none" => m = 0
  BY ObjectNumbersAre
<1>6. Object!Normal(s, z) = n
  BY DEF Object!Normal
<1>7. Object!Shifted(s, z, special) = IF special = "none" THEN n ELSE n + m
  BY <1>3, <1>4 DEF Object!Shifted
<1>8. Object!Shifted(s, z, special) - m = Object!Normal(s, z)
  <2> HIDE DEF n, m
  <2> QED
    BY <1>2, <1>5, <1>6, <1>7
<1> QED
  BY <1>8

\* A shifted set point is a number.
LEMMA ObjectShiftedIs ==
  ASSUME NEW s, Object!IsStatus(s), NEW z \in object_Zones,
         NEW special \in {"none", "eco", "comfort"}
  PROVE  Object!Shifted(s, z, special) \in Int
<1>1. s[Object!Heat(z)] \in Int /\ s[Object!Special] \in {"none", "eco", "comfort"}
  BY ObjectStatusHolds
<1>2. Object!Modifier(s[Object!Special]) \in Int /\ Object!Modifier(special) \in Int
  BY <1>1, ObjectNumbersAre
<1> QED
  BY <1>1, <1>2, ObjectNumbersAre DEF Object!Shifted

\* A service that starts.
LEMMA ObjectInvariantInitially == Object!Init => ObjectIInv
<1> SUFFICES ASSUME Object!Init
             PROVE  ObjectIInv
  OBVIOUS
<1>1. Object!IsStatus(Object!Factory)
  <2>1. DOMAIN Object!Factory = Object!Fields
    BY DEF Object!Factory
  <2>2. ASSUME NEW f \in Object!Fields
        PROVE  Object!Fits(f, Object!Factory[f])
    <3>1. f \in {Object!Power, Object!Mode, Object!TankOn, Object!Target, Object!Special,
                 Object!Extra} \/ (\E z \in object_Zones : f = Object!On(z)
                                   \/ f = Object!Heat(z))
      BY DEF Object!Fields
    <3>2. Object!Factory[f] = IF f = Object!Mode THEN "heat" ELSE IF f = Object!Special
            THEN "none"
                              ELSE IF f[1] \in {"heat", "target"} THEN 2
                                ELSE IF f = Object!Extra THEN FALSE ELSE TRUE
      BY DEF Object!Factory
    <3>3. f \in {Object!Power, Object!TankOn} \/ (\E z \in object_Zones : f = Object!On(z))
            => Object!Factory[f] = TRUE
      BY <3>2, ObjectFieldsDiffer, ObjectFieldsAre
    <3>4. /\ f = Object!Mode => Object!Factory[f] = "heat"
          /\ f = Object!Special => Object!Factory[f] = "none"
          /\ f = Object!Extra => Object!Factory[f] = FALSE
      BY <3>2, ObjectFieldsDiffer, ObjectFieldsAre
    <3>5. f = Object!Target \/ (\E z \in object_Zones : f = Object!Heat(z))
            => Object!Factory[f] = 2
      BY <3>2, ObjectFieldsDiffer, ObjectFieldsAre
    <3>6. f = Object!Mode => Object!Fits(f, "heat")
      BY ObjectFieldsDiffer DEF Object!Fits
    <3>7. f = Object!Special => Object!Fits(f, "none")
      BY ObjectFieldsDiffer DEF Object!Fits
    <3>8. f \in {Object!Power, Object!TankOn, Object!Extra}
            \/ (\E z \in object_Zones : f = Object!On(z))
                 => Object!Fits(f, TRUE) /\ Object!Fits(f, FALSE)
      BY ObjectFieldsDiffer DEF Object!Fits
    <3>9. f = Object!Target \/ (\E z \in object_Zones : f = Object!Heat(z)) => Object!Fits(f, 2)
      BY ObjectFieldsDiffer DEF Object!Fits
    <3> QED
      BY <3>1, <3>3, <3>4, <3>5, <3>6, <3>7, <3>8, <3>9
  <2> QED
    BY <2>1, <2>2 DEF Object!IsStatus
<1>2. \A z \in object_Zones : Object!Normal(Object!Factory, z) = 2
  <2>1. \A z \in object_Zones : Object!Factory[Object!Heat(z)] = 2
    BY ObjectFieldsDiffer, ObjectFieldsAre, ObjectFieldsInclude DEF Object!Factory
  <2>2. Object!Factory[Object!Special] = "none"
    BY ObjectFieldsDiffer, ObjectFieldsInclude DEF Object!Factory
  <2> QED
    BY <2>1, <2>2, ObjectNumbersAre DEF Object!Normal
<1>3. Object!TypeOK
  <2>1. 0 \in 0..object_MaxTurns /\ {2} \in SUBSET Int
    BY ObjectAssumption
  <2> QED
    BY <1>1, <2>1 DEF Object!Init, Object!TypeOK
<1>4. ObjectCallsCarry
  BY DEF Object!Init, ObjectCallsCarry
<1>5. ObjectStatusesAreChosen
  BY <1>2 DEF Object!Init, ObjectStatusesAreChosen, ObjectNormalsAreChosen
<1> QED
  BY <1>3, <1>4, <1>5 DEF ObjectIInv
\* A command that is sent.
LEMMA ObjectSendKeeps ==
  ASSUME ObjectIInv, NEW o \in object_Objects, NEW asked, NEW fields,
         Object!Send(o, asked, fields),
         DOMAIN fields \subseteq Object!Fields,
         \A f \in DOMAIN fields : Object!Fits(f, fields[f]),
         ObjectCarries(o, [asked |-> asked, sends |-> fields, saw |-> object_seen[o]])
  PROVE  ObjectIInv'
<1> DEFINE c == [asked |-> asked, sends |-> fields, saw |-> object_seen[o]]
<1>1. /\ UNCHANGED <<object_pump, object_cloud, object_seen, object_chosen, object_muddled>>
           /\ object_turns' \in 0..object_MaxTurns
      /\ DOMAIN object_call' = object_Objects
      /\ \A u \in object_Objects : object_call'[u] = IF u = o THEN c ELSE object_call[u]
  BY ObjectAssumption DEF Object!Send, Object!Turn, ObjectIInv, Object!TypeOK
<1>2. c.asked = asked /\ c.sends = fields /\ c.saw = object_seen[o] /\ ObjectCarries(o, c)
  OBVIOUS
<1> HIDE DEF c
<1>3. Object!TypeOK'
  BY <1>1, <1>2 DEF ObjectIInv, Object!TypeOK
<1>4. ObjectCallsCarry'
  BY <1>1, <1>2 DEF ObjectIInv, ObjectCallsCarry
<1>5. ObjectStatusesAreChosen'
  BY <1>1, <1>2 DEF ObjectIInv, ObjectStatusesAreChosen, ObjectNormalsAreChosen
<1> QED
  BY <1>3, <1>4, <1>5 DEF ObjectIInv

\* Commands of one field that holds no set point of a zone.
LEMMA ObjectOneFieldKeeps ==
  ASSUME ObjectIInv, NEW o \in object_Objects,
         NEW f \in {Object!Power, Object!Target, Object!Extra}, NEW v, Object!Fits(f, v),
         Object!Send(o, {f}, [x \in {f} |-> v])
  PROVE  ObjectIInv'
<1> DEFINE sends == [x \in {f} |-> v]
           c == [asked |-> {f}, sends |-> sends, saw |-> object_seen[o]]
<1>1. DOMAIN sends = {f} /\ sends[f] = v
  OBVIOUS
<1>2. c.asked = {f} /\ c.sends = sends /\ c.saw = object_seen[o]
  OBVIOUS
<1>3. {f} \subseteq Object!Fields /\ Object!Mode \notin {f} /\ Object!Special \notin {f}
        /\ \A z : Object!Heat(z) \notin {f}
  BY ObjectFieldsDiffer, ObjectFieldsInclude
<1> HIDE DEF c, sends
<1>4. ObjectCarries(o, c)
  BY <1>1, <1>2, <1>3 DEF ObjectCarries
<1> QED
  BY <1>1, <1>3, <1>4, ObjectSendKeeps DEF c, sends

\* set_temperature.
LEMMA ObjectSetTemperatureKeeps ==
  ASSUME ObjectIInv, NEW o \in object_Objects, NEW z \in object_Zones,
         NEW t \in object_Choices, Object!SetTemperature(o, z, t)
  PROVE  ObjectIInv'
<1> DEFINE sends == [x \in {Object!Heat(z)} |-> t]
           c == [asked |-> {Object!Heat(z)}, sends |-> sends, saw |-> object_seen[o]]
<1>1. DOMAIN sends = {Object!Heat(z)} /\ sends[Object!Heat(z)] = t
  OBVIOUS
<1>2. c.asked = {Object!Heat(z)} /\ c.sends = sends /\ c.saw = object_seen[o]
  OBVIOUS
<1>3. /\ Object!Heat(z) \in Object!Fields /\ Object!Mode # Object!Heat(z)
           /\ Object!Special # Object!Heat(z) /\ \A y : Object!Heat(y) = Object!Heat(z) => y = z
      /\ Object!Fits(Object!Heat(z), t)
  BY ObjectFieldsDiffer, ObjectFieldsInclude, ObjectAssumption DEF Object!Fits
<1>4. z \in Object!ZonesOf(o) /\ Object!Send(o, {Object!Heat(z)}, sends)
  BY DEF Object!SetTemperature
<1> HIDE DEF c, sends
<1>5. ObjectCarries(o, c)
  BY <1>1, <1>2, <1>3, <1>4 DEF ObjectCarries
<1> QED
  BY <1>1, <1>3, <1>4, <1>5, ObjectSendKeeps DEF c

\* Tank.turn_on and Tank.turn_off.
LEMMA ObjectTurnTankKeeps ==
  ASSUME ObjectIInv, NEW o \in object_Objects, NEW on \in BOOLEAN, Object!TurnTank(o, on)
  PROVE  ObjectIInv'
<1> DEFINE D == {Object!TankOn} \cup {Object!On(z) : z \in Object!ZonesOf(o)}
           sends == [f \in D |-> IF f = Object!TankOn THEN on ELSE object_seen[o][f]]
           c == [asked |-> {Object!TankOn}, sends |-> sends, saw |-> object_seen[o]]
<1>1. Object!Send(o, {Object!TankOn}, sends)
  BY DEF Object!TurnTank
<1>2. c.asked = {Object!TankOn} /\ c.sends = sends /\ c.saw = object_seen[o]
  OBVIOUS
<1>3. /\ D \subseteq Object!Fields
      /\ Object!Mode \notin D /\ Object!Special \notin D /\ \A z : Object!Heat(z) \notin D
      /\ Object!Special # Object!TankOn
  BY ObjectFieldsDiffer, ObjectFieldsInclude DEF Object!ZonesOf
<1>4. DOMAIN sends = D /\ \A f \in D : sends[f] = IF f = Object!TankOn THEN on
        ELSE object_seen[o][f]
  OBVIOUS
<1>5. \A f \in D : Object!Fits(f, sends[f])
  <2>1. Object!Fits(Object!TankOn, on)
    BY ObjectFieldsDiffer DEF Object!Fits
  <2>2. \A f \in Object!Fields : Object!Fits(f, object_seen[o][f])
    BY DEF ObjectIInv, Object!TypeOK, Object!IsStatus
  <2> HIDE DEF D, sends
  <2> QED
    BY <1>3, <1>4, <2>1, <2>2
<1> HIDE DEF c, sends, D
<1>6. ObjectCarries(o, c)
  BY <1>2, <1>3, <1>4 DEF ObjectCarries
<1> QED
  BY <1>1, <1>3, <1>4, <1>5, <1>6, ObjectSendKeeps DEF c

\* set_special_status.
LEMMA ObjectSetSpecialKeeps ==
  ASSUME ObjectIInv, NEW o \in object_Objects, NEW special \in {"none", "eco", "comfort"},
         Object!SetSpecial(o, special)
  PROVE  ObjectIInv'
<1> DEFINE heats == {Object!Heat(z) : z \in Object!ZonesOf(o)}
           D == {Object!Special} \cup heats
           sends == [f \in D |-> IF f = Object!Special THEN special
                       ELSE Object!Shifted(object_seen[o], f[2], special)]
           c == [asked |-> D, sends |-> sends, saw |-> object_seen[o]]
<1>1. Object!Send(o, D, sends) /\ Object!ZonesOf(o) = object_Zones
  BY DEF Object!SetSpecial, Object!ZonesOf
<1>2. c.asked = D /\ c.sends = sends /\ c.saw = object_seen[o]
  OBVIOUS
<1>3. /\ D \subseteq Object!Fields /\ Object!Mode \notin D /\ Object!Special \in D
      /\ \A z \in object_Zones : Object!Heat(z) \in D
      /\ \A f \in D : f = Object!Special \/ \E z \in object_Zones : f = Object!Heat(z)
  BY <1>1, ObjectFieldsDiffer, ObjectFieldsInclude
<1>4. /\ DOMAIN sends = D /\ sends[Object!Special] = special
      /\ \A z \in object_Zones :
           sends[Object!Heat(z)] = Object!Shifted(object_seen[o], z, special)
  BY <1>3, ObjectFieldsDiffer, ObjectFieldsAre
<1>5. Object!IsStatus(object_seen[o])
  BY DEF ObjectIInv, Object!TypeOK
<1>6. \A f \in D : Object!Fits(f, sends[f])
  <2>1. Object!Fits(Object!Special, special)
    BY ObjectFieldsDiffer DEF Object!Fits
  <2>2. ASSUME NEW z \in object_Zones
        PROVE  Object!Fits(Object!Heat(z), Object!Shifted(object_seen[o], z, special))
    BY <1>5, ObjectFieldsDiffer, ObjectShiftedIs DEF Object!Fits
  <2> HIDE DEF D, sends
  <2> QED
    BY <1>3, <1>4, <2>1, <2>2
<1> HIDE DEF c, sends, D
<1>7. ObjectCarries(o, c)
  BY <1>1, <1>2, <1>3, <1>4 DEF ObjectCarries
<1> QED
  BY <1>1, <1>3, <1>4, <1>6, <1>7, ObjectSendKeeps DEF c

\* set_mode.
LEMMA ObjectSetModeKeeps ==
  ASSUME ObjectIInv, NEW o \in object_Objects, NEW mode \in {"off", "heat", "cool"},
         NEW zone \in object_Zones \cup {0},
         Object!SetMode(o, mode, zone)
  PROVE  ObjectIInv'
<1> DEFINE st == object_seen[o]
           sends == Object!ModeUpdate(o, mode, zone)
           asked == {Object!Mode, Object!Power}
             \cup {Object!On(z) : z \in {z \in Object!ZonesOf(o) : zone \in {0, z}}}
                      \cup (IF Object!HasTank(o) THEN {} ELSE {Object!TankOn})
           c == [asked |-> asked, sends |-> sends, saw |-> st]
           D == {Object!Mode, Object!Power, Object!TankOn}
             \cup {Object!On(z) : z \in Object!ZonesOf(o)}
               \cup {Object!Heat(z) : z \in Object!ZonesOf(o)}
           on == [z \in Object!ZonesOf(o) |-> IF zone \in {0, z} THEN mode # "off"
                    ELSE st[Object!On(z)]]
           tank == Object!HasTank(o) /\ st[Object!TankOn]
           off == mode = "off" /\ ~tank /\ \A z \in Object!ZonesOf(o) : ~on[z]
<1>1. Object!Send(o, asked, sends)
  BY DEF Object!SetMode
<1>2. c.asked = asked /\ c.sends = sends /\ c.saw = st
  OBVIOUS
<1>3. /\ D \subseteq Object!Fields /\ Object!Special \notin D /\ Object!Special \notin asked
      /\ \A z : Object!Heat(z) \in D => z \in Object!ZonesOf(o)
      /\ \A f \in D : f \in {Object!Mode, Object!Power, Object!TankOn}
           \/ \E z \in Object!ZonesOf(o) : f = Object!On(z) \/ f = Object!Heat(z)
  BY ObjectFieldsDiffer, ObjectFieldsInclude DEF Object!ZonesOf
<1>4. /\ DOMAIN sends = D
      /\ sends[Object!Mode] = mode /\ sends[Object!Power] = ~off /\ sends[Object!TankOn] = tank
      /\ \A z \in Object!ZonesOf(o) : sends[Object!On(z)] = on[z]
           /\ sends[Object!Heat(z)] = st[Object!Heat(z)]
  BY ObjectFieldsDiffer, ObjectFieldsAre DEF Object!ModeUpdate
<1>5. Object!IsStatus(st) /\ st[Object!TankOn] \in BOOLEAN
        /\ \A z \in object_Zones : st[Object!On(z)] \in BOOLEAN
  BY ObjectStatusHolds DEF ObjectIInv, Object!TypeOK
<1>6. \A z \in Object!ZonesOf(o) : /\ on[z] \in BOOLEAN /\ z \in object_Zones
                                   /\ zone \notin {0, z} => on[z] = st[Object!On(z)]
  BY <1>5 DEF Object!ZonesOf
<1>7. \A f \in D : Object!Fits(f, sends[f])
  <2>1. Object!Fits(Object!Mode, mode) /\ Object!Fits(Object!Power, ~off)
          /\ Object!Fits(Object!TankOn, tank)
    <3>1. (~off) \in BOOLEAN /\ tank \in BOOLEAN
      OBVIOUS
    <3> HIDE DEF off, tank
    <3> QED
      BY <3>1, ObjectFieldsDiffer DEF Object!Fits
  <2>2. ASSUME NEW z \in Object!ZonesOf(o)
        PROVE  Object!Fits(Object!On(z), on[z])
                 /\ Object!Fits(Object!Heat(z), st[Object!Heat(z)])
    <3>1. Object!Fits(Object!Heat(z), st[Object!Heat(z)])
      BY <1>5, <1>6, ObjectFieldsInclude DEF Object!IsStatus
    <3>2. on[z] \in BOOLEAN
      BY <1>6
    <3> HIDE DEF on
    <3> QED
      BY <3>1, <3>2, ObjectFieldsDiffer DEF Object!Fits
  <2> HIDE DEF D, sends, on, off, tank
  <2> QED
    BY <1>3, <1>4, <2>1, <2>2
<1>8. \A f \in D \ asked : sends[f] = st[f]
  <2> SUFFICES ASSUME NEW f \in D, f \notin asked
               PROVE  sends[f] = st[f]
    OBVIOUS
  <2>1. CASE f \in {Object!Mode, Object!Power}
    BY <2>1
  <2>2. CASE f = Object!TankOn
    <3>1. Object!HasTank(o)
      BY <2>2
    <3>2. tank = st[Object!TankOn]
      BY <1>5, <3>1
    <3> QED
      BY <1>4, <2>2, <3>2
  <2>3. ASSUME NEW z \in Object!ZonesOf(o), f = Object!On(z) \/ f = Object!Heat(z)
        PROVE  sends[f] = st[f]
    <3>1. f = Object!On(z) => zone \notin {0, z}
      BY <2>3
    <3> HIDE DEF D, sends, on, asked
    <3> QED
      BY <1>4, <1>6, <2>3, <3>1
  <2> QED
    BY <1>3, <2>1, <2>2, <2>3
<1>9. ~sends[Object!Power] => /\ sends[Object!Mode] = "off" /\ ~sends[Object!TankOn]
                              /\ \A z \in Object!ZonesOf(o) : ~sends[Object!On(z)]
  <2>1. off => mode = "off" /\ ~tank /\ \A z \in Object!ZonesOf(o) : ~on[z]
    OBVIOUS
  <2> HIDE DEF sends, on, off, tank
  <2> QED
    BY <1>4, <2>1
<1> HIDE DEF c, sends, D, asked
<1>10. ObjectCarries(o, c)
  BY <1>2, <1>3, <1>4, <1>8, <1>9 DEF ObjectCarries
<1> QED
  BY <1>1, <1>3, <1>4, <1>7, <1>10, ObjectSendKeeps DEF c

\* A command reaches the pump.
LEMMA ObjectApplyKeeps ==
  ASSUME ObjectIInv, NEW o \in object_Objects, Object!Apply(o)
  PROVE  ObjectIInv'
<1> DEFINE c == object_call[o]
<1>1. /\ object_call[o] # object_None /\ Object!IsStatus(c.saw) /\ Object!IsStatus(object_pump)
           /\ DOMAIN c.sends \subseteq Object!Fields
      /\ \A f \in DOMAIN c.sends : Object!Fits(f, c.sends[f])
      /\ ObjectCarries(o, c)
  BY DEF Object!Apply, ObjectIInv, Object!TypeOK, ObjectCallsCarry
<1>2. /\ DOMAIN object_pump' = Object!Fields
      /\ \A f \in Object!Fields : object_pump'[f] = IF f \in DOMAIN c.sends THEN c.sends[f]
           ELSE object_pump[f]
      /\ object_chosen' = [z \in object_Zones |->
             IF Object!Heat(z) \in c.asked
               /\ Object!Special \notin c.asked
                    THEN object_chosen[z] \cup {Object!Normal(object_pump', z)}
                      ELSE object_chosen[z]]
      /\ object_muddled' = (object_muddled \/ Object!Resent(o))
      /\ object_call' = [object_call EXCEPT ![o] = object_None]
      /\ UNCHANGED <<object_cloud, object_seen, object_turns>>
  BY DEF Object!Apply
<1>3. Object!IsStatus(object_pump')
  BY <1>1, <1>2 DEF Object!IsStatus
<1>4. \A z \in object_Zones : Object!Normal(object_pump', z) \in Int
  BY <1>3, ObjectStatusHolds
<1>5. object_chosen' \in [object_Zones -> SUBSET Int]
        /\ \A z \in object_Zones : object_chosen[z] \subseteq object_chosen'[z]
  BY <1>2, <1>4 DEF ObjectIInv, Object!TypeOK
<1>6. DOMAIN object_call' = object_Objects
        /\ \A u \in object_Objects : object_call'[u] = IF u = o THEN object_None
             ELSE object_call[u]
  BY <1>2 DEF ObjectIInv, Object!TypeOK
<1>7. object_muddled' \in BOOLEAN /\ (~object_muddled' => ~object_muddled /\ ~Object!Resent(o))
  BY <1>2 DEF ObjectIInv, Object!TypeOK
<1>8. Object!TypeOK'
  BY <1>2, <1>3, <1>5, <1>6, <1>7 DEF ObjectIInv, Object!TypeOK
<1>9. ObjectCallsCarry'
  BY <1>6 DEF ObjectIInv, ObjectCallsCarry
<1>10. ASSUME ~object_muddled', NEW z \in object_Zones
       PROVE  Object!Normal(object_pump', z) \in object_chosen'[z]
  <2>1. Object!Normal(object_pump, z) \in object_chosen[z]
          /\ Object!Normal(c.saw, z) \in object_chosen[z]
    BY <1>1, <1>7, <1>10 DEF ObjectIInv, ObjectStatusesAreChosen, ObjectNormalsAreChosen
  <2>2. CASE Object!Special \notin DOMAIN c.sends
    <3>1. object_pump'[Object!Special] = object_pump[Object!Special]
            /\ Object!Special \notin c.asked
      BY <1>1, <1>2, <2>2, ObjectFieldsInclude DEF ObjectCarries
    <3>2. CASE Object!Heat(z) \notin DOMAIN c.sends
      <4>1. object_pump'[Object!Heat(z)] = object_pump[Object!Heat(z)]
        BY <1>2, <3>2, ObjectFieldsInclude
      <4> QED
        BY <1>5, <2>1, <3>1, <4>1 DEF Object!Normal
    <3>3. CASE Object!Heat(z) \in c.asked
      BY <1>2, <3>1, <3>3
    <3>4. CASE Object!Heat(z) \in DOMAIN c.sends \ c.asked
      <4>1. object_pump'[Object!Heat(z)] = c.saw[Object!Heat(z)] /\ z \in Object!ZonesOf(o)
        BY <1>1, <1>2, <3>4, ObjectFieldsInclude DEF ObjectCarries
      <4>2. c.saw[Object!Special] = object_pump[Object!Special]
        BY <1>7, <1>10, <2>2, <3>4, <4>1 DEF Object!Resent
      <4> QED
        BY <1>5, <2>1, <3>1, <4>1, <4>2 DEF Object!Normal
    <3> QED
      BY <3>2, <3>3, <3>4
  <2>3. CASE Object!Special \in DOMAIN c.sends
    <3>1. /\ Object!Heat(z) \in DOMAIN c.sends /\ z \in Object!ZonesOf(o)
          /\ c.sends[Object!Heat(z)] = Object!Shifted(c.saw, z, c.sends[Object!Special])
      BY <1>1, <2>3 DEF ObjectCarries
    <3>2. /\ object_pump'[Object!Heat(z)] = c.sends[Object!Heat(z)]
               /\ object_pump'[Object!Special] = c.sends[Object!Special]
          /\ c.sends[Object!Special] \in {"none", "eco", "comfort"}
      BY <1>1, <1>2, <2>3, <3>1, ObjectFieldsInclude DEF Object!Fits
    <3>3. Object!Normal(object_pump', z) =
            c.sends[Object!Heat(z)] - Object!Modifier(c.sends[Object!Special])
      BY <3>2 DEF Object!Normal
    <3>4. Object!Normal(object_pump', z) = Object!Normal(c.saw, z)
      <4>1. CASE {c.saw[Object!Heat(z)] - Object!Modifier(c.saw[Object!Special]),
                  c.saw[Object!Heat(z)] - Object!Modifier(c.saw[Object!Special]) + Object!Modifier(c.sends[Object!Special])}
                   \ (object_Lowest..object_Highest) = {}
        BY <1>1, <3>1, <3>2, <3>3, <4>1, ObjectShiftKeepsNormal
      <4>2. CASE {c.saw[Object!Heat(z)] - Object!Modifier(c.saw[Object!Special]),
                  c.saw[Object!Heat(z)] - Object!Modifier(c.saw[Object!Special]) + Object!Modifier(c.sends[Object!Special])}
                   \ (object_Lowest..object_Highest) # {}
        BY <1>7, <1>10, <2>3, <3>1, <3>3, <4>2, Zenon DEF Object!Resent
      <4> QED
        BY <4>1, <4>2
    <3> QED
      BY <1>5, <2>1, <3>4
  <2> QED
    BY <2>2, <2>3
<1>11. ObjectStatusesAreChosen'
  <2>1. \A s : ~object_muddled' /\ ObjectNormalsAreChosen(s)
          => \A z \in object_Zones : Object!Normal(s, z) \in object_chosen'[z]
    BY <1>5 DEF ObjectNormalsAreChosen
  <2> QED
    BY <1>2, <1>6, <1>7, <1>10, <2>1 DEF ObjectIInv, ObjectStatusesAreChosen,
       ObjectNormalsAreChosen
<1> QED
  BY <1>8, <1>9, <1>11 DEF ObjectIInv

\* The owner at the panel.
LEMMA ObjectOwnerKeeps == ASSUME ObjectIInv, Object!Owner PROVE ObjectIInv'
<1>1. object_turns' \in 0..object_MaxTurns
        /\ UNCHANGED <<object_cloud, object_seen, object_call, object_muddled>>
  BY ObjectAssumption DEF Object!Owner, Object!Turn, ObjectIInv, Object!TypeOK
<1>2. ASSUME Object!IsStatus(object_pump'), object_chosen' \in [object_Zones -> SUBSET Int],
             \A z \in object_Zones : object_chosen[z] \subseteq object_chosen'[z],
             ~object_muddled => \A z \in object_Zones :
               Object!Normal(object_pump', z) \in object_chosen'[z]
      PROVE  ObjectIInv'
  <2>1. Object!TypeOK' /\ ObjectCallsCarry'
    BY <1>1, <1>2 DEF ObjectIInv, Object!TypeOK, ObjectCallsCarry
  <2>2. ObjectStatusesAreChosen'
    BY <1>1, <1>2 DEF ObjectIInv, ObjectStatusesAreChosen, ObjectNormalsAreChosen
  <2> QED
    BY <2>1, <2>2 DEF ObjectIInv
<1>3. Object!IsStatus(object_pump) /\ object_chosen \in [object_Zones -> SUBSET Int]
  BY DEF ObjectIInv, Object!TypeOK
<1>4. ASSUME NEW f \in {Object!TankOn, Object!Extra} \cup {Object!On(z) : z \in object_Zones},
             object_pump' = [object_pump EXCEPT ![f] = ~@], UNCHANGED object_chosen
      PROVE  ObjectIInv'
  <2>1. f \in Object!Fields /\ f # Object!Special /\ \A z : f # Object!Heat(z)
    BY ObjectFieldsDiffer, ObjectFieldsInclude
  <2>2. Object!Fits(f, ~object_pump[f])
    BY ObjectFieldsDiffer DEF Object!Fits
  <2>3. Object!IsStatus(object_pump')
    BY <1>3, <1>4, <2>1, <2>2, ObjectStatusChanges
  <2>4. object_pump'[Object!Special] = object_pump[Object!Special]
          /\ \A z \in object_Zones : object_pump'[Object!Heat(z)] = object_pump[Object!Heat(z)]
    BY <1>3, <1>4, <2>1, ObjectFieldsInclude DEF Object!IsStatus
  <2>5. \A z \in object_Zones : Object!Normal(object_pump', z) = Object!Normal(object_pump, z)
    BY <2>4 DEF Object!Normal
  <2> QED
    BY <1>2, <1>3, <1>4, <2>3, <2>5 DEF ObjectIInv, ObjectStatusesAreChosen,
       ObjectNormalsAreChosen
<1>5. ASSUME NEW z \in object_Zones, NEW t \in object_Choices,
             object_pump' = [object_pump EXCEPT ![Object!Heat(z)] = t],
             object_chosen' = [object_chosen EXCEPT ![z] = @
                               \cup {Object!Normal(object_pump', z)}]
      PROVE  ObjectIInv'
  <2>1. Object!Heat(z) \in Object!Fields /\ Object!Heat(z) # Object!Special
          /\ \A y \in object_Zones : Object!Heat(y) = Object!Heat(z) => y = z
    BY ObjectFieldsDiffer, ObjectFieldsInclude
  <2>2. Object!Fits(Object!Heat(z), t)
    BY ObjectFieldsDiffer, ObjectAssumption DEF Object!Fits
  <2>3. Object!IsStatus(object_pump')
    BY <1>3, <1>5, <2>1, <2>2, ObjectStatusChanges
  <2>4. object_pump'[Object!Special] = object_pump[Object!Special]
          /\ \A y \in object_Zones : y # z
               => object_pump'[Object!Heat(y)] = object_pump[Object!Heat(y)]
    BY <1>3, <1>5, <2>1, ObjectFieldsInclude DEF Object!IsStatus
  <2>5. \A y \in object_Zones : y # z
          => Object!Normal(object_pump', y) = Object!Normal(object_pump, y)
    BY <2>4 DEF Object!Normal
  <2>6. Object!Normal(object_pump', z) \in Int
    BY <2>3, ObjectStatusHolds
  <2>7. /\ object_chosen' \in [object_Zones -> SUBSET Int]
             /\ \A y \in object_Zones : object_chosen[y] \subseteq object_chosen'[y]
        /\ Object!Normal(object_pump', z) \in object_chosen'[z]
    BY <1>3, <1>5, <2>6
  <2> QED
    BY <1>2, <2>3, <2>5, <2>7 DEF ObjectIInv, ObjectStatusesAreChosen,
       ObjectNormalsAreChosen
<1> QED
  BY <1>4, <1>5 DEF Object!Owner

\* An object reads a status.
LEMMA ObjectRefreshKeeps ==
  ASSUME ObjectIInv, NEW o \in object_Objects, Object!RefreshLive(o) \/ Object!RefreshCached(o)
  PROVE  ObjectIInv'
<1>1. /\ object_turns' \in 0..object_MaxTurns
           /\ UNCHANGED <<object_pump, object_call, object_chosen, object_muddled>>
      /\ object_cloud' \in {object_cloud, object_pump}
      /\ \E s \in {object_pump, object_cloud, [object_pump EXCEPT ![Object!Power] = FALSE]} :
           object_seen' = [object_seen EXCEPT ![o] = s]
  BY ObjectAssumption DEF Object!RefreshLive, Object!RefreshCached, Object!Turn,
     ObjectIInv, Object!TypeOK
<1>2. Object!IsStatus(object_pump) /\ Object!IsStatus(object_cloud)
        /\ DOMAIN object_seen = object_Objects
  BY DEF ObjectIInv, Object!TypeOK
<1>3. PICK s : s \in {object_pump, object_cloud, [object_pump EXCEPT ![Object!Power] = FALSE]}
        /\ object_seen' = [object_seen EXCEPT ![o] = s]
  BY <1>1
<1>4. Object!IsStatus([object_pump EXCEPT ![Object!Power] = FALSE])
        /\ Object!Power \in Object!Fields
  BY <1>2, ObjectFieldsDiffer, ObjectFieldsInclude, ObjectStatusChanges DEF Object!Fits
<1>5. /\ [object_pump EXCEPT ![Object!Power] = FALSE][Object!Special] =
           object_pump[Object!Special]
      /\ \A z \in object_Zones :
           [object_pump EXCEPT ![Object!Power] = FALSE][Object!Heat(z)] =
             object_pump[Object!Heat(z)]
  BY <1>2, ObjectFieldsDiffer, ObjectFieldsInclude DEF Object!IsStatus
<1>6. \A z \in object_Zones :
        Object!Normal([object_pump EXCEPT ![Object!Power] = FALSE], z) =
          Object!Normal(object_pump, z)
  BY <1>5 DEF Object!Normal
<1> DEFINE dark == [object_pump EXCEPT ![Object!Power] = FALSE]
<1> HIDE DEF dark
<1>7. Object!IsStatus(s) /\ (~object_muddled
                             => \A z \in object_Zones :
                               Object!Normal(s, z) \in object_chosen[z])
  BY <1>2, <1>3, <1>4, <1>6 DEF ObjectIInv, ObjectStatusesAreChosen,
     ObjectNormalsAreChosen, dark
<1>8. DOMAIN object_seen' = object_Objects
        /\ \A u \in object_Objects : object_seen'[u] = IF u = o THEN s ELSE object_seen[u]
  BY <1>2, <1>3
<1>9. Object!TypeOK'
  BY <1>1, <1>7, <1>8 DEF ObjectIInv, Object!TypeOK
<1>10. ObjectCallsCarry'
  BY <1>1 DEF ObjectIInv, ObjectCallsCarry
<1>11. ObjectStatusesAreChosen'
  BY <1>1, <1>7, <1>8 DEF ObjectIInv, ObjectStatusesAreChosen, ObjectNormalsAreChosen
<1> QED
  BY <1>9, <1>10, <1>11 DEF ObjectIInv

\* Every step keeps the invariant.
LEMMA ObjectInvariantKept == ObjectIInv /\ [Object!Next]_objectVars => ObjectIInv'
<1> SUFFICES ASSUME ObjectIInv, [Object!Next]_objectVars
             PROVE  ObjectIInv'
  OBVIOUS
<1>1. CASE UNCHANGED objectVars
  BY <1>1 DEF objectVars, ObjectIInv, Object!TypeOK, ObjectCallsCarry,
     ObjectStatusesAreChosen, ObjectNormalsAreChosen
<1>2. ASSUME NEW o \in object_Objects, NEW on \in BOOLEAN, Object!TurnPower(o, on)
               \/ Object!SetExtra(o, on)
      PROVE  ObjectIInv'
  <2>1. Object!Fits(Object!Power, on) /\ Object!Fits(Object!Extra, on)
    BY ObjectFieldsDiffer DEF Object!Fits
  <2> QED
    BY <1>2, <2>1, ObjectOneFieldKeeps DEF Object!TurnPower, Object!SetExtra
<1>3. ASSUME NEW o \in object_Objects, NEW t \in object_Choices, Object!SetTarget(o, t)
      PROVE  ObjectIInv'
  <2>1. Object!Fits(Object!Target, t)
    BY ObjectFieldsDiffer, ObjectAssumption DEF Object!Fits
  <2> QED
    BY <1>3, <2>1, ObjectOneFieldKeeps DEF Object!SetTarget
<1>4. ASSUME NEW o \in object_Objects, Object!Lose(o)
      PROVE  ObjectIInv'
  BY <1>4 DEF Object!Lose, ObjectIInv, Object!TypeOK, ObjectCallsCarry,
     ObjectStatusesAreChosen, ObjectNormalsAreChosen
<1> QED
  BY <1>1, <1>2, <1>3, <1>4, ObjectSetModeKeeps, ObjectSetSpecialKeeps,
     ObjectSetTemperatureKeeps, ObjectTurnTankKeeps,
     ObjectApplyKeeps, ObjectOwnerKeeps, ObjectRefreshKeeps DEF Object!Next


\* The invariant of this service, whenever it is the one that acts.
LEMMA ObjectInvariant == AccountSpec => [](account = "object" => ObjectIInv)
<1>1. AccountInit => (account = "object" => ObjectIInv)
  BY ObjectInvariantInitially DEF AccountInit
<1>2. (account = "object" => ObjectIInv) /\ [AccountNext]_accountVars
        => (account = "object" => ObjectIInv)'
  BY ObjectInvariantKept DEF AccountNext, accountVars
<1> QED
  BY <1>1, <1>2, PTL DEF AccountSpec

-----------------------------------------------------------------------------
(***************************************************************************)
(* The alerts, the webhook and the outside monitor (Alerts).               *)
(***************************************************************************)

\* What is stored as delivered was received then, as long as that matters.
AlertingStoredWasReceived ==
  alerts_stored # alerts_Never => /\ alerts_stored.at <= alerts_ticks
                                  /\ alerts_ticks - alerts_stored.at < alerts_Throttle
                                       => alerts_stored \in alerts_received

\* What is about to be stored has just been received; what is withheld was stored.
AlertingInHand ==
  /\ alerts_delivery.at = "storing"
       => [payload |-> alerts_delivery.payload, at |-> alerts_ticks] \in alerts_received
  /\ alerts_delivery.at = "withheld" => /\ alerts_stored # alerts_Never /\ alerts_stored.payload = alerts_delivery.payload
                                        /\ alerts_ticks - alerts_stored.at < alerts_Throttle

AlertingIInv == Alerting!TypeOK /\ AlertingStoredWasReceived /\ AlertingInHand

\* A payload is withheld only when the webhook has it.
LEMMA AlertingWithheldIsReceived == AlertingIInv => Alerting!WithheldWasReceived
<1> SUFFICES ASSUME AlertingIInv, alerts_delivery.at = "withheld"
             PROVE  \E r \in alerts_received : r.payload = alerts_delivery.payload
                      /\ alerts_ticks - r.at <= alerts_Throttle
  BY DEF Alerting!WithheldWasReceived
<1>1. alerts_stored # alerts_Never /\ alerts_stored.payload = alerts_delivery.payload
        /\ alerts_ticks - alerts_stored.at < alerts_Throttle
  BY DEF AlertingIInv, AlertingInHand
<1>2. alerts_stored \in alerts_received
  BY <1>1 DEF AlertingIInv, AlertingStoredWasReceived
<1>3. alerts_stored.at \in Nat /\ alerts_ticks \in Nat /\ alerts_Throttle \in Nat
  BY <1>1, AlertsAssumption DEF AlertingIInv, Alerting!TypeOK
<1> QED
  BY <1>1, <1>2, <1>3

\* A ping is sent only while nothing is named as silent.
LEMMA AlertingPingIsInService == Alerting!TypeOK /\ [Alerting!Next]_alertsVars
                                   => (Alerting!PingOnlyInService \/ UNCHANGED alertsVars)
<1> SUFFICES ASSUME Alerting!TypeOK, Alerting!Next, alerts_pinged', ~alerts_pinged
             PROVE  Alerting!Raised \cap (Alerting!Services \cup {"device"}) = {}
  BY DEF Alerting!PingOnlyInService
<1>1. Alerting!Ping
  <2>1. alerts_pinged' = alerts_pinged \/ Alerting!Tick \/ Alerting!Ping
    BY DEF Alerting!Next, Alerting!Evaluate, Alerting!Send, Alerting!Store,
       Alerting!Withhold, Alerting!Poll, Alerting!WatchdogEnds, Alerting!StateTurns,
       Alerting!Beat
  <2>2. ~Alerting!Tick
    BY DEF Alerting!Tick
  <2>3. alerts_pinged' # alerts_pinged
    BY DEF Alerting!TypeOK
  <2> QED
    BY <2>1, <2>2, <2>3
<1>2. Alerting!Reporting
  BY <1>1 DEF Alerting!Ping
<1>3. /\ \A s \in Alerting!Services : alerts_beat[s] \in Nat
           /\ alerts_beat[s] <= alerts_StaleAfter
      /\ alerts_status \in Nat /\ alerts_status <= alerts_DeviceAfter
  BY <1>2 DEF Alerting!Reporting, Alerting!TypeOK
<1>4. Alerting!ServiceAlerts \cap (Alerting!Services \cup {"device"}) = {}
  BY <1>3, AlertsAssumption DEF Alerting!ServiceAlerts, Alerting!Services
<1>5. Alerting!DeviceAlerts \cap (Alerting!Services \cup {"device"}) = {}
  BY <1>3, AlertsAssumption DEF Alerting!DeviceAlerts, Alerting!Services
<1>6. Alerting!StateAlerts \cap (Alerting!Services \cup {"device"}) = {}
  BY DEF Alerting!StateAlerts, Alerting!Services
<1> QED
  BY <1>4, <1>5, <1>6 DEF Alerting!Raised

\* What is evaluated is a message.
LEMMA AlertingPayloadIs == ASSUME Alerting!TypeOK PROVE Alerting!Payload \in Alerting!Message
<1>1. Alerting!Raised \in SUBSET Alerting!Names
  BY DEF Alerting!Raised, Alerting!ServiceAlerts, Alerting!DeviceAlerts,
     Alerting!StateAlerts, Alerting!Names
<1>2. /\ (IF "watchdog" \in Alerting!Raised THEN alerts_watchdog ELSE 0) \in Nat
      /\ (IF "adapter" \in Alerting!Raised THEN alerts_adapter.failures ELSE 0) \in Nat
      /\ (IF "gate" \in Alerting!Raised THEN alerts_gate ELSE 0) \in Nat
      /\ (IF "revert" \in Alerting!Raised THEN alerts_ticks ELSE 0) \in Nat
  BY DEF Alerting!TypeOK
<1> QED
  BY <1>1, <1>2 DEF Alerting!Payload, Alerting!Message

\* A step of the world leaves the deliveries alone.
LEMMA AlertingWorldMoves ==
  ASSUME AlertingIInv, UNCHANGED Alerting!outbox, alerts_ticks' = alerts_ticks, Alerting!TypeOK'
  PROVE  AlertingIInv'
  BY DEF AlertingIInv, AlertingStoredWasReceived, AlertingInHand, Alerting!outbox

\* At first nothing has been sent.
LEMMA AlertingInvariantInitially == ASSUME Alerting!Init PROVE AlertingIInv
<1>1. Alerting!NoPayload \in Alerting!Message
  BY DEF Alerting!NoPayload, Alerting!Message
<1>2. Alerting!TypeOK
  BY <1>1 DEF Alerting!Init, Alerting!TypeOK
<1> QED
  BY <1>2 DEF Alerting!Init, AlertingIInv, AlertingStoredWasReceived, AlertingInHand

\* Every step keeps what is known of the deliveries.
LEMMA AlertingInvariantKept == AlertingIInv /\ [Alerting!Next]_alertsVars => AlertingIInv'
<1> SUFFICES ASSUME AlertingIInv, [Alerting!Next]_alertsVars
             PROVE  AlertingIInv'
  OBVIOUS
<1>1. Alerting!TypeOK /\ alerts_ticks \in Nat
        /\ alerts_stored \in [payload : Alerting!Message, at : Nat] \cup {alerts_Never}
        /\ alerts_received \subseteq [payload : Alerting!Message, at : Nat]
        /\ alerts_delivery \in [at : {"due", "sending", "storing", "withheld", "done"},
                                payload : Alerting!Message]
  BY DEF AlertingIInv, Alerting!TypeOK
<1>2. Alerting!NoPayload \in Alerting!Message
  BY DEF Alerting!NoPayload, Alerting!Message
<1>3. CASE UNCHANGED alertsVars
  BY <1>3 DEF alertsVars, AlertingIInv, Alerting!TypeOK, AlertingStoredWasReceived,
     AlertingInHand
<1>4. CASE Alerting!Evaluate
  <2>1. PICK p \in Alerting!Message : p = Alerting!Payload
    BY <1>1, AlertingPayloadIs
  <2>2. PICK at \in {"done", "withheld", "sending"} :
          /\ alerts_delivery' = [payload |-> p, at |-> at]
          /\ at = "withheld" => alerts_stored # alerts_Never /\ alerts_stored.payload = p
                                  /\ alerts_ticks - alerts_stored.at < alerts_Throttle
    BY <1>4, <2>1 DEF Alerting!Evaluate
  <2>3. UNCHANGED <<alerts_ticks, Alerting!world, alerts_stored, alerts_received,
                    alerts_pinged>>
    BY <1>4 DEF Alerting!Evaluate
  <2>4. alerts_delivery' \in [at : {"due", "sending", "storing", "withheld", "done"},
                              payload : Alerting!Message]
          /\ alerts_delivery'.payload = p /\ alerts_delivery'.at = at
    BY <2>2
  <2>5. Alerting!TypeOK'
    BY <1>1, <2>3, <2>4 DEF Alerting!TypeOK, Alerting!world
  <2> QED
    BY <2>2, <2>3, <2>4, <2>5 DEF AlertingIInv, AlertingStoredWasReceived, AlertingInHand
<1>5. CASE Alerting!Send
  <2>1. UNCHANGED <<alerts_ticks, Alerting!world, alerts_stored, alerts_pinged>>
          /\ alerts_delivery.at = "sending"
    BY <1>5 DEF Alerting!Send
  <2>2. CASE UNCHANGED alerts_received
               /\ alerts_delivery' = [alerts_delivery EXCEPT !.at = "done",
                                                             !.payload = Alerting!NoPayload]
    <3>1. alerts_delivery' \in [at : {"due", "sending", "storing", "withheld", "done"},
                                payload : Alerting!Message]
            /\ alerts_delivery'.at = "done"
      BY <1>1, <1>2, <2>2
    <3>2. Alerting!TypeOK'
      BY <1>1, <2>1, <2>2, <3>1 DEF Alerting!TypeOK, Alerting!world
    <3> QED
      BY <2>1, <2>2, <3>1, <3>2 DEF AlertingIInv, AlertingStoredWasReceived, AlertingInHand
  <2>3. CASE alerts_received' = {r \in alerts_received : alerts_ticks - r.at < alerts_Throttle}
                                  \cup {[payload |-> alerts_delivery.payload,
                                         at |-> alerts_ticks]}
    <3>1. PICK m \in [payload : Alerting!Message, at : Nat] :
            m = [payload |-> alerts_delivery.payload, at |-> alerts_ticks]
      BY <1>1
    <3>2. alerts_received' \subseteq [payload : Alerting!Message, at : Nat]
            /\ m \in alerts_received'
      BY <1>1, <2>3, <3>1
    <3>3. alerts_delivery' = [alerts_delivery EXCEPT !.at = "storing"]
            \/ alerts_delivery' = [alerts_delivery EXCEPT !.at = "done",
                                                          !.payload = Alerting!NoPayload]
      BY <1>5, <1>2 DEF Alerting!Send
    <3>4. alerts_delivery' \in [at : {"due", "sending", "storing", "withheld", "done"},
                                payload : Alerting!Message]
            /\ alerts_delivery'.at \in {"storing", "done"}
            /\ (alerts_delivery'.at = "storing"
                => alerts_delivery'.payload = alerts_delivery.payload)
      BY <1>1, <1>2, <3>3
    <3>5. Alerting!TypeOK'
      BY <1>1, <2>1, <3>2, <3>4 DEF Alerting!TypeOK, Alerting!world
    <3>6. AlertingStoredWasReceived'
      BY <2>1, <2>3 DEF AlertingIInv, AlertingStoredWasReceived
    <3>7. AlertingInHand'
      BY <2>1, <3>1, <3>2, <3>4 DEF AlertingInHand
    <3> QED
      BY <3>5, <3>6, <3>7 DEF AlertingIInv
  <2> QED
    BY <1>5, <2>2, <2>3 DEF Alerting!Send
<1>6. CASE Alerting!Store
  <2>1. PICK m \in [payload : Alerting!Message, at : Nat] :
          m = [payload |-> alerts_delivery.payload, at |-> alerts_ticks]
    BY <1>1
  <2>2. alerts_delivery.at = "storing"
          /\ UNCHANGED <<alerts_ticks, Alerting!world, alerts_received, alerts_pinged>>
          /\ (alerts_stored' = m \/ alerts_stored' = alerts_stored)
          /\ alerts_delivery' = [alerts_delivery EXCEPT !.at = "done",
                                                        !.payload = Alerting!NoPayload]
    BY <1>6, <2>1 DEF Alerting!Store
  <2>3. m \in alerts_received /\ m.at = alerts_ticks
    BY <2>1, <2>2 DEF AlertingIInv, AlertingInHand
  <2>4. alerts_delivery' \in [at : {"due", "sending", "storing", "withheld", "done"},
                              payload : Alerting!Message]
          /\ alerts_delivery'.at = "done"
    BY <1>1, <1>2, <2>2
  <2>5. Alerting!TypeOK'
    BY <1>1, <2>2, <2>4 DEF Alerting!TypeOK, Alerting!world
  <2>6. AlertingStoredWasReceived'
    BY <1>1, <2>2, <2>3 DEF AlertingIInv, AlertingStoredWasReceived
  <2> QED
    BY <2>4, <2>5, <2>6 DEF AlertingIInv, AlertingInHand
<1>7. CASE Alerting!Withhold
  <2>1. UNCHANGED <<alerts_ticks, Alerting!world, alerts_stored, alerts_received,
                    alerts_pinged>>
          /\ alerts_delivery' = [alerts_delivery EXCEPT !.at = "done",
                                                        !.payload = Alerting!NoPayload]
    BY <1>7 DEF Alerting!Withhold
  <2>2. alerts_delivery' \in [at : {"due", "sending", "storing", "withheld", "done"},
                              payload : Alerting!Message]
          /\ alerts_delivery'.at = "done"
    BY <1>1, <1>2, <2>1
  <2>3. Alerting!TypeOK'
    BY <1>1, <2>1, <2>2 DEF Alerting!TypeOK, Alerting!world
  <2> QED
    BY <2>1, <2>2, <2>3 DEF AlertingIInv, AlertingStoredWasReceived, AlertingInHand
<1>8. CASE Alerting!Tick
  <2>1. /\ alerts_delivery.at \in {"due", "done"} /\ alerts_ticks' = alerts_ticks + 1
        /\ alerts_beat' = [s \in Alerting!Services |->
                             Alerting!Older(alerts_beat[s], alerts_StaleAfter)]
        /\ alerts_status' = Alerting!Older(alerts_status, alerts_DeviceAfter)
        /\ alerts_adapter' = [alerts_adapter EXCEPT !.age =
                                Alerting!Older(@, alerts_DeviceAfter)]
        /\ alerts_pinged' = FALSE
        /\ alerts_delivery' = [at |-> "due", payload |-> Alerting!NoPayload]
        /\ UNCHANGED <<alerts_watchdog, alerts_stuck, alerts_gate, alerts_turns, alerts_stored,
                       alerts_received>>
    BY <1>8 DEF Alerting!Tick
  <2>2. \A n, k \in Nat : Alerting!Older(n, k) \in Nat
    BY DEF Alerting!Older
  <2>3. /\ alerts_beat' \in [Alerting!Services -> Nat] /\ alerts_status' \in Nat
             /\ alerts_adapter' \in [failures : Nat, age : Nat]
        /\ alerts_ticks' \in Nat /\ alerts_pinged' \in BOOLEAN
    <3>1. /\ alerts_beat \in [Alerting!Services -> Nat] /\ alerts_status \in Nat
               /\ alerts_adapter \in [failures : Nat, age : Nat]
          /\ alerts_StaleAfter \in Nat /\ alerts_DeviceAfter \in Nat
      BY AlertsAssumption, <1>1 DEF Alerting!TypeOK
    <3>2. alerts_beat' \in [Alerting!Services -> Nat]
      <4>1. \A s \in Alerting!Services :
              Alerting!Older(alerts_beat[s], alerts_StaleAfter) \in Nat
        BY <2>2, <3>1
      <4> QED
        BY <2>1, <4>1
    <3>3. Alerting!Older(alerts_status, alerts_DeviceAfter) \in Nat
            /\ Alerting!Older(alerts_adapter.age, alerts_DeviceAfter) \in Nat
      BY <2>2, <3>1
    <3>4. alerts_adapter' \in [failures : Nat, age : Nat]
      BY <2>1, <3>1, <3>3
    <3> QED
      <4>0. alerts_ticks' = alerts_ticks + 1 /\ alerts_pinged' = FALSE
              /\ alerts_status' = Alerting!Older(alerts_status, alerts_DeviceAfter)
        BY <2>1
      <4>1. alerts_ticks' \in Nat /\ alerts_status' \in Nat
        BY <1>1, <3>3, <4>0
      <4> QED
        BY <3>2, <3>4, <4>0, <4>1
  <2>4. alerts_delivery' \in [at : {"due", "sending", "storing", "withheld", "done"},
                              payload : Alerting!Message]
          /\ alerts_delivery'.at = "due"
    BY <1>2, <2>1
  <2>5. Alerting!TypeOK'
    BY <1>1, <2>1, <2>3, <2>4 DEF Alerting!TypeOK
  <2>6. AlertingStoredWasReceived'
    <3>1. alerts_ticks' = alerts_ticks + 1 /\ alerts_stored' = alerts_stored
            /\ alerts_received' = alerts_received
      BY <2>1
    <3>2. CASE alerts_stored = alerts_Never
      BY <3>1, <3>2 DEF AlertingStoredWasReceived
    <3>3. CASE alerts_stored # alerts_Never
      <4>1. alerts_stored.at \in Nat /\ alerts_stored.at <= alerts_ticks
              /\ (alerts_ticks - alerts_stored.at < alerts_Throttle
                  => alerts_stored \in alerts_received)
        BY <1>1, <3>3 DEF AlertingIInv, AlertingStoredWasReceived
      <4>2. alerts_stored'.at \in Nat /\ alerts_stored'.at <= alerts_ticks'
              /\ (alerts_ticks' - alerts_stored'.at < alerts_Throttle
                  => alerts_ticks - alerts_stored.at < alerts_Throttle)
        BY <1>1, <3>1, <4>1, AlertsAssumption
      <4> QED
        BY <3>1, <4>1, <4>2 DEF AlertingStoredWasReceived
    <3> QED
      BY <3>2, <3>3
  <2> QED
    BY <2>4, <2>5, <2>6 DEF AlertingIInv, AlertingInHand
<1>9. CASE Alerting!Poll
  <2>1. UNCHANGED <<alerts_ticks, alerts_watchdog, alerts_stuck, alerts_gate, Alerting!outbox,
                    alerts_pinged>>
          /\ alerts_beat' \in [Alerting!Services -> Nat] /\ alerts_status' \in Nat
               /\ alerts_turns' \in Nat
          /\ alerts_adapter' \in [failures : Nat, age : Nat]
    <3>1. /\ alerts_beat \in [Alerting!Services -> Nat] /\ alerts_status \in Nat
               /\ alerts_turns \in Nat
          /\ alerts_adapter \in [failures : Nat, age : Nat]
      BY <1>1 DEF Alerting!TypeOK
    <3>2. UNCHANGED <<alerts_ticks, alerts_watchdog, alerts_stuck, alerts_gate,
                      Alerting!outbox, alerts_pinged>>
            /\ alerts_beat' = [alerts_beat EXCEPT !["poller"] = 0]
      BY <1>9 DEF Alerting!Poll
    <3>3. alerts_status' \in Nat /\ alerts_turns' \in Nat
            /\ alerts_adapter' \in [failures : Nat, age : Nat]
      <4>1. CASE alerts_status' = 0 /\ alerts_adapter' = [failures |-> 0, age |-> 0]
                   /\ UNCHANGED alerts_turns
        BY <3>1, <4>1
      <4>2. CASE Alerting!Worse /\ alerts_adapter' =
                   [failures |-> alerts_adapter.failures + 1, age |-> 0]
                 /\ UNCHANGED alerts_status
        BY <3>1, <4>2 DEF Alerting!Worse
      <4> QED
        BY <1>9, <4>1, <4>2 DEF Alerting!Poll
    <3> QED
      BY <3>1, <3>2, <3>3
  <2>2. Alerting!TypeOK'
    BY <1>1, <2>1 DEF Alerting!TypeOK, Alerting!outbox
  <2> QED
    BY <2>1, <2>2, AlertingWorldMoves
<1>10. CASE Alerting!WatchdogEnds
  <2>1. Alerting!TypeOK'
    BY <1>1, <1>10 DEF Alerting!WatchdogEnds, Alerting!Worse, Alerting!TypeOK,
       Alerting!outbox
  <2> QED
    BY <1>10, <2>1, AlertingWorldMoves DEF Alerting!WatchdogEnds
<1>11. CASE Alerting!StateTurns
  <2>1. Alerting!TypeOK'
    <3>1. UNCHANGED <<alerts_ticks, alerts_beat, alerts_watchdog, alerts_status,
                      alerts_adapter, Alerting!outbox, alerts_pinged>>
      BY <1>11 DEF Alerting!StateTurns
    <3>2. alerts_gate \in Nat /\ alerts_stuck \in BOOLEAN /\ alerts_turns \in Nat
      BY <1>1 DEF Alerting!TypeOK
    <3>3. alerts_gate' \in Nat /\ alerts_stuck' \in BOOLEAN /\ alerts_turns' \in Nat
      <4>1. CASE Alerting!Worse /\ alerts_stuck' = TRUE /\ UNCHANGED alerts_gate
        BY <3>2, <4>1 DEF Alerting!Worse
      <4>2. CASE Alerting!Worse /\ alerts_gate' = alerts_gate + 1 /\ UNCHANGED alerts_stuck
        BY <3>2, <4>2 DEF Alerting!Worse
      <4>3. CASE alerts_stuck' = FALSE /\ UNCHANGED <<alerts_gate, alerts_turns>>
        BY <3>2, <4>3
      <4>4. CASE alerts_gate' = 0 /\ UNCHANGED <<alerts_stuck, alerts_turns>>
        BY <3>2, <4>4
      <4> QED
        BY <1>11, <4>1, <4>2, <4>3, <4>4 DEF Alerting!StateTurns
    <3> QED
      BY <1>1, <3>1, <3>3 DEF Alerting!TypeOK, Alerting!outbox
  <2> QED
    BY <1>11, <2>1, AlertingWorldMoves DEF Alerting!StateTurns
<1>12. CASE Alerting!Ping
  <2>1. alerts_pinged' \in BOOLEAN
    BY <1>12 DEF Alerting!Ping, Alerting!Reporting
  <2>2. Alerting!TypeOK'
    BY <1>1, <1>12, <2>1 DEF Alerting!Ping, Alerting!TypeOK, Alerting!outbox, Alerting!world
  <2> QED
    BY <1>12, <2>2, AlertingWorldMoves DEF Alerting!Ping
<1>13. ASSUME NEW s \in Alerting!Services, Alerting!Beat(s)
       PROVE  AlertingIInv'
  <2>1. Alerting!TypeOK'
    BY <1>1, <1>13 DEF Alerting!Beat, Alerting!TypeOK, Alerting!outbox
  <2> QED
    BY <1>13, <2>1, AlertingWorldMoves DEF Alerting!Beat
<1> QED
  BY <1>3, <1>4, <1>5, <1>6, <1>7, <1>8, <1>9, <1>10, <1>11, <1>12, <1>13 DEF Alerting!Next


\* The invariant of this service, whenever it is the one that acts.
LEMMA AlertingInvariant == AccountSpec => [](account = "alerts" => AlertingIInv)
<1>1. AccountInit => (account = "alerts" => AlertingIInv)
  BY AlertingInvariantInitially DEF AccountInit
<1>2. (account = "alerts" => AlertingIInv) /\ [AccountNext]_accountVars
        => (account = "alerts" => AlertingIInv)'
  BY AlertingInvariantKept DEF AccountNext, accountVars
<1> QED
  BY <1>1, <1>2, PTL DEF AccountSpec

-----------------------------------------------------------------------------
(***************************************************************************)
(* The home that prices are fetched for (PriceBinding).                    *)
(***************************************************************************)

\* From its check on a poll is about the home that it captured, or has bound.
PricingPollHolds(x) ==
  /\ x.at \in {"binding", "checking", "verified", "writing"} => x.selected \in prices_Homes
  /\ x.at \in {"checking", "verified", "writing"} => x.selected = x.captured
  /\ x.at \in {"verified", "writing"} => x.currency \in prices_Currencies

\* An area with prices is registered for their home and currency.
PricingPricesAreRegistered == \A x \in prices_prices : prices_registry[x.area] = x.scope

PricingIInv == Pricing!TypeOK /\ PricingPricesAreRegistered
  /\ \A p \in prices_Polls : PricingPollHolds(prices_poll[p])

\* The module's cardinality is the one of finite sets.
LEMMA PricingCardinalityIs == \A S : Pricing!Cardinality(S) = Cardinality(S)
  BY DEF Pricing!Cardinality, Cardinality

\* What readers resolve is the bound home's.
LEMMA PricingPricesAreOfTheHome == PricingIInv => Pricing!PricesAreTheHomes
<1> SUFFICES ASSUME PricingIInv
             PROVE  Pricing!PricesAreTheHomes
  OBVIOUS
<1>1. \A x \in prices_prices : prices_registry[x.area] = x.scope
  BY DEF PricingIInv, PricingPricesAreRegistered
<1>2. ASSUME Pricing!Resolved # prices_Unset, NEW x \in prices_prices, x.area = Pricing!Resolved
      PROVE  x.scope.home = prices_home
  <2>1. Pricing!Resolved = prices_digest[prices_home]
          /\ prices_registry[prices_digest[prices_home]].home = prices_home
    BY <1>2 DEF Pricing!Resolved
  <2> QED
    BY <1>1, <1>2, <2>1
<1> QED
  BY <1>1, <1>2 DEF Pricing!PricesAreTheHomes

\* A record made of another home, or of the latch, leaves the latch.
LEMMA PricingRecordKeepsLatch ==
  ASSUME Pricing!Latched, NEW captured, NEW reason, Pricing!Record(captured, captured, reason)
  PROVE  prices_home' = prices_home /\ Pricing!Latched'
<1>1. prices_home' = prices_home
  BY DEF Pricing!Record
<1>2. prices_diagnostic.home = prices_home /\ prices_diagnostic.reason = "suspended"
        /\ prices_diagnostic.method = "single"
        /\ prices_home # prices_Unset
        /\ prices_diagnostic = [home |-> prices_home, reason |-> "suspended",
                                method |-> "single"]
  BY DEF Pricing!Latched
<1>3. prices_diagnostic' = prices_diagnostic
  <2>1. CASE prices_home = captured
    <3>1. prices_diagnostic' = [prices_diagnostic EXCEPT !.reason =
             IF prices_diagnostic.method = "single" /\ @ = "suspended" THEN @ ELSE reason]
      BY <1>2, <2>1 DEF Pricing!Record, Pricing!DiagnosticAfter
    <3> QED
      BY <1>2, <3>1
  <2>2. CASE prices_home # captured
    BY <2>2 DEF Pricing!Record
  <2> QED
    BY <2>1, <2>2
<1> QED
  BY <1>1, <1>2, <1>3 DEF Pricing!Latched

\* Only the owner replaces a bound home or releases a latch.
LEMMA PricingOwnerRebinds == PricingIInv /\ [Pricing!Next]_pricesVars
                               => Pricing!OnlyTheOwnerRebinds
<1> SUFFICES ASSUME PricingIInv, [Pricing!Next]_pricesVars, prices_choices' = prices_choices
             PROVE  /\ prices_home # prices_Unset => prices_home' = prices_home
                    /\ Pricing!Latched => Pricing!Latched'
  BY DEF Pricing!OnlyTheOwnerRebinds
<1>1. CASE UNCHANGED Pricing!settingVars
  BY <1>1 DEF Pricing!settingVars, Pricing!Latched
<1>2. ASSUME NEW p \in prices_Polls, Pricing!Bind(p)
      PROVE  /\ prices_home # prices_Unset => prices_home' = prices_home
             /\ Pricing!Latched => Pricing!Latched'
  <2>1. prices_home # prices_Unset => UNCHANGED <<prices_home, prices_diagnostic>>
    BY <1>2 DEF Pricing!Bind
  <2> QED
    BY <2>1 DEF Pricing!Latched
<1>3. ASSUME NEW p \in prices_Polls, Pricing!Reject(p)
      PROVE  /\ prices_home # prices_Unset => prices_home' = prices_home
             /\ Pricing!Latched => Pricing!Latched'
  BY <1>3, PricingRecordKeepsLatch DEF Pricing!Reject, Pricing!Record
<1>4. ASSUME NEW p \in prices_Polls, Pricing!Accept(p)
      PROVE  /\ prices_home # prices_Unset => prices_home' = prices_home
             /\ Pricing!Latched => Pricing!Latched'
  <2>1. prices_poll[p].selected = prices_poll[p].captured
    BY <1>4 DEF PricingIInv, PricingPollHolds, Pricing!Accept
  <2>2. Pricing!Record(prices_poll[p].captured, prices_poll[p].captured, prices_Unset)
    BY <1>4, <2>1 DEF Pricing!Accept
  <2> QED
    BY <2>2, PricingRecordKeepsLatch DEF Pricing!Record
<1>5. CASE Pricing!Choose
  <2>1. prices_choices \in Nat /\ prices_choices' = prices_choices + 1
    BY <1>5 DEF Pricing!Choose, PricingIInv, Pricing!TypeOK
  <2> QED
    BY <2>1
<1>6. Pricing!Next => \/ UNCHANGED Pricing!settingVars \/ Pricing!Choose
                      \/ \E p \in prices_Polls : Pricing!Bind(p) \/ Pricing!Reject(p)
                           \/ Pricing!Accept(p)
  BY DEF Pricing!Next, Pricing!Capture, Pricing!Answer, Pricing!Check, Pricing!Write,
     Pricing!Abandon, Pricing!Subscribe
<1>7. UNCHANGED pricesVars => UNCHANGED Pricing!settingVars
  BY DEF pricesVars, Pricing!settingVars
<1> QED
  BY <1>1, <1>2, <1>3, <1>4, <1>5, <1>6, <1>7

\* A step of one poll that leaves what is stored and bound.
LEMMA PricingPollMoves ==
  ASSUME PricingIInv, NEW p \in prices_Polls, NEW x \in Pricing!Held, PricingPollHolds(x),
         prices_poll' = [prices_poll EXCEPT ![p] = x],
         UNCHANGED <<prices_digest, prices_active, prices_registry, prices_prices,
                     prices_choices>>,
         prices_home' \in prices_Homes \cup {prices_Unset},
         prices_diagnostic' \in Pricing!Diagnostic
  PROVE  PricingIInv'
<1>1. prices_poll \in [prices_Polls -> Pricing!Held]
        /\ \A q \in prices_Polls : PricingPollHolds(prices_poll[q])
  BY DEF PricingIInv, Pricing!TypeOK
<1>2. prices_poll' \in [prices_Polls -> Pricing!Held]
        /\ \A q \in prices_Polls : prices_poll'[q] = IF q = p THEN x ELSE prices_poll[q]
  BY <1>1
<1>3. \A q \in prices_Polls : PricingPollHolds(prices_poll'[q])
  BY <1>1, <1>2
<1>4. \A q \in prices_Polls : PricingPollHolds(prices_poll[q])'
  BY <1>3 DEF PricingPollHolds
<1>5. Pricing!TypeOK'
  BY <1>2 DEF PricingIInv, Pricing!TypeOK
<1> QED
  BY <1>4, <1>5 DEF PricingIInv, PricingPricesAreRegistered

\* A poll that rests holds nothing.
LEMMA PricingRestingHolds == Pricing!Resting \in Pricing!Held
                               /\ PricingPollHolds(Pricing!Resting)
<1>1. Pricing!Resting \in Pricing!Held
  BY DEF Pricing!Resting, Pricing!Held, Pricing!Reasons
<1> QED
  BY <1>1 DEF Pricing!Resting, PricingPollHolds

\* What is recorded is a diagnostic.
LEMMA PricingRecordIs ==
  ASSUME Pricing!TypeOK, NEW captured, NEW selected \in prices_Homes \cup {prices_Unset},
         NEW reason \in Pricing!Reasons,
         NEW method \in {"explicit", "single"}
  PROVE  /\ Pricing!DiagnosticAfter(selected, reason, method) \in Pricing!Diagnostic
         /\ Pricing!Record(captured, selected, reason) =>
              prices_diagnostic' \in Pricing!Diagnostic
                /\ UNCHANGED <<prices_home, prices_choices>>
<1>1. prices_diagnostic \in Pricing!Diagnostic
  BY DEF Pricing!TypeOK
<1>2. \A m \in {"explicit", "single"} :
        Pricing!DiagnosticAfter(selected, reason, m) \in Pricing!Diagnostic
  <2> SUFFICES ASSUME NEW m \in {"explicit", "single"}
               PROVE  Pricing!DiagnosticAfter(selected, reason, m) \in Pricing!Diagnostic
    OBVIOUS
  <2>1. [home |-> selected, reason |-> reason, method |-> m] \in Pricing!Diagnostic
    BY DEF Pricing!Diagnostic
  <2>2. [prices_diagnostic EXCEPT !.reason =
           IF prices_diagnostic.method = "single"
             /\ @ = "suspended" THEN @ ELSE reason] \in Pricing!Diagnostic
    BY <1>1 DEF Pricing!Diagnostic
  <2> QED
    BY <1>1, <2>1, <2>2 DEF Pricing!DiagnosticAfter
<1> QED
  BY <1>1, <1>2 DEF Pricing!Record

\* At first nothing is bound, registered or written.
LEMMA PricingInvariantInitially == ASSUME Pricing!Init PROVE PricingIInv
<1>1. prices_diagnostic \in Pricing!Diagnostic
  BY DEF Pricing!Init, Pricing!Diagnostic, Pricing!Reasons
<1>2. Pricing!TypeOK
  BY <1>1, PricingRestingHolds, PricesAssumption DEF Pricing!Init, Pricing!TypeOK
<1> QED
  BY <1>2, PricingRestingHolds DEF Pricing!Init, PricingIInv, PricingPricesAreRegistered

\* What a poll does before it writes.
LEMMA PricingPollsAreKept ==
  ASSUME PricingIInv, NEW p \in prices_Polls,
         Pricing!Capture(p) \/ Pricing!Answer(p) \/ Pricing!Bind(p) \/ Pricing!Check(p)
           \/ Pricing!Reject(p) \/ Pricing!Accept(p) \/ Pricing!Abandon(p)
  PROVE  PricingIInv'
<1>1. /\ prices_poll \in [prices_Polls -> Pricing!Held] /\ prices_poll[p] \in Pricing!Held
           /\ PricingPollHolds(prices_poll[p])
      /\ prices_home \in prices_Homes \cup {prices_Unset}
           /\ prices_diagnostic \in Pricing!Diagnostic /\ prices_active \in SUBSET prices_Homes
      /\ Pricing!TypeOK
  BY DEF PricingIInv, Pricing!TypeOK
<1>2. CASE Pricing!Capture(p)
  <2>1. PICK auto \in BOOLEAN : auto = Pricing!Automatic
    BY DEF Pricing!Automatic
  <2>3. PICK rest \in Pricing!Held : rest = Pricing!Resting
    BY PricingRestingHolds
  <2>2. PICK c \in Pricing!Held : c = [rest EXCEPT !.captured = prices_home, !.automatic = auto]
    BY <1>1 DEF Pricing!Held
  <2>4. PICK at \in {"asking", "rejecting"}, x \in Pricing!Held :
          /\ prices_poll' = [prices_poll EXCEPT ![p] = x]
          /\ x.at = at
    <3>1. c = [Pricing!Resting EXCEPT !.captured = prices_home, !.automatic = Pricing!Automatic]
      BY <2>1, <2>2, <2>3
    <3>2. \/ prices_poll' = [prices_poll EXCEPT ![p] = [c EXCEPT !.at = "asking"]]
          \/ \E reason \in Pricing!Reasons :
               prices_poll' = [prices_poll EXCEPT ![p] =
                                 [c EXCEPT !.at = "rejecting", !.reason = reason]]
      BY <1>2, <3>1 DEF Pricing!Capture, Pricing!Reasons
    <3>3. CASE prices_poll' = [prices_poll EXCEPT ![p] = [c EXCEPT !.at = "asking"]]
      <4>1. PICK x \in Pricing!Held : x = [c EXCEPT !.at = "asking"]
        BY <2>2 DEF Pricing!Held
      <4>2. x.at = "asking" /\ prices_Unset \in Pricing!Reasons
        BY <2>2, <4>1 DEF Pricing!Held, Pricing!Reasons
      <4> QED
        BY <3>3, <4>1, <4>2
    <3>4. ASSUME NEW reason \in Pricing!Reasons,
                 prices_poll' = [prices_poll EXCEPT ![p] =
                                   [c EXCEPT !.at = "rejecting", !.reason = reason]]
          PROVE  \E at \in {"asking", "rejecting"}, x \in Pricing!Held :
                   prices_poll' = [prices_poll EXCEPT ![p] = x] /\ x.at = at
      <4>1. PICK x \in Pricing!Held : x = [c EXCEPT !.at = "rejecting", !.reason = reason]
        BY <2>2 DEF Pricing!Held
      <4>2. x.at = "rejecting"
        BY <2>2, <4>1 DEF Pricing!Held
      <4> QED
        BY <3>4, <4>1, <4>2
    <3> QED
      BY <3>2, <3>3, <3>4
  <2>7. PricingPollHolds(x)
    BY <2>4 DEF PricingPollHolds
  <2>5. UNCHANGED <<prices_digest, prices_active, Pricing!settingVars, Pricing!storeVars>>
    BY <1>2 DEF Pricing!Capture
  <2>6. UNCHANGED <<prices_digest, prices_active, prices_registry, prices_prices,
                    prices_choices>>
          /\ prices_home' \in prices_Homes \cup {prices_Unset}
               /\ prices_diagnostic' \in Pricing!Diagnostic
    BY <1>1, <2>5 DEF Pricing!settingVars, Pricing!storeVars
  <2> QED
    BY <2>4, <2>6, <2>7, PricingPollMoves
<1>3. CASE Pricing!Answer(p)
  <2>1. PICK at \in {"rejecting", "binding", "checking"},
        selected \in prices_Homes \cup {prices_Unset},
             reason \in Pricing!Reasons :
          /\ prices_poll' = [prices_poll EXCEPT ![p] =
                               [[prices_poll[p] EXCEPT !.answer = prices_active] EXCEPT
                               !.at = at, !.selected = selected, !.reason = reason]]
          /\ at \in {"binding", "checking"} => selected \in prices_Homes
          /\ at = "checking" => selected = prices_poll[p].captured
    <3>1. Cardinality(prices_active) = 1 => Pricing!Only(prices_active) \in prices_active
      <4>1. Cardinality({}) = 0
        BY FS_EmptySet
      <4>2. Cardinality(prices_active) = 1 => prices_active # {}
        BY <4>1
      <4> QED
        BY <4>2 DEF Pricing!Only
    <3>2. prices_poll[p].captured \in prices_Homes \cup {prices_Unset}
      BY <1>1 DEF Pricing!Held
    <3> QED
      BY <1>1, <1>3, <3>1, <3>2, PricingCardinalityIs DEF Pricing!Answer, Pricing!Reasons
  <2>2. PICK x \in Pricing!Held : x = [[prices_poll[p] EXCEPT !.answer = prices_active] EXCEPT
                                !.at = at, !.selected = selected, !.reason = reason]
    BY <1>1 DEF Pricing!Held
  <2>3. x.at = at /\ x.selected = selected /\ x.captured = prices_poll[p].captured
    BY <1>1, <2>2 DEF Pricing!Held
  <2>4. PricingPollHolds(x)
    BY <2>1, <2>3 DEF PricingPollHolds
  <2>5. UNCHANGED <<prices_digest, prices_active, Pricing!settingVars, Pricing!storeVars>>
    BY <1>3 DEF Pricing!Answer
  <2>6. UNCHANGED <<prices_digest, prices_active, prices_registry, prices_prices,
                    prices_choices>>
          /\ prices_home' \in prices_Homes \cup {prices_Unset}
               /\ prices_diagnostic' \in Pricing!Diagnostic
    BY <1>1, <2>5 DEF Pricing!settingVars, Pricing!storeVars
  <2> QED
    BY <2>1, <2>2, <2>4, <2>6, PricingPollMoves
<1>4. CASE Pricing!Bind(p)
  <2>1. prices_poll[p].selected \in prices_Homes
          /\ UNCHANGED <<prices_digest, prices_active, prices_choices, Pricing!storeVars>>
    BY <1>1, <1>4 DEF Pricing!Bind, PricingPollHolds
  <2>2. UNCHANGED <<prices_digest, prices_active, prices_registry, prices_prices,
                    prices_choices>>
    BY <2>1 DEF Pricing!storeVars
  <2>3. CASE prices_home = prices_Unset
    <3>1. PICK x \in Pricing!Held :
            x = [prices_poll[p] EXCEPT !.at = "checking", !.captured = prices_poll[p].selected]
      BY <1>1, <2>1 DEF Pricing!Held
    <3>2. x.at = "checking" /\ x.selected = prices_poll[p].selected
            /\ x.captured = prices_poll[p].selected
      BY <1>1, <3>1 DEF Pricing!Held
    <3>3. PricingPollHolds(x)
      BY <2>1, <3>2 DEF PricingPollHolds
    <3>4. prices_poll' = [prices_poll EXCEPT ![p] = x] /\ prices_home' = prices_poll[p].selected
            /\ prices_diagnostic' =
                 Pricing!DiagnosticAfter(prices_poll[p].selected, prices_Unset, "single")
      BY <1>1, <1>4, <2>3, <3>1 DEF Pricing!Bind
    <3>5. prices_diagnostic' \in Pricing!Diagnostic
      BY <1>1, <2>1, <3>4, PricingRecordIs DEF Pricing!Reasons
    <3> QED
      BY <2>1, <2>2, <3>3, <3>4, <3>5, PricingPollMoves
  <2>4. CASE prices_home # prices_Unset
    <3>1. PICK x \in Pricing!Held :
            x = [prices_poll[p] EXCEPT !.at = "rejecting", !.reason = "other"]
      BY <1>1 DEF Pricing!Held, Pricing!Reasons
    <3>2. PricingPollHolds(x)
      BY <1>1, <3>1 DEF PricingPollHolds, Pricing!Held
    <3>3. prices_poll' = [prices_poll EXCEPT ![p] = x]
            /\ UNCHANGED <<prices_home, prices_diagnostic>>
      BY <1>4, <2>4, <3>1 DEF Pricing!Bind, Pricing!Rejects
    <3> QED
      BY <1>1, <2>2, <3>2, <3>3, PricingPollMoves
  <2> QED
    BY <2>3, <2>4
<1>5. CASE Pricing!Check(p)
  <2>1. UNCHANGED <<prices_digest, prices_active, prices_registry, prices_prices,
                    prices_choices>>
          /\ prices_home' \in prices_Homes \cup {prices_Unset}
               /\ prices_diagnostic' \in Pricing!Diagnostic
          /\ prices_poll[p].at = "checking"
    BY <1>1, <1>5 DEF Pricing!Check, Pricing!settingVars, Pricing!storeVars
  <2>2. prices_poll[p].selected \in prices_Homes
          /\ prices_poll[p].selected = prices_poll[p].captured
    BY <1>1, <2>1 DEF PricingPollHolds
  <2>3. CASE Pricing!Rejects(p, "other")
    <3>1. PICK x \in Pricing!Held :
            x = [prices_poll[p] EXCEPT !.at = "rejecting", !.reason = "other"]
      BY <1>1 DEF Pricing!Held, Pricing!Reasons
    <3>2. PricingPollHolds(x)
      BY <1>1, <3>1 DEF PricingPollHolds, Pricing!Held
    <3> QED
      BY <2>1, <2>3, <3>1, <3>2, PricingPollMoves DEF Pricing!Rejects
  <2>4. ASSUME NEW c \in prices_Currencies,
               prices_poll' = [prices_poll EXCEPT ![p].at = "verified", ![p].currency = c]
        PROVE  PricingIInv'
    <3>1. PICK x \in Pricing!Held :
            x = [prices_poll[p] EXCEPT !.at = "verified", !.currency = c]
      BY <1>1 DEF Pricing!Held
    <3>2. x.at = "verified" /\ x.selected = prices_poll[p].selected
            /\ x.captured = prices_poll[p].captured
            /\ x.currency = c
      BY <1>1, <3>1 DEF Pricing!Held
    <3>3. PricingPollHolds(x)
      BY <2>2, <3>2 DEF PricingPollHolds
    <3>4. prices_poll' = [prices_poll EXCEPT ![p] = x]
      BY <1>1, <2>4, <3>1
    <3> QED
      BY <2>1, <3>3, <3>4, PricingPollMoves
  <2> QED
    BY <1>5, <2>3, <2>4 DEF Pricing!Check
<1>6. CASE Pricing!Reject(p)
  <2>1. Pricing!Record(prices_poll[p].captured, prices_poll[p].captured, prices_poll[p].reason)
          /\ prices_poll' = [prices_poll EXCEPT ![p] = Pricing!Resting]
               /\ UNCHANGED <<prices_digest, prices_active, Pricing!storeVars>>
    BY <1>6 DEF Pricing!Reject
  <2>2. prices_diagnostic' \in Pricing!Diagnostic /\ UNCHANGED <<prices_home, prices_choices>>
    BY <1>1, <2>1, PricingRecordIs DEF Pricing!Held
  <2>3. UNCHANGED <<prices_digest, prices_active, prices_registry, prices_prices,
                    prices_choices>>
    BY <2>1, <2>2 DEF Pricing!storeVars
  <2> QED
    BY <1>1, <2>1, <2>2, <2>3, PricingPollMoves, PricingRestingHolds
<1>7. CASE Pricing!Accept(p)
  <2>1. Pricing!Record(prices_poll[p].captured, prices_poll[p].selected, prices_Unset)
          /\ Pricing!Becomes(p, "writing")
          /\ UNCHANGED <<prices_digest, prices_active, Pricing!storeVars>>
               /\ prices_poll[p].at = "verified"
    BY <1>7 DEF Pricing!Accept
  <2>2. prices_diagnostic' \in Pricing!Diagnostic /\ UNCHANGED <<prices_home, prices_choices>>
    BY <1>1, <2>1, PricingRecordIs DEF Pricing!Held, Pricing!Reasons
  <2>3. UNCHANGED <<prices_digest, prices_active, prices_registry, prices_prices,
                    prices_choices>>
    BY <2>1, <2>2 DEF Pricing!storeVars
  <2>4. PICK x \in Pricing!Held : x = [prices_poll[p] EXCEPT !.at = "writing"]
    BY <1>1 DEF Pricing!Held
  <2>5. PricingPollHolds(x)
    BY <1>1, <2>1, <2>4 DEF PricingPollHolds, Pricing!Held
  <2>6. prices_poll' = [prices_poll EXCEPT ![p] = x]
    BY <2>1, <2>4 DEF Pricing!Becomes
  <2> QED
    BY <1>1, <2>2, <2>3, <2>5, <2>6, PricingPollMoves
<1>8. CASE Pricing!Abandon(p)
  <2>1. UNCHANGED <<prices_digest, prices_active, Pricing!settingVars, Pricing!storeVars>>
          /\ prices_poll' = [prices_poll EXCEPT ![p] = Pricing!Resting]
    BY <1>8 DEF Pricing!Abandon
  <2>2. UNCHANGED <<prices_digest, prices_active, prices_registry, prices_prices,
                    prices_choices>>
          /\ prices_home' \in prices_Homes \cup {prices_Unset}
               /\ prices_diagnostic' \in Pricing!Diagnostic
    BY <1>1, <2>1 DEF Pricing!settingVars, Pricing!storeVars
  <2> QED
    BY <2>1, <2>2, PricingPollMoves, PricingRestingHolds
<1> QED
  BY <1>2, <1>3, <1>4, <1>5, <1>6, <1>7, <1>8

\* What is registered stays, and prices are written where their scope is.
LEMMA PricingWriteIsKept ==
  ASSUME PricingIInv, NEW p \in prices_Polls, Pricing!Write(p)
  PROVE  PricingIInv'
<1>1. /\ prices_poll \in [prices_Polls -> Pricing!Held] /\ prices_poll[p] \in Pricing!Held
           /\ PricingPollHolds(prices_poll[p])
      /\ prices_digest \in [prices_Homes -> prices_Areas]
           /\ prices_registry \in [prices_Areas -> Pricing!ScopeOfHome \cup {prices_Unset}]
      /\ prices_prices \subseteq [area : prices_Areas, scope : Pricing!ScopeOfHome]
           /\ Pricing!TypeOK
  BY DEF PricingIInv, Pricing!TypeOK
<1>2. prices_poll[p].at = "writing"
        /\ prices_poll' = [prices_poll EXCEPT ![p] = Pricing!Resting]
        /\ UNCHANGED <<prices_digest, prices_active, Pricing!settingVars>>
  BY DEF Pricing!Write
<1>3. prices_poll' \in [prices_Polls -> Pricing!Held]
        /\ \A q \in prices_Polls : PricingPollHolds(prices_poll'[q])
  BY <1>1, <1>2, PricingRestingHolds DEF PricingIInv
<1>4. \A q \in prices_Polls : PricingPollHolds(prices_poll[q])'
  BY <1>3 DEF PricingPollHolds
<1>5. prices_poll[p].selected \in prices_Homes /\ prices_poll[p].currency \in prices_Currencies
  BY <1>1, <1>2 DEF PricingPollHolds
<1>6. PICK scope \in Pricing!ScopeOfHome : scope = Pricing!Scope(p)
  BY <1>5 DEF Pricing!Scope, Pricing!ScopeOfHome
<1>7. PICK area \in prices_Areas : area = prices_digest[prices_poll[p].selected]
  BY <1>1, <1>5
<1>8. /\ Pricing!Ensured(p, area) \in [prices_Areas -> Pricing!ScopeOfHome \cup {prices_Unset}]
      /\ \A a \in prices_Areas : prices_registry[a] # prices_Unset
           => Pricing!Ensured(p, area)[a] = prices_registry[a]
  <2>1. CASE Pricing!Ensured(p, area) = prices_registry
    BY <1>1, <2>1
  <2>2. CASE prices_registry[area] = prices_Unset
               /\ Pricing!Ensured(p, area) = [prices_registry EXCEPT ![area] = scope]
    BY <1>1, <2>2
  <2> QED
    BY <1>6, <2>1, <2>2 DEF Pricing!Ensured
<1>9. CASE Pricing!Ensured(p, area)[area] = scope
  <2>1. PICK r \in [prices_Areas -> Pricing!ScopeOfHome \cup {prices_Unset}] :
          r = Pricing!Ensured(p, area)
    BY <1>8
  <2>2. PICK row \in [area : prices_Areas, scope : Pricing!ScopeOfHome] :
          row = [area |-> area, scope |-> scope]
    OBVIOUS
  <2>3. prices_registry' = r /\ prices_prices' = prices_prices \cup {row}
    BY <1>6, <1>7, <1>9, <2>1, <2>2 DEF Pricing!Write
  <2>4. Pricing!TypeOK'
    BY <1>1, <1>2, <1>3, <2>3 DEF Pricing!TypeOK, Pricing!settingVars
  <2>5. PricingPricesAreRegistered'
    <3> SUFFICES ASSUME NEW x \in prices_prices'
                 PROVE  r[x.area] = x.scope
      BY <2>3 DEF PricingPricesAreRegistered
    <3>1. CASE x = row
      BY <1>9, <2>1, <2>2, <3>1
    <3>2. CASE x \in prices_prices
      <4>1. x.area \in prices_Areas /\ x.scope \in Pricing!ScopeOfHome
              /\ prices_registry[x.area] = x.scope
        BY <1>1, <3>2 DEF PricingIInv, PricingPricesAreRegistered
      <4> QED
        BY <1>8, <2>1, <4>1, PricesAssumption
    <3> QED
      BY <2>3, <3>1, <3>2
  <2> QED
    BY <1>4, <2>4, <2>5 DEF PricingIInv
<1>10. CASE Pricing!Ensured(p, area)[area] # scope
  <2>1. UNCHANGED Pricing!storeVars
    BY <1>6, <1>7, <1>10 DEF Pricing!Write
  <2>2. Pricing!TypeOK'
    BY <1>1, <1>2, <1>3, <2>1 DEF Pricing!TypeOK, Pricing!settingVars, Pricing!storeVars
  <2> QED
    BY <1>4, <2>1, <2>2 DEF PricingIInv, PricingPricesAreRegistered, Pricing!storeVars
<1> QED
  BY <1>9, <1>10

\* Every step keeps the binding and what was written under it.
LEMMA PricingInvariantKept == PricingIInv /\ [Pricing!Next]_pricesVars => PricingIInv'
<1> SUFFICES ASSUME PricingIInv, [Pricing!Next]_pricesVars
             PROVE  PricingIInv'
  OBVIOUS
<1>1. CASE UNCHANGED pricesVars
  BY <1>1 DEF pricesVars, PricingIInv, Pricing!TypeOK, PricingPricesAreRegistered,
     PricingPollHolds
<1>2. CASE Pricing!Choose
  <2>1. prices_home' \in prices_Homes \cup {prices_Unset}
          /\ prices_choices' = prices_choices + 1
          /\ prices_diagnostic' =
               [home |-> prices_home', reason |-> prices_Unset, method |-> "explicit"]
          /\ UNCHANGED <<prices_digest, prices_active, Pricing!storeVars, prices_poll>>
    BY <1>2 DEF Pricing!Choose
  <2>2. prices_diagnostic' \in Pricing!Diagnostic
    BY <2>1 DEF Pricing!Diagnostic, Pricing!Reasons
  <2>3. prices_choices' \in Nat
    BY <2>1 DEF PricingIInv, Pricing!TypeOK
  <2>4. Pricing!TypeOK'
    BY <2>1, <2>2, <2>3 DEF PricingIInv, Pricing!TypeOK, Pricing!storeVars
  <2> QED
    BY <2>1, <2>4 DEF PricingIInv, PricingPricesAreRegistered, PricingPollHolds,
       Pricing!storeVars
<1>3. CASE Pricing!Subscribe
  <2>1. prices_active' \in SUBSET prices_Homes
          /\ UNCHANGED <<prices_digest, Pricing!settingVars, Pricing!storeVars, prices_poll>>
    BY <1>3 DEF Pricing!Subscribe
  <2>2. Pricing!TypeOK'
    BY <2>1 DEF PricingIInv, Pricing!TypeOK, Pricing!storeVars, Pricing!settingVars
  <2> QED
    BY <2>1, <2>2 DEF PricingIInv, PricingPricesAreRegistered, PricingPollHolds,
       Pricing!storeVars
<1>4. ASSUME NEW p \in prices_Polls,
             Pricing!Capture(p) \/ Pricing!Answer(p) \/ Pricing!Bind(p) \/ Pricing!Check(p)
               \/ Pricing!Reject(p) \/ Pricing!Accept(p) \/ Pricing!Abandon(p)
      PROVE  PricingIInv'
  BY <1>4, PricingPollsAreKept
<1>5. ASSUME NEW p \in prices_Polls, Pricing!Write(p)
      PROVE  PricingIInv'
  BY <1>5, PricingWriteIsKept
<1> QED
  BY <1>1, <1>2, <1>3, <1>4, <1>5 DEF Pricing!Next


\* The invariant of this service, whenever it is the one that acts.
LEMMA PricingInvariant == AccountSpec => [](account = "prices" => PricingIInv)
<1>1. AccountInit => (account = "prices" => PricingIInv)
  BY PricingInvariantInitially DEF AccountInit
<1>2. (account = "prices" => PricingIInv) /\ [AccountNext]_accountVars
        => (account = "prices" => PricingIInv)'
  BY PricingInvariantKept DEF AccountNext, accountVars
<1> QED
  BY <1>1, <1>2, PTL DEF AccountSpec

-----------------------------------------------------------------------------
(***************************************************************************)
(* Settings that must agree with each other (SettingsStore).               *)
(***************************************************************************)

SettingsLock == [{"contract", "gate"} -> settings_Writers \cup {"seasonal", settings_Free}]

\* The locks a request holds at its place, and the change that it was given.
SettingsWriterIs(w, x, lk) ==
  /\ lk["contract"] = w <=> x.at \in {"gate", "locked", "read"}
  /\ lk["gate"] = w <=> x.at \in {"locked", "read"}
  /\ x.at # "idle" => x.updates \in Settings!Updates

\* The locks the seasonal transition holds at its place.
SettingsCycleIs(x, lk, sh) ==
  /\ lk["gate"] = "seasonal" <=> x.at \in {"share", "deciding", "contract"}
  /\ lk["contract"] # "seasonal"
  /\ sh <=> x.at \in {"deciding", "contract"}
  /\ sh => ~settings_acting

\* What was read under the locks is still so.
SettingsReadsAreCurrent == /\ \A w \in settings_Writers : settings_writer[w].at = "read"
                                => settings_writer[w].seen = settings_stored
                           /\ settings_cycle.at = "contract"
                                => settings_cycle.updates = Settings!Decision(settings_stored)

SettingsIInv == /\ Settings!TypeOK
                /\ \A w \in settings_Writers :
                     SettingsWriterIs(w, settings_writer[w], settings_lock)
                /\ SettingsCycleIs(settings_cycle, settings_lock, settings_shared)
                /\ SettingsReadsAreCurrent
                /\ Settings!SettingsCohere

\* The fields of settings that some keys of were replaced.
LEMMA SettingsOverIs ==
  ASSUME NEW s \in Settings!Stored, NEW u
  PROVE  /\ Settings!Over(u, s).on = IF "on" \in DOMAIN u THEN u["on"] ELSE s.on
         /\ Settings!Over(u, s).off = IF "off" \in DOMAIN u THEN u["off"] ELSE s.off
         /\ Settings!Over(u, s).enabled = IF "enabled" \in DOMAIN u THEN u["enabled"]
              ELSE s.enabled
         /\ Settings!Over(u, s).provider = IF "provider" \in DOMAIN u THEN u["provider"]
              ELSE s.provider
         /\ Settings!Over(u, s).since = IF "since" \in DOMAIN u THEN u["since"] ELSE s.since
         /\ Settings!Over(u, s).deferred = IF "deferred" \in DOMAIN u THEN u["deferred"]
              ELSE s.deferred
BY DEF Settings!Over, Settings!Stored

\* They are settings if the replacements are of their kind.
LEMMA SettingsOverIsStored ==
  ASSUME NEW s \in Settings!Stored, NEW u,
         "on" \in DOMAIN u => u["on"] \in Nat, "off" \in DOMAIN u => u["off"] \in Nat,
         "enabled" \in DOMAIN u => u["enabled"] \in BOOLEAN,
         "provider" \in DOMAIN u => u["provider"] \in settings_Providers,
         "since" \in DOMAIN u => u["since"] \in BOOLEAN,
         "deferred" \in DOMAIN u => u["deferred"] \in BOOLEAN
  PROVE  Settings!Over(u, s) \in Settings!Stored
<1>1. DOMAIN s = {"on", "off", "enabled", "provider", "since", "deferred"}
  BY DEF Settings!Stored
<1>2. /\ s["on"] \in Nat /\ s["off"] \in Nat /\ s["enabled"] \in BOOLEAN
      /\ s["provider"] \in settings_Providers /\ s["since"] \in BOOLEAN
           /\ s["deferred"] \in BOOLEAN
  BY DEF Settings!Stored
<1> QED
  BY <1>1, <1>2 DEF Settings!Over, Settings!Stored

\* A request at work moves and leaves the settings alone.
LEMMA SettingsWriterMoves ==
  ASSUME SettingsIInv, NEW w \in settings_Writers, NEW x \in Settings!Holding,
         NEW lk \in SettingsLock,
         settings_writer' = [settings_writer EXCEPT ![w] = x], settings_lock' = lk,
         \A l \in {"contract", "gate"}, v \in settings_Writers \cup {"seasonal"} :
            v # w => (lk[l] = v <=> settings_lock[l] = v),
         SettingsWriterIs(w, x, lk), x.at = "read" => x.seen = settings_stored,
         UNCHANGED <<Settings!dataVars, Settings!actionVars, settings_shared, settings_cycle>>
  PROVE  SettingsIInv'
<1>1. settings_writer' \in [settings_Writers -> Settings!Holding]
        /\ \A v \in settings_Writers : settings_writer'[v] = IF v = w THEN x
             ELSE settings_writer[v]
  BY DEF SettingsIInv, Settings!TypeOK
<1>2. \A v \in settings_Writers : SettingsWriterIs(v, settings_writer'[v], lk)
  BY <1>1 DEF SettingsIInv, SettingsWriterIs
<1>3. UNCHANGED <<settings_stored, settings_generation, settings_weather, settings_writes,
                  settings_owed, settings_acting, settings_shared, settings_cycle>>
  BY DEF Settings!dataVars, Settings!actionVars
<1>4. (\A v \in settings_Writers : SettingsWriterIs(v, settings_writer[v], settings_lock))'
  BY <1>2 DEF SettingsWriterIs
<1>5. SettingsCycleIs(settings_cycle, settings_lock, settings_shared)'
  <2>1. "seasonal" \in settings_Writers \cup {"seasonal"} /\ "seasonal" # w
    BY SettingsAssumption
  <2> QED
    BY <1>3, <2>1 DEF SettingsIInv, SettingsCycleIs
<1>6. SettingsReadsAreCurrent'
  BY <1>1, <1>3 DEF SettingsIInv, SettingsReadsAreCurrent, Settings!Decision
<1>7. Settings!SettingsCohere'
  BY <1>3 DEF SettingsIInv, Settings!SettingsCohere, Settings!Coherent
<1>8. Settings!TypeOK'
  BY <1>1, <1>3 DEF SettingsIInv, Settings!TypeOK, SettingsLock
<1> QED
  BY <1>4, <1>5, <1>6, <1>7, <1>8 DEF SettingsIInv

\* The seasonal transition moves and leaves the settings alone.
LEMMA SettingsCycleMoves ==
  ASSUME SettingsIInv, NEW x \in Settings!Cycling, NEW lk \in SettingsLock, NEW sh \in BOOLEAN,
         settings_cycle' = x, settings_lock' = lk, settings_shared' = sh,
         \A l \in {"contract", "gate"},
         v \in settings_Writers : lk[l] = v <=> settings_lock[l] = v,
         SettingsCycleIs(x, lk, sh), x.at # "contract",
         UNCHANGED <<Settings!dataVars, Settings!actionVars, settings_writer>>
  PROVE  SettingsIInv'
<1>3. UNCHANGED <<settings_stored, settings_generation, settings_weather, settings_writes,
                  settings_owed, settings_acting, settings_writer>>
  BY DEF Settings!dataVars, Settings!actionVars
<1>4. (\A v \in settings_Writers : SettingsWriterIs(v, settings_writer[v], settings_lock))'
  BY <1>3 DEF SettingsIInv, SettingsWriterIs
<1>5. SettingsCycleIs(settings_cycle, settings_lock, settings_shared)'
  BY <1>3 DEF SettingsCycleIs
<1>6. SettingsReadsAreCurrent'
  BY <1>3 DEF SettingsIInv, SettingsReadsAreCurrent
<1>7. Settings!SettingsCohere'
  BY <1>3 DEF SettingsIInv, Settings!SettingsCohere, Settings!Coherent
<1>8. Settings!TypeOK'
  BY <1>3 DEF SettingsIInv, Settings!TypeOK, SettingsLock
<1> QED
  BY <1>4, <1>5, <1>6, <1>7, <1>8 DEF SettingsIInv

\* The locks that are left when one party lets go.
LEMMA SettingsReleasedIs ==
  ASSUME Settings!TypeOK, NEW a \in settings_Writers \cup {"seasonal"}
  PROVE  /\ Settings!Released(a) \in SettingsLock
         /\ \A l \in {"contract", "gate"} :
               /\ Settings!Released(a)[l] # a
               /\ \A v \in settings_Writers \cup {"seasonal"} :
                     v # a => (Settings!Released(a)[l] = v <=> settings_lock[l] = v)
BY SettingsAssumption DEF Settings!TypeOK, Settings!Released, SettingsLock

\* A request that ends holds no lock.
LEMMA SettingsLetsGo ==
  ASSUME SettingsIInv, NEW w \in settings_Writers, settings_lock' = Settings!Released(w),
         settings_writer' = [settings_writer EXCEPT ![w] = Settings!Resting],
         UNCHANGED <<Settings!dataVars, Settings!actionVars, settings_shared, settings_cycle>>
  PROVE  SettingsIInv'
<1>1. PICK x \in Settings!Holding : x = Settings!Resting
  BY DEF Settings!Resting, Settings!Holding
<1>2. x.at = "idle"
  BY <1>1 DEF Settings!Resting
<1>3. PICK lk \in SettingsLock : lk = Settings!Released(w)
  BY SettingsReleasedIs DEF SettingsIInv
<1>4. \A l \in {"contract", "gate"} :
        /\ lk[l] # w
        /\ \A v \in settings_Writers \cup {"seasonal"} : v # w
             => (lk[l] = v <=> settings_lock[l] = v)
  BY <1>3, SettingsReleasedIs DEF SettingsIInv
<1>5. SettingsWriterIs(w, x, lk)
  BY <1>2, <1>4 DEF SettingsWriterIs
<1> QED
  BY <1>1, <1>2, <1>3, <1>4, <1>5, SettingsWriterMoves

\* A transition that ends holds no lock.
LEMMA SettingsCycleEnds ==
  ASSUME SettingsIInv, NEW x \in Settings!Cycling,
         x = [settings_cycle EXCEPT !.at = "idle", !.updates = <<>>],
         settings_lock' = Settings!Released("seasonal"), settings_shared' = FALSE,
         settings_cycle' = x,
         UNCHANGED <<Settings!dataVars, Settings!actionVars, settings_writer>>
  PROVE  SettingsIInv'
<1>1. x.at = "idle"
  BY DEF SettingsIInv, Settings!TypeOK, Settings!Cycling
<1>2. PICK lk \in SettingsLock : lk = Settings!Released("seasonal")
  BY SettingsReleasedIs DEF SettingsIInv
<1>3. \A l \in {"contract", "gate"} :
        /\ lk[l] # "seasonal"
        /\ \A v \in settings_Writers \cup {"seasonal"} : v # "seasonal"
             => (lk[l] = v <=> settings_lock[l] = v)
  BY <1>2, SettingsReleasedIs DEF SettingsIInv
<1>4. SettingsCycleIs(x, lk, FALSE)
  BY <1>1, <1>3 DEF SettingsCycleIs
<1>5. \A l \in {"contract", "gate"}, v \in settings_Writers : lk[l] = v <=> settings_lock[l] = v
  BY <1>3, SettingsAssumption
<1> QED
  BY <1>1, <1>2, <1>4, <1>5, SettingsCycleMoves

\* At first nobody is at work.
LEMMA SettingsInvariantInitially == ASSUME Settings!Init PROVE SettingsIInv
<1>1. PICK opted \in BOOLEAN, p \in settings_Providers :
        /\ settings_stored = [on |-> 1, off |-> 3, enabled |-> opted, provider |-> p,
                              since |-> FALSE, deferred |-> FALSE]
        /\ settings_weather = <<p>>
  <2>1. (CHOOSE p \in settings_Providers : TRUE) \in settings_Providers
    BY SettingsAssumption
  <2> QED
    BY <2>1 DEF Settings!Init
<1>2. settings_stored \in Settings!Stored /\ settings_weather \in Seq(settings_Providers)
        /\ Len(settings_weather) = 1 /\ settings_weather[1] = settings_stored.provider
  BY <1>1 DEF Settings!Stored
<1>3. Settings!Resting \in Settings!Holding
  BY DEF Settings!Resting, Settings!Holding
<1>4. settings_cycle \in Settings!Cycling /\ settings_cycle.at = "idle"
  BY DEF Settings!Init, Settings!Cycling, Settings!Changes
<1>5. Settings!TypeOK
  BY <1>2, <1>3, <1>4 DEF Settings!Init, Settings!TypeOK
<1>6. Settings!SettingsCohere
  BY <1>1, <1>2 DEF Settings!Init, Settings!SettingsCohere, Settings!Coherent
<1>7. \A w \in settings_Writers : SettingsWriterIs(w, settings_writer[w], settings_lock)
  BY SettingsAssumption DEF Settings!Init, SettingsWriterIs, Settings!Resting
<1>8. SettingsCycleIs(settings_cycle, settings_lock, settings_shared) /\ SettingsReadsAreCurrent
  BY <1>4, SettingsAssumption DEF Settings!Init, SettingsCycleIs,
     SettingsReadsAreCurrent, Settings!Resting
<1> QED
  BY <1>5, <1>6, <1>7, <1>8 DEF SettingsIInv

\* What a request does short of its write.
LEMMA SettingsWritersAreKept ==
  ASSUME SettingsIInv, NEW w \in settings_Writers,
         Settings!Request(w) \/ Settings!LockContract(w) \/ Settings!LockGate(w)
           \/ Settings!ReadValues(w) \/ Settings!Abandon(w)
  PROVE  SettingsIInv'
<1>1. /\ Settings!TypeOK /\ settings_writer \in [settings_Writers -> Settings!Holding]
           /\ settings_writer[w] \in Settings!Holding /\ settings_lock \in SettingsLock
      /\ SettingsWriterIs(w, settings_writer[w], settings_lock)
           /\ settings_stored \in Settings!Stored
  BY DEF SettingsIInv, Settings!TypeOK, SettingsLock
<1>2. CASE Settings!Request(w)
  <2>1. PICK u \in Settings!Updates :
          settings_writer' = [settings_writer EXCEPT ![w] =
                                [Settings!Resting EXCEPT !.at = "contract", !.updates = u]]
    BY <1>2 DEF Settings!Request
  <2>2. PICK x \in Settings!Holding :
          x = [Settings!Resting EXCEPT !.at = "contract", !.updates = u]
    BY DEF Settings!Resting, Settings!Holding
  <2>3. x.at = "contract" /\ x.updates = u
    BY <2>2 DEF Settings!Resting
  <2>4. settings_writer[w].at = "idle"
          /\ UNCHANGED <<Settings!dataVars, Settings!actionVars, settings_lock,
                         settings_shared, settings_cycle>>
    BY <1>2 DEF Settings!Request
  <2>5. SettingsWriterIs(w, x, settings_lock)
    BY <1>1, <2>3, <2>4 DEF SettingsWriterIs
  <2> QED
    BY <1>1, <2>1, <2>2, <2>3, <2>4, <2>5, SettingsWriterMoves
<1>3. CASE Settings!LockContract(w)
  <2>1. PICK x \in Settings!Holding : x = [settings_writer[w] EXCEPT !.at = "gate"]
    BY <1>1 DEF Settings!Holding
  <2>2. x.at = "gate" /\ x.updates = settings_writer[w].updates
    BY <1>1, <2>1 DEF Settings!Holding
  <2>3. PICK lk \in SettingsLock : lk = [settings_lock EXCEPT !["contract"] = w]
    BY <1>1 DEF SettingsLock
  <2>4. lk["contract"] = w /\ lk["gate"] = settings_lock["gate"]
    BY <1>1, <2>3 DEF SettingsLock
  <2>5. /\ settings_writer[w].at = "contract" /\ settings_lock["contract"] = settings_Free
             /\ settings_lock' = lk
        /\ settings_writer' = [settings_writer EXCEPT ![w] = x]
             /\ UNCHANGED <<Settings!dataVars, Settings!actionVars, settings_shared,
                            settings_cycle>>
    BY <1>1, <1>3, <2>1, <2>3 DEF Settings!LockContract
  <2>6. SettingsWriterIs(w, x, lk)
    BY <1>1, <2>2, <2>4, <2>5 DEF SettingsWriterIs
  <2>7. \A l \in {"contract", "gate"}, v \in settings_Writers \cup {"seasonal"} :
            v # w => (lk[l] = v <=> settings_lock[l] = v)
    BY <2>4, <2>5, SettingsAssumption
  <2> QED
    BY <2>2, <2>5, <2>6, <2>7, SettingsWriterMoves
<1>4. CASE Settings!LockGate(w)
  <2>1. PICK x \in Settings!Holding : x = [settings_writer[w] EXCEPT !.at = "locked"]
    BY <1>1 DEF Settings!Holding
  <2>2. x.at = "locked" /\ x.updates = settings_writer[w].updates
    BY <1>1, <2>1 DEF Settings!Holding
  <2>3. PICK lk \in SettingsLock : lk = [settings_lock EXCEPT !["gate"] = w]
    BY <1>1 DEF SettingsLock
  <2>4. lk["gate"] = w /\ lk["contract"] = settings_lock["contract"]
    BY <1>1, <2>3 DEF SettingsLock
  <2>5. /\ settings_writer[w].at = "gate" /\ settings_lock["gate"] = settings_Free
             /\ settings_lock' = lk
        /\ settings_writer' = [settings_writer EXCEPT ![w] = x]
             /\ UNCHANGED <<Settings!dataVars, Settings!actionVars, settings_shared,
                            settings_cycle>>
    BY <1>1, <1>4, <2>1, <2>3 DEF Settings!LockGate
  <2>6. SettingsWriterIs(w, x, lk)
    BY <1>1, <2>2, <2>4, <2>5 DEF SettingsWriterIs
  <2>7. \A l \in {"contract", "gate"}, v \in settings_Writers \cup {"seasonal"} :
            v # w => (lk[l] = v <=> settings_lock[l] = v)
    BY <2>4, <2>5, SettingsAssumption
  <2> QED
    BY <2>2, <2>5, <2>6, <2>7, SettingsWriterMoves
<1>5. CASE Settings!ReadValues(w)
  <2>1. PICK x \in Settings!Holding :
          x = [settings_writer[w] EXCEPT !.at = "read", !.seen = settings_stored]
    BY <1>1 DEF Settings!Holding
  <2>2. x.at = "read" /\ x.updates = settings_writer[w].updates /\ x.seen = settings_stored
    BY <1>1, <2>1 DEF Settings!Holding
  <2>3. /\ settings_writer[w].at = "locked"
             /\ settings_writer' = [settings_writer EXCEPT ![w] = x]
        /\ UNCHANGED <<Settings!dataVars, Settings!actionVars, settings_lock, settings_shared,
                       settings_cycle>>
    BY <1>5, <2>1 DEF Settings!ReadValues
  <2>4. SettingsWriterIs(w, x, settings_lock)
    BY <1>1, <2>2, <2>3 DEF SettingsWriterIs
  <2> QED
    BY <1>1, <2>2, <2>3, <2>4, SettingsWriterMoves
<1>6. CASE Settings!Abandon(w)
  BY <1>1, <1>6, SettingsLetsGo DEF Settings!Abandon
<1> QED
  BY <1>2, <1>3, <1>4, <1>5, <1>6

\* What the seasonal transition does short of its write.
LEMMA SettingsCyclesAreKept ==
  ASSUME SettingsIInv, Settings!Cycle \/ Settings!CycleLocks \/ Settings!CycleShares
           \/ Settings!CycleFails
  PROVE  SettingsIInv'
<1>1. Settings!TypeOK /\ settings_cycle \in Settings!Cycling /\ settings_lock \in SettingsLock
        /\ settings_shared \in BOOLEAN
        /\ SettingsCycleIs(settings_cycle, settings_lock, settings_shared)
  BY DEF SettingsIInv, Settings!TypeOK, SettingsLock
<1>2. CASE Settings!Cycle
  <2>1. PICK season \in BOOLEAN :
          settings_cycle' = [settings_cycle EXCEPT !.at = "gate", !.season = season]
    BY <1>2 DEF Settings!Cycle
  <2>2. PICK x \in Settings!Cycling :
          x = [settings_cycle EXCEPT !.at = "gate", !.season = season]
    BY <1>1 DEF Settings!Cycling
  <2>3. x.at = "gate"
    BY <1>1, <2>2 DEF Settings!Cycling
  <2>4. settings_cycle.at = "idle"
          /\ UNCHANGED <<Settings!dataVars, Settings!actionVars, settings_lock,
                         settings_shared, settings_writer>>
    BY <1>2 DEF Settings!Cycle
  <2>5. SettingsCycleIs(x, settings_lock, settings_shared)
    BY <1>1, <2>3, <2>4 DEF SettingsCycleIs
  <2> QED
    BY <1>1, <2>1, <2>2, <2>3, <2>4, <2>5, SettingsCycleMoves
<1>3. CASE Settings!CycleLocks
  <2>1. PICK x \in Settings!Cycling : x = [settings_cycle EXCEPT !.at = "share"]
    BY <1>1 DEF Settings!Cycling
  <2>2. x.at = "share"
    BY <1>1, <2>1 DEF Settings!Cycling
  <2>3. PICK lk \in SettingsLock : lk = [settings_lock EXCEPT !["gate"] = "seasonal"]
    BY <1>1 DEF SettingsLock
  <2>4. lk["gate"] = "seasonal" /\ lk["contract"] = settings_lock["contract"]
    BY <1>1, <2>3 DEF SettingsLock
  <2>5. /\ settings_cycle.at = "gate" /\ settings_lock["gate"] = settings_Free
             /\ settings_lock' = lk /\ settings_cycle' = x
        /\ UNCHANGED <<Settings!dataVars, Settings!actionVars, settings_shared,
                       settings_writer>>
    BY <1>3, <2>1, <2>3 DEF Settings!CycleLocks
  <2>6. SettingsCycleIs(x, lk, settings_shared)
    BY <1>1, <2>2, <2>4, <2>5 DEF SettingsCycleIs
  <2>7. \A l \in {"contract", "gate"},
        v \in settings_Writers : lk[l] = v <=> settings_lock[l] = v
    BY <2>4, <2>5, SettingsAssumption
  <2> QED
    BY <1>1, <2>2, <2>5, <2>6, <2>7, SettingsCycleMoves
<1>4. CASE Settings!CycleShares
  <2>1. PICK x \in Settings!Cycling : x = [settings_cycle EXCEPT !.at = "deciding"]
    BY <1>1 DEF Settings!Cycling
  <2>2. x.at = "deciding"
    BY <1>1, <2>1 DEF Settings!Cycling
  <2>3. /\ settings_cycle.at = "share" /\ ~settings_acting /\ settings_shared' = TRUE
             /\ settings_cycle' = x
        /\ UNCHANGED <<Settings!dataVars, Settings!actionVars, settings_lock, settings_writer>>
    BY <1>4, <2>1 DEF Settings!CycleShares
  <2>4. SettingsCycleIs(x, settings_lock, TRUE)
    BY <1>1, <2>2, <2>3 DEF SettingsCycleIs
  <2> QED
    BY <1>1, <2>2, <2>3, <2>4, SettingsCycleMoves
<1>5. CASE Settings!CycleFails
  <2>1. PICK x \in Settings!Cycling :
          x = [settings_cycle EXCEPT !.at = "idle", !.updates = <<>>]
    BY <1>1 DEF Settings!Cycling, Settings!Changes
  <2>2. /\ settings_lock' = Settings!Released("seasonal") /\ settings_shared' = FALSE
             /\ settings_cycle' = x
        /\ UNCHANGED <<Settings!dataVars, Settings!actionVars, settings_writer>>
    BY <1>5, <2>1 DEF Settings!CycleFails
  <2> QED
    BY <1>1, <2>1, <2>2, SettingsCycleEnds
<1> QED
  BY <1>2, <1>3, <1>4, <1>5

\* It decides on the settings that it has locked.
LEMMA SettingsDecisionsAreKept == ASSUME SettingsIInv, Settings!CycleDecides PROVE SettingsIInv'
<1>1. Settings!TypeOK /\ settings_cycle \in Settings!Cycling /\ settings_lock \in SettingsLock
        /\ settings_shared \in BOOLEAN
        /\ SettingsCycleIs(settings_cycle, settings_lock, settings_shared)
             /\ settings_cycle.at = "deciding"
        /\ UNCHANGED <<Settings!dataVars, Settings!actionVars, settings_writer>>
  BY DEF SettingsIInv, Settings!TypeOK, SettingsLock, Settings!CycleDecides
<1>2. PICK u \in Settings!Changes : u = Settings!Decision(settings_stored)
  BY DEF Settings!Decision, Settings!Changes
<1>3. CASE u = <<>>
  <2>1. PICK x \in Settings!Cycling : x = [settings_cycle EXCEPT !.at = "idle", !.updates = u]
    BY <1>1 DEF Settings!Cycling
  <2>2. x = [settings_cycle EXCEPT !.at = "idle", !.updates = <<>>]
    BY <1>3, <2>1
  <2>3. settings_lock' = Settings!Released("seasonal") /\ settings_shared' = FALSE
          /\ settings_cycle' = x
    BY <1>2, <1>3, <2>1 DEF Settings!CycleDecides
  <2> QED
    BY <1>1, <2>2, <2>3, SettingsCycleEnds
<1>4. CASE u # <<>>
  <2>1. PICK x \in Settings!Cycling :
          x = [settings_cycle EXCEPT !.at = "contract", !.updates = u]
    BY <1>1 DEF Settings!Cycling
  <2>2. x.at = "contract" /\ x.updates = u /\ x.season = settings_cycle.season
    BY <1>1, <2>1 DEF Settings!Cycling
  <2>3. UNCHANGED <<settings_lock, settings_shared>> /\ settings_cycle' = x
    BY <1>2, <1>4, <2>1 DEF Settings!CycleDecides
  <2>4. UNCHANGED <<settings_stored, settings_generation, settings_weather, settings_writes,
                    settings_owed, settings_acting, settings_writer>>
    BY <1>1 DEF Settings!dataVars, Settings!actionVars
  <2>5. Settings!Decision(settings_stored)' = Settings!Decision(settings_stored)
    BY <2>2, <2>3, <2>4 DEF Settings!Decision
  <2>6. SettingsReadsAreCurrent'
    BY <1>2, <2>2, <2>3, <2>4, <2>5 DEF SettingsIInv, SettingsReadsAreCurrent
  <2>7. (\A v \in settings_Writers : SettingsWriterIs(v, settings_writer[v], settings_lock))'
    BY <2>3, <2>4 DEF SettingsIInv, SettingsWriterIs
  <2>8. SettingsCycleIs(settings_cycle, settings_lock, settings_shared)'
    BY <1>1, <2>2, <2>3, <2>4 DEF SettingsCycleIs
  <2>9. Settings!SettingsCohere' /\ Settings!TypeOK'
    BY <2>1, <2>3, <2>4 DEF SettingsIInv, Settings!SettingsCohere, Settings!Coherent,
       Settings!TypeOK
  <2> QED
    BY <2>6, <2>7, <2>8, <2>9 DEF SettingsIInv
<1> QED
  BY <1>3, <1>4

\* What a request's change makes of coherent settings.
LEMMA SettingsWriteCoheres ==
  ASSUME NEW u \in Settings!Updates, NEW s \in Settings!Stored, NEW next,
         next = Settings!Over(Settings!Completed(u), s),
         s.since => s.enabled /\ ~s.deferred, s.deferred => s.enabled
  PROVE  /\ next \in Settings!Stored
         /\ next.since => next.enabled /\ ~next.deferred
         /\ next.deferred => next.enabled
         /\ next.since => s.since
<1>1. PICK c : c = Settings!Completed(u)
  OBVIOUS
<1>2. CASE u \in [{"on"} -> settings_Offsets] \/ u \in [{"off"} -> settings_Offsets]
             \/ u \in [{"provider"} -> settings_Providers]
  <2>1. c = u
    BY <1>1, <1>2 DEF Settings!Completed
  <2>2. next \in Settings!Stored
    BY <1>1, <1>2, <2>1, SettingsOverIsStored, SettingsAssumption
  <2>3. next.since = s.since /\ next.enabled = s.enabled /\ next.deferred = s.deferred
    BY <1>1, <1>2, <2>1, SettingsOverIs
  <2> QED
    BY <2>2, <2>3
<1>3. CASE u \in [{"enabled"} -> BOOLEAN]
  <2>1. CASE u["enabled"]
    <3>1. c = u
      BY <1>1, <1>3, <2>1 DEF Settings!Completed
    <3>2. next \in Settings!Stored
      BY <1>1, <1>3, <3>1, SettingsOverIsStored
    <3>3. next.since = s.since /\ next.enabled = TRUE /\ next.deferred = s.deferred
      BY <1>1, <1>3, <2>1, <3>1, SettingsOverIs
    <3> QED
      BY <3>2, <3>3
  <2>2. CASE ~u["enabled"]
    <3>1. c = [enabled |-> FALSE, since |-> FALSE, deferred |-> FALSE]
      BY <1>1, <1>3, <2>2 DEF Settings!Completed
    <3>2. next \in Settings!Stored
      BY <1>1, <3>1, SettingsOverIsStored
    <3>3. next.since = FALSE /\ next.enabled = FALSE /\ next.deferred = FALSE
      BY <1>1, <3>1, SettingsOverIs
    <3> QED
      BY <3>2, <3>3
  <2> QED
    BY <2>1, <2>2
<1> QED
  BY <1>2, <1>3 DEF Settings!Updates

\* A write under both locks.
LEMMA SettingsWritesAreKept == ASSUME SettingsIInv, NEW w \in settings_Writers,
                                      Settings!Write(w)
                               PROVE  SettingsIInv' /\ Settings!StartsWithoutDebt
<1>1. /\ Settings!TypeOK /\ settings_writer \in [settings_Writers -> Settings!Holding]
           /\ settings_stored \in Settings!Stored
      /\ settings_generation \in Nat /\ settings_weather \in Seq(settings_Providers)
           /\ settings_writes \in Nat
      /\ SettingsWriterIs(w, settings_writer[w], settings_lock) /\ Settings!SettingsCohere
           /\ settings_lock \in SettingsLock
  BY DEF SettingsIInv, Settings!TypeOK, SettingsLock
<1>2. PICK u \in Settings!Updates : u = settings_writer[w].updates
  BY <1>1 DEF Settings!Write, SettingsWriterIs
<1>3. /\ settings_writer[w].at = "read" /\ settings_writer[w].seen = settings_stored
      /\ settings_lock' = Settings!Released(w)
           /\ settings_writer' = [settings_writer EXCEPT ![w] = Settings!Resting]
      /\ UNCHANGED <<Settings!actionVars, settings_shared, settings_cycle>>
  BY DEF Settings!Write, SettingsIInv, SettingsReadsAreCurrent
<1>4. PICK next : next = Settings!Over(Settings!Completed(u), settings_stored)
  OBVIOUS
<1>5. \/ UNCHANGED Settings!dataVars
      \/ /\ Settings!Coherent(next) /\ settings_writes' = settings_writes + 1
              /\ settings_stored' = next
         /\ settings_generation' = IF next.provider # settings_stored.provider
              THEN settings_generation + 1 ELSE settings_generation
         /\ settings_weather' = IF next.provider # settings_stored.provider
              THEN Append(settings_weather, next.provider)
                                ELSE settings_weather
  BY <1>2, <1>3, <1>4 DEF Settings!Write
<1>6. CASE UNCHANGED Settings!dataVars
  <2>1. SettingsIInv'
    BY <1>3, <1>6, SettingsLetsGo
  <2>2. settings_stored' = settings_stored
    BY <1>6 DEF Settings!dataVars
  <2> QED
    BY <2>1, <2>2 DEF Settings!StartsWithoutDebt
<1>7. CASE ~UNCHANGED Settings!dataVars
  <2>0. /\ Settings!Coherent(next) /\ settings_writes' = settings_writes + 1
             /\ settings_stored' = next
        /\ settings_generation' = IF next.provider # settings_stored.provider
             THEN settings_generation + 1 ELSE settings_generation
        /\ settings_weather' = IF next.provider # settings_stored.provider
             THEN Append(settings_weather, next.provider)
                               ELSE settings_weather
    BY <1>5, <1>7
  <2>1. /\ next \in Settings!Stored
        /\ next.since => next.enabled /\ ~next.deferred
        /\ next.deferred => next.enabled
        /\ next.since => settings_stored.since
    BY <1>1, <1>4, SettingsWriteCoheres DEF Settings!SettingsCohere
  <2>2. /\ settings_generation' \in Nat /\ settings_weather' \in Seq(settings_Providers)
        /\ settings_generation' + 1 = Len(settings_weather')
             /\ settings_weather'[Len(settings_weather')] = next.provider
    <3>1. next.provider \in settings_Providers
            /\ settings_generation + 1 = Len(settings_weather)
            /\ settings_weather[Len(settings_weather)] = settings_stored.provider
      BY <1>1, <2>1 DEF Settings!Stored, Settings!SettingsCohere
    <3>2. CASE next.provider = settings_stored.provider
      BY <1>1, <2>0, <3>1, <3>2
    <3>3. CASE next.provider # settings_stored.provider
      BY <1>1, <2>0, <3>1, <3>3
    <3> QED
      BY <3>2, <3>3
  <2>3. Settings!SettingsCohere'
    BY <2>0, <2>1, <2>2 DEF Settings!SettingsCohere, Settings!Coherent
  <2>4. UNCHANGED <<settings_owed, settings_acting, settings_shared, settings_cycle>>
    BY <1>3 DEF Settings!actionVars
  <2>50. PICK x \in Settings!Holding : x = Settings!Resting
    BY DEF Settings!Resting, Settings!Holding
  <2>5. x = Settings!Resting /\ x.at = "idle"
    BY <2>50 DEF Settings!Resting
  <2>6. settings_writer' \in [settings_Writers -> Settings!Holding]
          /\ \A v \in settings_Writers : settings_writer'[v] = IF v = w THEN x
               ELSE settings_writer[v]
    BY <1>1, <1>3, <2>5
  <2>7. /\ settings_lock' \in SettingsLock
        /\ \A l \in {"contract", "gate"} :
              /\ settings_lock'[l] # w
              /\ \A v \in settings_Writers \cup {"seasonal"} : v # w
                   => (settings_lock'[l] = v <=> settings_lock[l] = v)
    <3>0. Settings!TypeOK
      BY <1>1
    <3>1. PICK lk \in SettingsLock : lk = Settings!Released(w)
      BY <3>0, SettingsReleasedIs
    <3>2. \A l \in {"contract", "gate"} :
            /\ lk[l] # w
            /\ \A v \in settings_Writers \cup {"seasonal"} : v # w
                 => (lk[l] = v <=> settings_lock[l] = v)
      BY <3>0, <3>1, SettingsReleasedIs
    <3>3. settings_lock' = lk
      BY <1>3, <3>1
    <3> QED
      <4>1. \A l \in {"contract", "gate"} : settings_lock'[l] = lk[l]
        BY <3>3
      <4>2. settings_lock' \in SettingsLock
        BY <3>1, <3>3
      <4> QED
        BY <3>2, <4>1, <4>2
  <2>8. settings_lock["contract"] = w /\ settings_lock["gate"] = w /\ w # "seasonal"
    BY <1>1, <1>3, SettingsAssumption DEF SettingsWriterIs
  <2>9. \A v \in settings_Writers : v # w => settings_writer[v].at # "read"
    BY <2>8 DEF SettingsIInv, SettingsWriterIs
  <2>10. settings_cycle.at # "contract"
    BY <2>8 DEF SettingsIInv, SettingsCycleIs
  <2>11. SettingsReadsAreCurrent'
    BY <2>4, <2>5, <2>6, <2>9, <2>10 DEF SettingsReadsAreCurrent
  <2>12. (\A v \in settings_Writers : SettingsWriterIs(v, settings_writer[v], settings_lock))'
    BY <2>5, <2>6, <2>7 DEF SettingsIInv, SettingsWriterIs
  <2>13. SettingsCycleIs(settings_cycle, settings_lock, settings_shared)'
    BY <2>4, <2>7, <2>8 DEF SettingsIInv, SettingsCycleIs
  <2>14. settings_writes' \in Nat
    BY <1>1, <2>0
  <2>15. Settings!TypeOK'
    BY <1>1, <2>0, <2>1, <2>2, <2>4, <2>6, <2>7, <2>14 DEF Settings!TypeOK, SettingsLock
  <2>16. Settings!StartsWithoutDebt
    BY <2>0, <2>1 DEF Settings!StartsWithoutDebt
  <2> QED
    BY <2>3, <2>11, <2>12, <2>13, <2>15, <2>16 DEF SettingsIInv
<1> QED
  BY <1>6, <1>7

\* What a decision makes of the settings that it was taken on.
LEMMA SettingsDecisionCoheres ==
  ASSUME NEW s \in Settings!Stored, NEW u, NEW next, u = Settings!Decision(s),
         next = Settings!Over(u, s),
         s.since => s.enabled /\ ~s.deferred, s.deferred => s.enabled
  PROVE  /\ next \in Settings!Stored
         /\ next.on = s.on /\ next.off = s.off /\ next.provider = s.provider
         /\ next.since => next.enabled /\ ~next.deferred
         /\ next.deferred => next.enabled
         /\ ~s.since /\ next.since => ~settings_owed
         /\ "since" \in DOMAIN u /\ u["since"] => s.enabled
<1>1. \/ u = <<>>
      \/ u = [deferred |-> TRUE] /\ s.enabled /\ ~s.since
      \/ u = [since |-> TRUE, deferred |-> FALSE] /\ s.enabled /\ ~settings_owed
      \/ u = [deferred |-> FALSE]
  BY DEF Settings!Decision
<1>2. CASE u = <<>>
  <2>1. DOMAIN u = {}
    BY <1>2
  <2>2. next \in Settings!Stored
    BY <2>1, SettingsOverIsStored
  <2>3. next.on = s.on /\ next.off = s.off /\ next.provider = s.provider
          /\ next.since = s.since /\ next.enabled = s.enabled /\ next.deferred = s.deferred
    BY <2>1, SettingsOverIs
  <2> QED
    BY <2>1, <2>2, <2>3
<1>3. CASE u = [deferred |-> TRUE] /\ s.enabled /\ ~s.since
  <2>1. next \in Settings!Stored
    BY <1>3, SettingsOverIsStored
  <2>2. next.on = s.on /\ next.off = s.off /\ next.provider = s.provider
          /\ next.since = s.since /\ next.enabled = s.enabled /\ next.deferred = TRUE
    BY <1>3, SettingsOverIs
  <2>3. s.since = FALSE /\ s.enabled = TRUE
    BY <1>3 DEF Settings!Stored
  <2>4. next.since = FALSE /\ next.enabled = TRUE
    BY <2>2, <2>3
  <2> QED
    BY <1>3, <2>1, <2>2, <2>3, <2>4
<1>4. CASE u = [since |-> TRUE, deferred |-> FALSE] /\ s.enabled /\ ~settings_owed
  <2>0. DOMAIN u = {"since", "deferred"} /\ u["since"] = TRUE /\ u["deferred"] = FALSE
    BY <1>4
  <2>1. next \in Settings!Stored
    BY <2>0, SettingsOverIsStored
  <2>2. next.on = s.on /\ next.off = s.off /\ next.provider = s.provider
          /\ next.since = TRUE /\ next.enabled = s.enabled /\ next.deferred = FALSE
    BY <2>0, SettingsOverIs
  <2> QED
    BY <1>4, <2>1, <2>2
<1>5. CASE u = [deferred |-> FALSE]
  <2>1. next \in Settings!Stored
    BY <1>5, SettingsOverIsStored
  <2>2. next.on = s.on /\ next.off = s.off /\ next.provider = s.provider
          /\ next.since = s.since /\ next.enabled = s.enabled /\ next.deferred = FALSE
    BY <1>5, SettingsOverIs
  <2> QED
    BY <1>5, <2>1, <2>2
<1> QED
  BY <1>1, <1>2, <1>3, <1>4, <1>5

\* The campaign is written under both locks, on what was decided.
LEMMA SettingsCampaignsAreKept ==
  ASSUME SettingsIInv, Settings!CycleWrites
  PROVE  SettingsIInv' /\ Settings!StartsWithoutDebt
<1>1. /\ Settings!TypeOK /\ settings_stored \in Settings!Stored
           /\ settings_cycle \in Settings!Cycling /\ settings_lock \in SettingsLock
           /\ settings_writes \in Nat
      /\ Settings!SettingsCohere /\ settings_cycle.at = "contract"
           /\ settings_cycle.updates = Settings!Decision(settings_stored)
      /\ settings_lock["contract"] = settings_Free
  BY DEF SettingsIInv, Settings!TypeOK, SettingsLock, Settings!CycleWrites,
     SettingsReadsAreCurrent
<1>2. PICK u, next : u = Settings!Decision(settings_stored)
        /\ next = Settings!Over(u, settings_stored)
  OBVIOUS
<1>3. /\ next \in Settings!Stored
      /\ next.on = settings_stored.on /\ next.off = settings_stored.off
           /\ next.provider = settings_stored.provider
      /\ next.since => next.enabled /\ ~next.deferred
      /\ next.deferred => next.enabled
      /\ ~settings_stored.since /\ next.since => ~settings_owed
      /\ "since" \in DOMAIN u /\ u["since"] => settings_stored.enabled
  BY <1>1, <1>2, SettingsDecisionCoheres DEF Settings!SettingsCohere
<1>4. settings_stored' = next
  BY <1>1, <1>2, <1>3 DEF Settings!CycleWrites
<1>5. PICK x \in Settings!Cycling : x = [settings_cycle EXCEPT !.at = "idle", !.updates = <<>>]
  BY <1>1 DEF Settings!Cycling, Settings!Changes
<1>6. x.at = "idle"
  BY <1>1, <1>5 DEF Settings!Cycling
<1>7. PICK lk \in SettingsLock : lk = Settings!Released("seasonal")
  BY <1>1, SettingsReleasedIs
<1>8. \A l \in {"contract", "gate"} :
        /\ lk[l] # "seasonal"
        /\ \A v \in settings_Writers \cup {"seasonal"} : v # "seasonal"
             => (lk[l] = v <=> settings_lock[l] = v)
  BY <1>1, <1>7, SettingsReleasedIs
<1>9. /\ settings_lock' = lk /\ settings_cycle' = x /\ settings_shared' = FALSE
           /\ settings_writes' = settings_writes + 1
      /\ UNCHANGED <<settings_generation, settings_weather, settings_owed, settings_acting,
                     settings_writer>>
  BY <1>5, <1>7 DEF Settings!CycleWrites, Settings!actionVars
<1>10. \A l \in {"contract", "gate"},
       v \in settings_Writers : lk[l] = v <=> settings_lock[l] = v
  BY <1>8, SettingsAssumption
<1>11. (\A v \in settings_Writers : SettingsWriterIs(v, settings_writer[v], settings_lock))'
  BY <1>9, <1>10 DEF SettingsIInv, SettingsWriterIs
<1>12. SettingsCycleIs(settings_cycle, settings_lock, settings_shared)'
  BY <1>6, <1>8, <1>9 DEF SettingsCycleIs
<1>13. SettingsReadsAreCurrent'
  <2>1. \A v \in settings_Writers : settings_writer[v].at # "read"
    BY <1>1, SettingsAssumption DEF SettingsIInv, SettingsWriterIs
  <2> QED
    BY <1>6, <1>9, <2>1 DEF SettingsReadsAreCurrent
<1>14. Settings!SettingsCohere'
  BY <1>1, <1>3, <1>4, <1>9 DEF Settings!SettingsCohere, Settings!Coherent
<1>15. settings_writes' \in Nat
  BY <1>1, <1>9
<1>16. Settings!TypeOK'
  BY <1>1, <1>3, <1>4, <1>9, <1>15 DEF Settings!TypeOK, SettingsLock
<1>17. Settings!StartsWithoutDebt
  BY <1>3, <1>4 DEF Settings!StartsWithoutDebt
<1> QED
  BY <1>11, <1>12, <1>13, <1>14, <1>16, <1>17 DEF SettingsIInv

\* The executor acts only while the campaign does not share its table.
LEMMA SettingsActionsAreKept ==
  ASSUME SettingsIInv, Settings!Act \/ Settings!Acted
  PROVE  SettingsIInv'
<1>1. UNCHANGED <<settings_stored, settings_generation, settings_weather, settings_writes,
                  settings_lock, settings_shared, settings_writer, settings_cycle>>
  BY DEF Settings!Act, Settings!Acted, Settings!dataVars
<1>2. settings_acting' \in BOOLEAN /\ settings_owed' \in BOOLEAN
  BY DEF SettingsIInv, Settings!TypeOK, Settings!Act, Settings!Acted
<1>3. settings_shared => ~settings_acting' /\ settings_owed' = settings_owed
  BY DEF SettingsIInv, SettingsCycleIs, Settings!Act, Settings!Acted
<1>4. settings_cycle.at = "contract"
        => Settings!Decision(settings_stored)' = Settings!Decision(settings_stored)
  <2>1. settings_cycle.at = "contract" => settings_shared
    BY DEF SettingsIInv, SettingsCycleIs
  <2> QED
    BY <1>1, <1>3, <2>1 DEF Settings!Decision
<1>5. SettingsReadsAreCurrent'
  BY <1>1, <1>4 DEF SettingsIInv, SettingsReadsAreCurrent
<1>6. (\A v \in settings_Writers : SettingsWriterIs(v, settings_writer[v], settings_lock))'
  BY <1>1 DEF SettingsIInv, SettingsWriterIs
<1>7. SettingsCycleIs(settings_cycle, settings_lock, settings_shared)'
  BY <1>1, <1>3 DEF SettingsIInv, SettingsCycleIs
<1>8. Settings!SettingsCohere' /\ Settings!TypeOK'
  BY <1>1, <1>2 DEF SettingsIInv, Settings!SettingsCohere, Settings!Coherent,
     Settings!TypeOK
<1> QED
  BY <1>5, <1>6, <1>7, <1>8 DEF SettingsIInv

\* No step disturbs the settings or starts a campaign over a debt.
LEMMA SettingsStepIsKept == SettingsIInv /\ [Settings!Next]_settingsVars
                              => SettingsIInv' /\ Settings!StartsWithoutDebt
<1> SUFFICES ASSUME SettingsIInv, [Settings!Next]_settingsVars
             PROVE  SettingsIInv' /\ Settings!StartsWithoutDebt
  OBVIOUS
<1>1. UNCHANGED settingsVars => SettingsIInv' /\ Settings!StartsWithoutDebt
  <2> SUFFICES ASSUME UNCHANGED settingsVars PROVE SettingsIInv' /\ Settings!StartsWithoutDebt
    OBVIOUS
  <2>1. UNCHANGED <<settings_stored, settings_generation, settings_weather, settings_owed,
                    settings_acting, settings_lock, settings_shared, settings_writer,
                    settings_cycle, settings_writes>>
    BY DEF settingsVars
  <2> QED
    BY <2>1 DEF SettingsIInv, Settings!TypeOK, SettingsWriterIs, SettingsCycleIs,
       SettingsReadsAreCurrent, Settings!Decision, Settings!SettingsCohere,
                Settings!Coherent, Settings!StartsWithoutDebt
<1>2. ASSUME UNCHANGED Settings!dataVars PROVE Settings!StartsWithoutDebt
  BY <1>2 DEF Settings!dataVars, Settings!StartsWithoutDebt
<1>3. ASSUME NEW w \in settings_Writers,
             Settings!Request(w) \/ Settings!LockContract(w) \/ Settings!LockGate(w)
               \/ Settings!ReadValues(w) \/ Settings!Abandon(w)
      PROVE  SettingsIInv' /\ Settings!StartsWithoutDebt
  <2>1. UNCHANGED Settings!dataVars
    BY <1>3 DEF Settings!Request, Settings!LockContract, Settings!LockGate,
       Settings!ReadValues, Settings!Abandon
  <2> QED
    BY <1>2, <1>3, <2>1, SettingsWritersAreKept
<1>4. ASSUME Settings!Cycle \/ Settings!CycleLocks \/ Settings!CycleShares
               \/ Settings!CycleFails
      PROVE  SettingsIInv' /\ Settings!StartsWithoutDebt
  <2>1. UNCHANGED Settings!dataVars
    BY <1>4 DEF Settings!Cycle, Settings!CycleLocks, Settings!CycleShares,
       Settings!CycleFails
  <2> QED
    BY <1>2, <1>4, <2>1, SettingsCyclesAreKept
<1>5. ASSUME Settings!CycleDecides PROVE SettingsIInv' /\ Settings!StartsWithoutDebt
  BY <1>2, <1>5, SettingsDecisionsAreKept DEF Settings!CycleDecides
<1>6. ASSUME Settings!Act \/ Settings!Acted PROVE SettingsIInv' /\ Settings!StartsWithoutDebt
  BY <1>2, <1>6, SettingsActionsAreKept DEF Settings!Act, Settings!Acted
<1> QED
  BY <1>1, <1>3, <1>4, <1>5, <1>6, SettingsWritesAreKept, SettingsCampaignsAreKept DEF
     Settings!Next

\* The first half of it.
LEMMA SettingsInvariantKept == SettingsIInv /\ [Settings!Next]_settingsVars => SettingsIInv'
BY SettingsStepIsKept


\* The invariant of this service, whenever it is the one that acts.
LEMMA SettingsInvariant == AccountSpec => [](account = "settings" => SettingsIInv)
<1>1. AccountInit => (account = "settings" => SettingsIInv)
  BY SettingsInvariantInitially DEF AccountInit
<1>2. (account = "settings" => SettingsIInv) /\ [AccountNext]_accountVars
        => (account = "settings" => SettingsIInv)'
  BY SettingsInvariantKept DEF AccountNext, accountVars
<1> QED
  BY <1>1, <1>2, PTL DEF AccountSpec

-----------------------------------------------------------------------------
(***************************************************************************)
(* The operator reset (OperatorReset).                                     *)
(***************************************************************************)

RetirementRow(m) == [action |-> "retire", man |-> m]
ResetRow(m) == [action |-> "reset", man |-> m]

\* The obligation goes one way, with one manifest.
ResetPending == reset_target.state = "pending" /\ reset_audit = {} /\ reset_history = "old"
ResetRetired(m) == /\ reset_target.state = "retired" /\ reset_target.print = m.print
                   /\ reset_audit = {RetirementRow(m)} /\ reset_history = "old"
ResetGone(m) == /\ reset_target.state = "gone" /\ reset_audit = {RetirementRow(m), ResetRow(m)}
                /\ reset_history # "old"
ResetOneWay == ResetPending \/ \E m \in Reset!Manifests : ResetRetired(m) \/ ResetGone(m)

\* A receipt on disk, whosever it is.
ResetReceiptsHold ==
  \A o \in reset_Operations :
    /\ reset_file[o]["retired"] \in Reset!Manifests
         => Reset!Recorded("retire", reset_file[o]["retired"])
    /\ reset_file[o]["reset"] \in Reset!Manifests
         => Reset!Recorded("reset", reset_file[o]["reset"])

\* What a run has seen committed before it goes on.
ResetSound(r) ==
  /\ reset_run[r].at \in {"prove", "wipe"} => Reset!Recorded("retire", reset_run[r].man)
  /\ reset_run[r].at = "wipe" => reset_file[reset_run[r].man.op]["retired"] = reset_run[r].man
  /\ reset_run[r].at = "finish" => Reset!Recorded("reset", reset_run[r].man)

ResetIInv == Reset!TypeOK /\ ResetOneWay /\ ResetReceiptsHold
  /\ \A r \in reset_Runs : ResetSound(r)

\* The first state.
LEMMA ResetInvariantInitially == Reset!Init => ResetIInv
<1> SUFFICES ASSUME Reset!Init PROVE ResetIInv
  OBVIOUS
<1>1. Reset!Resting \in Reset!RunStates /\ Reset!Resting.at = "rest"
  BY DEF Reset!Resting, Reset!RunStates
<1>2. Reset!TypeOK
  <2>1. reset_target \in [state : {"pending", "retired", "gone"}, print : 0..reset_MaxDrift]
    BY ResetAssumption DEF Reset!Init
  <2>2. reset_run \in [reset_Runs -> Reset!RunStates]
          /\ \A r \in reset_Runs : Reset!At(r, "rest")
    BY <1>1 DEF Reset!Init, Reset!At
  <2>3. reset_file \in [reset_Operations -> [Reset!Stages -> Reset!Manifests
                                             \cup {reset_Nothing, reset_Torn}]]
    BY DEF Reset!Init
  <2>4. reset_epoch \in Nat /\ reset_troubles \in 0..reset_MaxFaults
    BY ResetAssumption DEF Reset!Init
  <2> QED
    BY <2>1, <2>2, <2>3, <2>4 DEF Reset!Init, Reset!TypeOK
<1>3. ResetOneWay
  BY DEF Reset!Init, ResetOneWay, ResetPending
<1>4. ResetReceiptsHold
  BY ResetAssumption DEF Reset!Init, ResetReceiptsHold, Reset!Stages
<1>5. \A r \in reset_Runs : ResetSound(r)
  BY <1>1 DEF Reset!Init, ResetSound
<1> QED
  BY <1>2, <1>3, <1>4, <1>5 DEF ResetIInv

\* A run that takes a step.
LEMMA ResetGoesIs ==
  ASSUME Reset!TypeOK, NEW r \in reset_Runs,
         NEW at \in {"settle", "read", "prove", "wipe", "check", "finish"}, Reset!Goes(r, at)
  PROVE  /\ reset_run' \in [reset_Runs -> Reset!RunStates]
         /\ reset_run'[r].at = at /\ reset_run'[r].man = reset_run[r].man
         /\ \A q \in reset_Runs \ {r} : reset_run'[q] = reset_run[q]
<1> DEFINE new == [reset_run[r] EXCEPT !.at = at]
<1>1. reset_run \in [reset_Runs -> Reset!RunStates] /\ reset_run[r] \in Reset!RunStates
  BY DEF Reset!TypeOK
<1>2. new \in Reset!RunStates /\ new.at = at /\ new.man = reset_run[r].man
  BY <1>1 DEF Reset!RunStates
<1>3. reset_run' = [reset_run EXCEPT ![r] = new]
  BY <1>1 DEF Reset!Goes
<1> HIDE DEF new
<1> QED
  BY <1>1, <1>2, <1>3

\* A run that ends.
LEMMA ResetRefusesIs ==
  ASSUME Reset!TypeOK, NEW r \in reset_Runs, Reset!Refuses(r)
  PROVE  /\ reset_run' \in [reset_Runs -> Reset!RunStates]
         /\ reset_run'[r].at = "rest"
         /\ \A q \in reset_Runs \ {r} : reset_run'[q] = reset_run[q]
<1>1. Reset!Resting \in Reset!RunStates /\ Reset!Resting.at = "rest"
  BY DEF Reset!Resting, Reset!RunStates
<1> QED
  BY <1>1 DEF Reset!TypeOK, Reset!Refuses

\* What one run does leaves the others sound, if nothing that is committed or
\* on disk is taken back.
LEMMA ResetRunStep ==
  ASSUME ResetIInv, NEW r \in reset_Runs,
         /\ reset_target' \in [state : {"pending", "retired", "gone"},
                               print : 0..reset_MaxDrift]
         /\ reset_epoch' \in Nat
         /\ reset_history' \in {"old", "fresh", "none"}
         /\ reset_audit' \subseteq [action : {"retire", "reset"}, man : Reset!Manifests]
         /\ reset_file' \in [reset_Operations -> [Reset!Stages -> Reset!Manifests
                                                  \cup {reset_Nothing, reset_Torn}]]
         /\ reset_run' \in [reset_Runs -> Reset!RunStates]
         /\ reset_troubles' \in 0..reset_MaxFaults
         /\ reset_manifests' = reset_manifests /\ reset_working' = reset_working,
         reset_run'[r].at # "rest" => reset_run'[r].man \in reset_manifests,
         \A q \in reset_Runs \ {r} : reset_run'[q] = reset_run[q],
         \A m \in Reset!Manifests : /\ Reset!Recorded("retire", m)
                                         => Reset!Recorded("retire", m)'
                                    /\ Reset!Recorded("reset", m)
                                         => Reset!Recorded("reset", m)',
         \A o \in reset_Operations, s \in Reset!Stages : reset_file[o][s] \in Reset!Manifests
           => reset_file'[o][s] = reset_file[o][s],
         ResetOneWay', ResetReceiptsHold', ResetSound(r)'
  PROVE  ResetIInv'
<1>1. Reset!TypeOK'
  BY DEF ResetIInv, Reset!TypeOK, Reset!At
<1>2. ASSUME NEW q \in reset_Runs, q # r
      PROVE  ResetSound(q)'
  <2>1. reset_run'[q] = reset_run[q] /\ reset_run[q] \in Reset!RunStates /\ ResetSound(q)
    BY <1>2 DEF ResetIInv, Reset!TypeOK
  <2>2. reset_run[q].at # "rest" => reset_run[q].man \in Reset!Manifests
    BY DEF ResetIInv, Reset!TypeOK, Reset!At
  <2>3. reset_run[q].at = "wipe" =>
          /\ reset_run[q].man \in Reset!Manifests /\ reset_run[q].man.op \in reset_Operations
          /\ reset_file'[reset_run[q].man.op]["retired"] = reset_run[q].man
    BY <2>1, <2>2 DEF ResetSound, Reset!Manifests, Reset!Stages
  <2> QED
    BY <2>1, <2>2, <2>3 DEF ResetSound
<1> QED
  BY <1>1, <1>2 DEF ResetIInv

\* A receipt is created once, by a run that goes on only if it is its own.
LEMMA ResetPersistsIs ==
  ASSUME Reset!TypeOK, NEW r \in reset_Runs, reset_run[r].man \in Reset!Manifests,
         NEW stage \in Reset!Stages, NEW next \in {"settle", "wipe", "rest"},
         Reset!Persists(r, stage, next)
  PROVE  /\ reset_file' \in [reset_Operations -> [Reset!Stages -> Reset!Manifests
                                                  \cup {reset_Nothing, reset_Torn}]]
         /\ reset_troubles' \in 0..reset_MaxFaults
         /\ \A o \in reset_Operations, s \in Reset!Stages :
              reset_file[o][s] \in Reset!Manifests => reset_file'[o][s] = reset_file[o][s]
         /\ \A o \in reset_Operations, s \in Reset!Stages :
              reset_file'[o][s] \in Reset!Manifests =>
                reset_file'[o][s] = reset_file[o][s]
                  \/ (s = stage /\ reset_file'[o][s] = reset_run[r].man)
         /\ reset_run' \in [reset_Runs -> Reset!RunStates]
         /\ \A q \in reset_Runs \ {r} : reset_run'[q] = reset_run[q]
         /\ reset_run'[r].at # "rest" =>
              /\ reset_run'[r].at = next /\ reset_run'[r].man = reset_run[r].man
              /\ reset_file'[reset_run[r].man.op][stage] = reset_run[r].man
<1> DEFINE m == reset_run[r].man
<1>1. m.op \in reset_Operations
        /\ reset_file \in [reset_Operations -> [Reset!Stages -> Reset!Manifests
                                                \cup {reset_Nothing, reset_Torn}]]
      /\ m \in Reset!Manifests /\ reset_Nothing \notin Reset!Manifests
           /\ reset_Torn \notin Reset!Manifests
      /\ reset_troubles \in 0..reset_MaxFaults /\ reset_MaxFaults \in Nat
  BY ResetAssumption DEF Reset!TypeOK, Reset!Manifests
<1>2. CASE reset_file[m.op][stage] \in {reset_Nothing, m}
             /\ reset_file' = [reset_file EXCEPT ![m.op][stage] = m]
           /\ (IF next = "rest" THEN Reset!Refuses(r) ELSE Reset!Goes(r, next))
                /\ UNCHANGED reset_troubles
  <2> HIDE DEF m
  <2>1. /\ reset_file' \in [reset_Operations -> [Reset!Stages -> Reset!Manifests
                                                 \cup {reset_Nothing, reset_Torn}]]
        /\ reset_file'[m.op][stage] = m
        /\ \A o \in reset_Operations, s \in Reset!Stages :
             (o = m.op /\ s = stage) \/ reset_file'[o][s] = reset_file[o][s]
    BY <1>1, <1>2
  <2>2. /\ reset_run' \in [reset_Runs -> Reset!RunStates]
        /\ \A q \in reset_Runs \ {r} : reset_run'[q] = reset_run[q]
        /\ reset_run'[r].at # "rest"
             => reset_run'[r].at = next /\ reset_run'[r].man = reset_run[r].man
    BY <1>2, ResetGoesIs, ResetRefusesIs
  <2> QED
    BY <1>1, <1>2, <2>1, <2>2 DEF m
<1>3. CASE Reset!Refuses(r) /\ UNCHANGED <<reset_file, reset_troubles>>
  BY <1>1, <1>3, ResetRefusesIs
<1>4. CASE reset_file[m.op][stage] = reset_Nothing /\ reset_troubles < reset_MaxFaults
             /\ reset_troubles' = reset_troubles + 1
           /\ reset_file' = [reset_file EXCEPT ![m.op][stage] = reset_Torn] /\ Reset!Refuses(r)
  <2> HIDE DEF m
  <2>1. /\ reset_file' \in [reset_Operations -> [Reset!Stages -> Reset!Manifests
                                                 \cup {reset_Nothing, reset_Torn}]]
        /\ reset_file'[m.op][stage] = reset_Torn
        /\ \A o \in reset_Operations, s \in Reset!Stages :
             (o = m.op /\ s = stage) \/ reset_file'[o][s] = reset_file[o][s]
    BY <1>1, <1>4
  <2>2. reset_troubles' \in 0..reset_MaxFaults
    BY <1>1, <1>4
  <2> QED
    BY <1>1, <1>4, <2>1, <2>2, ResetRefusesIs
<1> QED
  BY <1>2, <1>3, <1>4 DEF Reset!Persists

\* The guards of a run that is not at rest.
LEMMA ResetRunIs ==
  ASSUME ResetIInv, NEW r \in reset_Runs, ~Reset!At(r, "rest")
  PROVE  /\ Reset!TypeOK /\ reset_run[r] \in Reset!RunStates
         /\ reset_run[r].man \in reset_manifests /\ reset_run[r].man \in Reset!Manifests
  BY DEF ResetIInv, Reset!TypeOK

\* A receipt is written, and nothing else happens.
LEMMA ResetPersistStep ==
  ASSUME ResetIInv, NEW r \in reset_Runs, ~Reset!At(r, "rest"),
         NEW stage \in Reset!Stages, NEW next \in {"settle", "wipe", "rest"},
         Reset!Persists(r, stage, next),
         UNCHANGED <<reset_target, reset_epoch, reset_history, reset_audit, reset_manifests,
                     reset_working>>,
         stage = "retired" \/ next = "wipe" =>
           stage = "retired" /\ next = "wipe" /\ Reset!Recorded("retire", reset_run[r].man),
         stage = "reset" => Reset!Recorded("reset", reset_run[r].man)
  PROVE  ResetIInv'
<1>1. /\ Reset!TypeOK /\ reset_run[r].man \in Reset!Manifests
           /\ reset_run[r].man \in reset_manifests
  BY ResetRunIs
<1>2. /\ reset_file' \in [reset_Operations -> [Reset!Stages -> Reset!Manifests
                                               \cup {reset_Nothing, reset_Torn}]]
      /\ reset_troubles' \in 0..reset_MaxFaults
      /\ \A o \in reset_Operations, s \in Reset!Stages :
           reset_file[o][s] \in Reset!Manifests => reset_file'[o][s] = reset_file[o][s]
      /\ \A o \in reset_Operations, s \in Reset!Stages :
           reset_file'[o][s] \in Reset!Manifests =>
             reset_file'[o][s] = reset_file[o][s]
               \/ (s = stage /\ reset_file'[o][s] = reset_run[r].man)
      /\ reset_run' \in [reset_Runs -> Reset!RunStates]
      /\ \A q \in reset_Runs \ {r} : reset_run'[q] = reset_run[q]
      /\ reset_run'[r].at # "rest" =>
           /\ reset_run'[r].at = next /\ reset_run'[r].man = reset_run[r].man
           /\ reset_file'[reset_run[r].man.op][stage] = reset_run[r].man
  BY <1>1, ResetPersistsIs
<1>3. \A m \in Reset!Manifests : /\ Reset!Recorded("retire", m) <=> Reset!Recorded("retire", m)'
                                 /\ Reset!Recorded("reset", m) <=> Reset!Recorded("reset", m)'
  BY DEF Reset!Recorded
<1>4. ResetOneWay'
  BY DEF ResetIInv, ResetOneWay, ResetPending, ResetRetired, ResetGone
<1>5. ResetReceiptsHold'
  <2> SUFFICES ASSUME NEW o \in reset_Operations
               PROVE  /\ reset_file'[o]["retired"] \in Reset!Manifests
                           => Reset!Recorded("retire", reset_file'[o]["retired"])
                      /\ reset_file'[o]["reset"] \in Reset!Manifests
                           => Reset!Recorded("reset", reset_file'[o]["reset"])
    BY DEF ResetReceiptsHold, Reset!Recorded
  <2>1. /\ reset_file[o]["retired"] \in Reset!Manifests
             => Reset!Recorded("retire", reset_file[o]["retired"])
        /\ reset_file[o]["reset"] \in Reset!Manifests
             => Reset!Recorded("reset", reset_file[o]["reset"])
    BY DEF ResetIInv, ResetReceiptsHold
  <2> QED
    BY <1>2, <2>1 DEF Reset!Stages
<1>6. ResetSound(r)'
  BY <1>2, <1>3, <1>1 DEF ResetSound
<1> QED
  BY <1>1, <1>2, <1>3, <1>4, <1>5, <1>6, ResetRunStep DEF Reset!TypeOK

\* A run moves on without a trace.
LEMMA ResetQuietStep ==
  ASSUME ResetIInv, NEW r \in reset_Runs,
         UNCHANGED <<reset_target, reset_epoch, reset_history, reset_audit, reset_manifests,
                     reset_file, reset_working>>,
         reset_troubles' \in 0..reset_MaxFaults, reset_run' \in [reset_Runs -> Reset!RunStates],
         \A q \in reset_Runs \ {r} : reset_run'[q] = reset_run[q],
         reset_run'[r].at # "rest" => reset_run'[r].man \in reset_manifests,
         ResetSound(r)'
  PROVE  ResetIInv'
<1>1. ResetOneWay' /\ ResetReceiptsHold'
  BY DEF ResetIInv, ResetOneWay, ResetPending, ResetRetired, ResetGone,
     ResetReceiptsHold, Reset!Recorded
<1>2. \A m \in Reset!Manifests : /\ Reset!Recorded("retire", m) => Reset!Recorded("retire", m)'
                                 /\ Reset!Recorded("reset", m) => Reset!Recorded("reset", m)'
  BY DEF Reset!Recorded
<1> QED
  BY <1>1, <1>2, ResetRunStep DEF ResetIInv, Reset!TypeOK

\* Whoever ends leaves no claim.
LEMMA ResetEndStep ==
  ASSUME ResetIInv, NEW r \in reset_Runs, Reset!Refuses(r),
         reset_troubles' \in 0..reset_MaxFaults,
         UNCHANGED <<reset_target, reset_epoch, reset_history, reset_audit, reset_manifests,
                     reset_file, reset_working>>
  PROVE  ResetIInv'
<1>1. /\ reset_run' \in [reset_Runs -> Reset!RunStates] /\ reset_run'[r].at = "rest"
      /\ \A q \in reset_Runs \ {r} : reset_run'[q] = reset_run[q]
  BY ResetRefusesIs DEF ResetIInv
<1> QED
  BY <1>1, ResetQuietStep DEF ResetSound

\* A run begins with a manifest that was planned.
LEMMA ResetBeginStep ==
  ASSUME ResetIInv, NEW r \in reset_Runs, NEW m \in reset_manifests, Reset!Begin(r, m)
  PROVE  ResetIInv'
<1> DEFINE new == [at |-> "prepare", man |-> m, done |-> FALSE]
<1>1. new \in Reset!RunStates /\ new.at = "prepare" /\ new.man = m
  BY DEF ResetIInv, Reset!TypeOK, Reset!RunStates
<1>2. reset_run' = [reset_run EXCEPT ![r] = new]
        /\ reset_run \in [reset_Runs -> Reset!RunStates]
        /\ reset_troubles \in 0..reset_MaxFaults
  BY DEF Reset!Begin, ResetIInv, Reset!TypeOK
<1> HIDE DEF new
<1>3. /\ reset_run' \in [reset_Runs -> Reset!RunStates] /\ reset_run'[r].at = "prepare"
           /\ reset_run'[r].man = m
      /\ \A q \in reset_Runs \ {r} : reset_run'[q] = reset_run[q]
  BY <1>1, <1>2
<1> QED
  BY <1>2, <1>3, ResetQuietStep DEF Reset!Begin, ResetSound

\* The receipts.
LEMMA ResetReceiptStep ==
  ASSUME ResetIInv, NEW r \in reset_Runs,
         Reset!PersistPrepared(r) \/ Reset!PersistRetired(r) \/ Reset!PersistReset(r)
  PROVE  ResetIInv'
<1>1. CASE Reset!PersistPrepared(r)
  BY <1>1, ResetPersistStep DEF Reset!PersistPrepared, Reset!At, Reset!Stages
<1>2. CASE Reset!PersistRetired(r)
  <2>1. Reset!Recorded("retire", reset_run[r].man)
    BY <1>2 DEF Reset!PersistRetired, Reset!At, ResetIInv, ResetSound
  <2> QED
    BY <1>2, <2>1, ResetPersistStep DEF Reset!PersistRetired, Reset!At, Reset!Stages
<1>3. CASE Reset!PersistReset(r)
  <2>1. Reset!Recorded("reset", reset_run[r].man)
    BY <1>3 DEF Reset!PersistReset, Reset!At, ResetIInv, ResetSound
  <2> QED
    BY <1>3, <2>1, ResetPersistStep DEF Reset!PersistReset, Reset!At, Reset!Stages
<1> QED
  BY <1>1, <1>2, <1>3

\* What was committed is read back.
LEMMA ResetReadStep ==
  ASSUME ResetIInv, NEW r \in reset_Runs, Reset!ReadBack(r) \/ Reset!CheckWiped(r)
  PROVE  ResetIInv'
<1>1. /\ ~Reset!At(r, "rest") /\ reset_troubles' \in 0..reset_MaxFaults
      /\ UNCHANGED <<reset_target, reset_epoch, reset_history, reset_audit, reset_manifests,
                     reset_file, reset_working>>
  BY DEF Reset!ReadBack, Reset!CheckWiped, Reset!At, ResetIInv, Reset!TypeOK
<1>2. reset_run[r].man \in reset_manifests /\ Reset!TypeOK
  BY <1>1, ResetRunIs
<1>3. CASE Reset!Refuses(r)
  BY <1>1, <1>3, ResetEndStep
<1>4. ASSUME NEW at \in {"prove", "finish"}, Reset!Goes(r, at),
             at = "prove" => Reset!Recorded("retire", reset_run[r].man),
             at = "finish" => Reset!Recorded("reset", reset_run[r].man)
      PROVE  ResetIInv'
  <2>1. /\ reset_run' \in [reset_Runs -> Reset!RunStates] /\ reset_run'[r].at = at
             /\ reset_run'[r].man = reset_run[r].man
        /\ \A q \in reset_Runs \ {r} : reset_run'[q] = reset_run[q]
    BY <1>2, <1>4, ResetGoesIs
  <2>2. ResetSound(r)'
    BY <1>1, <1>4, <2>1 DEF ResetSound, Reset!Recorded
  <2> QED
    BY <1>1, <1>2, <2>1, <2>2, ResetQuietStep
<1> QED
  BY <1>3, <1>4 DEF Reset!ReadBack, Reset!CheckWiped

\* Only one manifest was ever retired.
LEMMA ResetOneManifest ==
  ASSUME ResetIInv, NEW m \in Reset!Manifests, Reset!Recorded("retire", m)
  PROVE  /\ reset_target.state # "pending"
         /\ reset_target.state = "retired" => ResetRetired(m)
         /\ reset_target.state = "gone" => ResetGone(m)
<1>1. \A k \in Reset!Manifests : RetirementRow(m) = RetirementRow(k) => m = k
  BY DEF RetirementRow
<1>2. \A k \in Reset!Manifests : RetirementRow(m) # ResetRow(k)
  BY DEF RetirementRow, ResetRow
<1>3. RetirementRow(m) \in reset_audit
  BY DEF Reset!Recorded, RetirementRow
<1>4. ~ResetPending
  BY <1>3 DEF ResetPending
<1>5. PICK k \in Reset!Manifests : ResetRetired(k) \/ ResetGone(k)
  BY <1>4 DEF ResetIInv, ResetOneWay
<1>6. k = m
  BY <1>1, <1>2, <1>3, <1>5 DEF ResetRetired, ResetGone
<1> QED
  BY <1>5, <1>6 DEF ResetRetired, ResetGone

\* The first transaction: a replay, or the retirement.
LEMMA ResetSettleStep ==
  ASSUME ResetIInv, NEW r \in reset_Runs, Reset!Settle(r)
  PROVE  ResetIInv'
<1> DEFINE m == reset_run[r].man
<1>1. /\ ~Reset!At(r, "rest")
      /\ UNCHANGED <<reset_epoch, reset_history, reset_manifests, reset_file, reset_working>>
  BY DEF Reset!Settle, Reset!At
<1>2. m \in reset_manifests /\ m \in Reset!Manifests /\ Reset!TypeOK
        /\ reset_run[r] \in Reset!RunStates
  BY <1>1, ResetRunIs
<1>3. ASSUME reset_run'[r].at = "read", reset_run'[r].man = m,
             reset_run' \in [reset_Runs -> Reset!RunStates],
             \A q \in reset_Runs \ {r} : reset_run'[q] = reset_run[q],
             UNCHANGED <<reset_target, reset_audit>>,
             reset_troubles' \in 0..reset_MaxFaults
      PROVE  ResetIInv'
  BY <1>1, <1>2, <1>3, ResetQuietStep DEF ResetSound
<1>4. CASE reset_run' = [reset_run EXCEPT ![r].at = "read", ![r].done = TRUE]
           /\ UNCHANGED <<reset_target, reset_audit, reset_troubles>>
  <2> DEFINE one == [reset_run[r] EXCEPT !.at = "read"]
             two == [one EXCEPT !.done = TRUE]
  <2>1. one \in Reset!RunStates /\ one.at = "read" /\ one.man = m
    BY <1>2 DEF Reset!RunStates
  <2>2. two \in Reset!RunStates /\ two.at = "read" /\ two.man = m
    <3> HIDE DEF one
    <3> QED
      BY <2>1 DEF Reset!RunStates
  <2>3. reset_run' = [reset_run EXCEPT ![r] = two]
          /\ reset_run \in [reset_Runs -> Reset!RunStates]
    BY <1>2, <1>4 DEF Reset!TypeOK
  <2> HIDE DEF two
  <2> QED
    BY <1>2, <1>3, <1>4, <2>2, <2>3 DEF Reset!TypeOK
<1>5. CASE Reset!Goes(r, "read")
  <2>1. /\ reset_run' \in [reset_Runs -> Reset!RunStates] /\ reset_run'[r].at = "read"
             /\ reset_run'[r].man = m
        /\ \A q \in reset_Runs \ {r} : reset_run'[q] = reset_run[q]
    BY <1>2, <1>5, ResetGoesIs
  <2>2. CASE UNCHANGED <<reset_target, reset_audit>> /\ reset_troubles' \in 0..reset_MaxFaults
    BY <2>1, <2>2, <1>3
  <2>3. CASE /\ reset_target = [state |-> "pending", print |-> m.print]
             /\ reset_target' = [reset_target EXCEPT !.state = "retired"]
             /\ reset_audit' = reset_audit \cup {RetirementRow(m)}
             /\ UNCHANGED reset_troubles
    <3>1. ResetPending
      BY <2>3 DEF ResetIInv, ResetOneWay, ResetRetired, ResetGone
    <3>2. /\ reset_target'.state = "retired" /\ reset_target'.print = m.print
          /\ reset_target' \in [state : {"pending", "retired", "gone"},
                                print : 0..reset_MaxDrift]
      BY <1>2, <2>3 DEF Reset!TypeOK
    <3>3. reset_audit' = {RetirementRow(m)} /\ reset_audit = {}
      BY <2>3, <3>1 DEF ResetPending
    <3>4. ResetOneWay'
      BY <1>1, <1>2, <3>1, <3>2, <3>3 DEF ResetOneWay, ResetRetired, ResetPending
    <3>5. \A k \in Reset!Manifests : ~Reset!Recorded("retire", k) /\ ~Reset!Recorded("reset", k)
      BY <3>3 DEF Reset!Recorded
    <3>6. ResetReceiptsHold'
      BY <1>1, <3>5 DEF ResetIInv, ResetReceiptsHold
    <3>7. ResetSound(r)'
      BY <2>1 DEF ResetSound
    <3>8. reset_audit' \subseteq [action : {"retire", "reset"}, man : Reset!Manifests]
      BY <1>2, <3>3 DEF RetirementRow
    <3> QED
      BY <1>1, <1>2, <2>1, <2>3, <3>2, <3>4, <3>5, <3>6, <3>7, <3>8, ResetRunStep DEF
         Reset!TypeOK
  <2>4. CASE reset_troubles < reset_MaxFaults /\ reset_troubles' = reset_troubles + 1
               /\ UNCHANGED <<reset_target, reset_audit>>
    <3>1. reset_troubles' \in 0..reset_MaxFaults
      BY <1>2, <2>4, ResetAssumption DEF Reset!TypeOK
    <3> QED
      BY <2>2, <2>4, <3>1
  <2>5. UNCHANGED reset_troubles => reset_troubles' \in 0..reset_MaxFaults
    BY <1>2 DEF Reset!TypeOK
  <2> QED
    BY <1>5, <2>2, <2>3, <2>4, <2>5 DEF Reset!Settle, RetirementRow
<1> QED
  BY <1>4, <1>5 DEF Reset!Settle

\* The second transaction: what it wipes was retired by the same manifest.
LEMMA ResetWipeIsProven ==
  ASSUME ResetIInv, NEW r \in reset_Runs, Reset!Wipe(r)
  PROVE  /\ Reset!Recorded("retire", reset_run[r].man) /\ ResetRetired(reset_run[r].man)
         /\ reset_file[reset_run[r].man.op]["retired"] = reset_run[r].man
         /\ reset_run[r].man \in reset_manifests /\ reset_run[r].man \in Reset!Manifests
<1>1. reset_run[r].man \in reset_manifests /\ reset_run[r].man \in Reset!Manifests
        /\ ~Reset!At(r, "rest")
  BY ResetRunIs DEF Reset!Wipe, Reset!At
<1>2. Reset!Recorded("retire", reset_run[r].man)
        /\ reset_file[reset_run[r].man.op]["retired"] = reset_run[r].man
  BY DEF Reset!Wipe, Reset!At, ResetIInv, ResetSound
<1> QED
  BY <1>1, <1>2, ResetOneManifest DEF Reset!Wipe

\* The wipe, or a commit that is lost.
LEMMA ResetWipeStep ==
  ASSUME ResetIInv, NEW r \in reset_Runs, Reset!Wipe(r)
  PROVE  ResetIInv'
<1> DEFINE m == reset_run[r].man
<1>1. /\ ResetRetired(m) /\ m \in reset_manifests /\ m \in Reset!Manifests /\ Reset!TypeOK
      /\ UNCHANGED <<reset_manifests, reset_file, reset_working>>
  BY ResetWipeIsProven DEF Reset!Wipe, ResetIInv
<1>2. /\ reset_run' \in [reset_Runs -> Reset!RunStates] /\ reset_run'[r].at = "check"
           /\ reset_run'[r].man = m
      /\ \A q \in reset_Runs \ {r} : reset_run'[q] = reset_run[q]
  BY <1>1, ResetGoesIs DEF Reset!Wipe
<1>3. ResetSound(r)'
  BY <1>2 DEF ResetSound
<1>4. CASE /\ reset_target' = [reset_target EXCEPT !.state = "gone"]
           /\ reset_history' = "none" /\ reset_epoch' = reset_epoch + 1
           /\ reset_audit' = {[action |-> a, man |-> m] : a \in {"retire", "reset"}}
           /\ UNCHANGED reset_troubles
  <2>1. /\ reset_target'.state = "gone"
        /\ reset_target' \in [state : {"pending", "retired", "gone"}, print : 0..reset_MaxDrift]
    BY <1>1, <1>4 DEF Reset!TypeOK
  <2>2. reset_audit' = {RetirementRow(m), ResetRow(m)} /\ reset_audit = {RetirementRow(m)}
    BY <1>1, <1>4 DEF ResetRetired, RetirementRow, ResetRow
  <2>3. ResetOneWay'
    BY <1>1, <1>4, <2>1, <2>2 DEF ResetOneWay, ResetGone
  <2>4. \A k \in Reset!Manifests : /\ Reset!Recorded("retire", k)
                                        => Reset!Recorded("retire", k)'
                                   /\ Reset!Recorded("reset", k) => Reset!Recorded("reset", k)'
    BY <2>2 DEF Reset!Recorded
  <2>5. ResetReceiptsHold'
    BY <1>1, <2>4 DEF ResetIInv, ResetReceiptsHold
  <2>6. reset_audit' \subseteq [action : {"retire", "reset"}, man : Reset!Manifests]
    BY <1>1, <2>2 DEF RetirementRow, ResetRow
  <2> QED
    BY <1>1, <1>2, <1>3, <1>4, <2>1, <2>3, <2>4, <2>5, <2>6, ResetRunStep DEF Reset!TypeOK
<1>5. CASE /\ reset_troubles < reset_MaxFaults /\ reset_troubles' = reset_troubles + 1
           /\ UNCHANGED <<reset_target, reset_history, reset_epoch, reset_audit>>
  <2>1. reset_troubles' \in 0..reset_MaxFaults
    BY <1>1, <1>5, ResetAssumption DEF Reset!TypeOK
  <2> QED
    BY <1>1, <1>2, <1>3, <1>5, <2>1, ResetQuietStep
<1> QED
  BY <1>4, <1>5 DEF Reset!Wipe

\* A manifest is planned.
LEMMA ResetPlanStep ==
  ASSUME ResetIInv, NEW o \in reset_Operations, Reset!Plan(o)
  PROVE  ResetIInv'
<1>1. /\ reset_manifests \subseteq reset_manifests'
           /\ reset_manifests' \subseteq Reset!Manifests
      /\ UNCHANGED <<reset_target, reset_epoch, reset_history, reset_audit, reset_file,
                     reset_run, reset_working, reset_troubles>>
  BY DEF Reset!Plan, ResetIInv, Reset!TypeOK, Reset!Manifests
<1>2. Reset!TypeOK'
  BY <1>1 DEF ResetIInv, Reset!TypeOK, Reset!At
<1>3. ResetOneWay' /\ ResetReceiptsHold' /\ \A r \in reset_Runs : ResetSound(r)'
  BY <1>1 DEF ResetIInv, ResetOneWay, ResetPending, ResetRetired, ResetGone,
     ResetReceiptsHold, Reset!Recorded, ResetSound
<1> QED
  BY <1>2, <1>3 DEF ResetIInv

\* The application works.
LEMMA ResetOutsideStep ==
  ASSUME ResetIInv, Reset!Outside
  PROVE  ResetIInv'
<1>1. /\ UNCHANGED <<reset_epoch, reset_audit, reset_manifests, reset_file, reset_run,
                     reset_troubles>>
      /\ reset_working' \in BOOLEAN
      /\ \/ UNCHANGED <<reset_target, reset_history>>
         \/ /\ reset_target.state = "pending" /\ reset_target.print < reset_MaxDrift
            /\ reset_target' = [reset_target EXCEPT !.print = @ + 1] /\ UNCHANGED reset_history
         \/ reset_history = "none" /\ reset_history' = "fresh" /\ UNCHANGED reset_target
  BY DEF Reset!Outside, Reset!Work, ResetIInv, Reset!TypeOK
<1>2. /\ reset_target' \in [state : {"pending", "retired", "gone"}, print : 0..reset_MaxDrift]
      /\ reset_target'.state = reset_target.state
      /\ reset_target' # reset_target => reset_target.state = "pending"
      /\ reset_history' \in {"old", "fresh", "none"}
      /\ reset_history' = reset_history \/ (reset_history = "none" /\ reset_history' = "fresh")
  BY <1>1, ResetAssumption DEF ResetIInv, Reset!TypeOK
<1>3. Reset!TypeOK'
  BY <1>1, <1>2 DEF ResetIInv, Reset!TypeOK, Reset!At
<1>4. ResetOneWay'
  BY <1>1, <1>2 DEF ResetIInv, ResetOneWay, ResetPending, ResetRetired, ResetGone
<1>5. ResetReceiptsHold' /\ \A r \in reset_Runs : ResetSound(r)'
  BY <1>1 DEF ResetIInv, ResetReceiptsHold, Reset!Recorded, ResetSound
<1> QED
  BY <1>3, <1>4, <1>5 DEF ResetIInv

\* A run ends where it is.
LEMMA ResetEndsStep ==
  ASSUME ResetIInv, NEW r \in reset_Runs, Reset!Ends(r)
  PROVE  ResetIInv'
  BY ResetEndStep DEF Reset!Ends, ResetIInv, Reset!TypeOK

\* Every step, and no step at all.
LEMMA ResetInvariantKept == ResetIInv /\ [Reset!Next]_resetVars => ResetIInv'
<1> SUFFICES ASSUME ResetIInv, [Reset!Next]_resetVars
             PROVE  ResetIInv'
  OBVIOUS
<1>1. CASE UNCHANGED resetVars
  BY <1>1 DEF resetVars, ResetIInv, Reset!TypeOK, Reset!At, ResetOneWay, ResetPending,
     ResetRetired, ResetGone, ResetReceiptsHold, Reset!Recorded,
     ResetSound
<1> QED
  BY <1>1, ResetPlanStep, ResetBeginStep, ResetReceiptStep, ResetSettleStep,
     ResetReadStep, ResetWipeStep, ResetEndsStep,
     ResetOutsideStep DEF Reset!Next


\* A wipe comes from the step that checks for what proves it.
LEMMA ResetWipesProven ==
  ASSUME ResetIInv, [Reset!Next]_resetVars, ~UNCHANGED resetVars
  PROVE  Reset!WipeOnlyProven
<1> SUFFICES ASSUME ResetIInv, Reset!Next, reset_history' = "none", reset_history # "none"
             PROVE  /\ reset_history = "old"
                    /\ \E m \in reset_manifests : /\ Reset!Recorded("retire", m)
                                                  /\ reset_file[m.op]["retired"] = m
                                                  /\ m.print = reset_target.print
  BY DEF Reset!WipeOnlyProven
<1>1. PICK r \in reset_Runs : Reset!Wipe(r)
  BY DEF Reset!Next, Reset!Plan, Reset!Begin, Reset!PersistPrepared, Reset!Settle,
     Reset!ReadBack, Reset!PersistRetired, Reset!CheckWiped,
     Reset!PersistReset, Reset!Ends, Reset!Outside, Reset!Work
<1> QED
  BY <1>1, ResetWipeIsProven DEF ResetRetired

\* The invariant of this service, whenever it is the one that acts.
LEMMA ResetInvariant == AccountSpec => [](account = "reset" => ResetIInv)
<1>1. AccountInit => (account = "reset" => ResetIInv)
  BY ResetInvariantInitially DEF AccountInit
<1>2. (account = "reset" => ResetIInv) /\ [AccountNext]_accountVars
        => (account = "reset" => ResetIInv)'
  BY ResetInvariantKept DEF AccountNext, accountVars
<1> QED
  BY <1>1, <1>2, PTL DEF AccountSpec

-----------------------------------------------------------------------------
(***************************************************************************)
(* The service that acts keeps the types of its state.                     *)
(***************************************************************************)
THEOREM AccountTypes ==
  AccountSpec => [](/\ account = "tokens" => Tokens!TypeOK
                    /\ account = "logins" => Logins!TypeOK
                    /\ account = "device" => Device!TypeOK
                    /\ account = "quota" => Quota!TypeOK
                    /\ account = "object" => Object!TypeOK
                    /\ account = "alerts" => Alerting!TypeOK
                    /\ account = "prices" => Pricing!TypeOK
                    /\ account = "settings" => Settings!TypeOK
                    /\ account = "reset" => Reset!TypeOK)
<1>1. (account = "tokens" => TokensIInv) => (account = "tokens" => Tokens!TypeOK)
  BY DEF TokensIInv
<1>2. (account = "quota" => QuotaIInv) => (account = "quota" => Quota!TypeOK)
  BY DEF QuotaIInv
<1>3. (account = "logins" => LoginsIInv) => (account = "logins" => Logins!TypeOK)
  BY DEF LoginsIInv
<1>4. (account = "device" => DeviceIInv) => (account = "device" => Device!TypeOK)
  BY DEF DeviceIInv
<1>5. (account = "object" => ObjectIInv) => (account = "object" => Object!TypeOK)
  BY DEF ObjectIInv
<1>6. (account = "alerts" => AlertingIInv) => (account = "alerts" => Alerting!TypeOK)
  BY DEF AlertingIInv
<1>7. (account = "prices" => PricingIInv) => (account = "prices" => Pricing!TypeOK)
  BY DEF PricingIInv
<1>8. (account = "settings" => SettingsIInv) => (account = "settings" => Settings!TypeOK)
  BY DEF SettingsIInv
<1>9. (account = "reset" => ResetIInv) => (account = "reset" => Reset!TypeOK)
  BY DEF ResetIInv
<1> QED
  BY <1>1, <1>2, <1>3, <1>4, <1>5, <1>6, <1>7, <1>8, <1>9, TokensInvariant, QuotaInvariant,
     LoginsInvariant, DeviceInvariant, ObjectInvariant, AlertingInvariant, PricingInvariant,
     SettingsInvariant, ResetInvariant, PTL

(***************************************************************************)
(* No task presents a refresh token that SmartThings has exchanged, except *)
(* one whose successor was lost with a crash: for any number of callers,   *)
(* grants and faults (smartthings_oauth.py).                               *)
(***************************************************************************)
THEOREM TokensAreUnspent == AccountSpec => []CredentialsAreUnspent
<1>1. (account = "tokens" => TokensIInv) => CredentialsAreUnspent
  BY DEF TokensIInv, CredentialsAreUnspent
<1> QED
  BY <1>1, TokensInvariant, PTL

(***************************************************************************)
(* Between two expiries of the shared breaker the account sees no more     *)
(* failed logins than the threshold and one for each other process, and    *)
(* those whose process died before it counted them (resilience.py).        *)
(***************************************************************************)
THEOREM FailedLoginsAreBounded ==
  AccountSpec => [](account = "logins" => Logins!LoginsAreBounded)
<1>1. (account = "logins" => LoginsIInv) => (account = "logins" => Logins!LoginsAreBounded)
  BY LoginsFailuresAreBounded
<1> QED
  BY <1>1, LoginsInvariant, PTL

(***************************************************************************)
(* In every stretch of time at most a full bucket and what refills in it   *)
(* is spent, whoever reserves, and whenever the key expires                *)
(* (DistributedReadQuota._SCRIPT).                                         *)
(***************************************************************************)
THEOREM StretchesAreBounded ==
  AccountSpec => [](account = "quota" => Quota!SpendingIsBounded)
<1>1. (account = "quota" => QuotaIInv) => (account = "quota" => Quota!SpendingIsBounded)
  BY DEF QuotaIInv
<1> QED
  BY <1>1, QuotaInvariant, PTL

(***************************************************************************)
(* The account of the pump is protected from the program: failed logins    *)
(* are bounded, every read of the cloud is paid for by the process that    *)
(* makes it and under the account it reads with, the bucket is not         *)
(* overspent in any stretch of time, and a device is only told what the    *)
(* owner chose or what a special status makes of it (resilience.py,        *)
(* aquarea_service.py, device.py of the library).                          *)
(***************************************************************************)
THEOREM AccountIsProtected == AccountSpec => []RemoteAccountIsProtected
<1>1. (account = "logins" => LoginsIInv) => (account = "logins" => Logins!LoginsAreBounded)
  BY LoginsFailuresAreBounded
<1>2. (account = "device" => DeviceIInv) => (account = "device" => Device!ReadsArePaid)
  BY DevicePaidReads
<1>3. (account = "quota" => QuotaIInv) => (account = "quota" => Quota!SpendingIsBounded)
  BY DEF QuotaIInv
<1>4. (account = "object" => ObjectIInv) => (account = "object" => Object!CommandsAreTheOwners)
  BY ObjectCommandsAreFit
<1>5. /\ account = "logins" => LoginsIInv
      /\ account = "device" => DeviceIInv
      /\ account = "quota" => QuotaIInv
      /\ account = "object" => ObjectIInv
      => RemoteAccountIsProtected
  BY <1>1, <1>2, <1>3, <1>4 DEF RemoteAccountIsProtected
<1> QED
  BY <1>5, LoginsInvariant, DeviceInvariant, QuotaInvariant, ObjectInvariant, PTL

(***************************************************************************)
(* An alert is withheld as sent only when the webhook has received that    *)
(* payload within the throttle, whatever answers and commits are lost, and *)
(* the outside monitor is pinged only while no alert names a service or    *)
(* the device as silent (operational_alerts.py, external_heartbeat.py).    *)
(***************************************************************************)
THEOREM SilencesAreTold == AccountSpec => SilenceIsTold
<1>1. (account = "alerts" => AlertingIInv)
        => (account = "alerts" => Alerting!WithheldWasReceived)
  BY AlertingWithheldIsReceived
<1>2. (account = "alerts" => AlertingIInv) /\ [AccountNext]_accountVars
        => [account = "alerts" => Alerting!PingOnlyInService]_accountVars
  <2> SUFFICES ASSUME account = "alerts", AlertingIInv, AccountNext
               PROVE  Alerting!PingOnlyInService \/ UNCHANGED accountVars
    OBVIOUS
  <2>1. Alerting!Next
    BY DEF AccountNext
  <2>2. Alerting!PingOnlyInService \/ UNCHANGED alertsVars
    BY <2>1, AlertingPingIsInService DEF AlertingIInv
  <2>3. UNCHANGED alertsVars => UNCHANGED accountVars
    BY DEF AccountNext, accountVars
  <2> QED
    BY <2>2, <2>3
<1> QED
  BY <1>1, <1>2, AlertingInvariant, PTL DEF AccountSpec, SilenceIsTold

(***************************************************************************)
(* The prices that readers resolve are of the bound home, even if homes    *)
(* share a digest, and only the owner replaces a bound home or releases a  *)
(* suspended binding, for any number of polls (price_scope.py,             *)
(* poller/feeds.py).                                                       *)
(***************************************************************************)
THEOREM BindingsAreTheOwners == AccountSpec => BindingIsTheOwners
<1>1. (account = "prices" => PricingIInv) => (account = "prices" => Pricing!PricesAreTheHomes)
  BY PricingPricesAreOfTheHome
<1>2. (account = "prices" => PricingIInv) /\ [AccountNext]_accountVars
        => [account = "prices" => Pricing!OnlyTheOwnerRebinds]_accountVars
  <2> SUFFICES ASSUME account = "prices", PricingIInv, AccountNext
               PROVE  Pricing!OnlyTheOwnerRebinds
    OBVIOUS
  <2>1. Pricing!Next
    BY DEF AccountNext
  <2> QED
    BY <2>1, PricingOwnerRebinds
<1> QED
  BY <1>1, <1>2, PricingInvariant, PTL DEF AccountSpec, BindingIsTheOwners

(***************************************************************************)
(* The settings that any number of requests and the seasonal transition    *)
(* write stay a valid combination, every change of the weather provider is *)
(* a generation of its own, and a campaign starts only when no linked      *)
(* restore is owed (settings_service.py, seasonal_learning.py).            *)
(***************************************************************************)
THEOREM SettingsAreCoherent == AccountSpec => CampaignsAreSafe
<1>1. (account = "settings" => SettingsIInv)
        => (account = "settings" => Settings!SettingsCohere)
  BY DEF SettingsIInv
<1>2. (account = "settings" => SettingsIInv) /\ [AccountNext]_accountVars
        => [account = "settings" => Settings!StartsWithoutDebt]_accountVars
  <2> SUFFICES ASSUME account = "settings", SettingsIInv, AccountNext
               PROVE  Settings!StartsWithoutDebt
    OBVIOUS
  <2>1. Settings!Next
    BY DEF AccountNext
  <2> QED
    BY <2>1, SettingsStepIsKept
<1> QED
  BY <1>1, <1>2, SettingsInvariant, PTL DEF AccountSpec, CampaignsAreSafe

(***************************************************************************)
(* A receipt says only what is committed, and history is wiped once, after *)
(* the same operation's retirement has been committed and its receipt is   *)
(* on disk, whatever runs crash, repeat or overlap (data_reset.py).        *)
(***************************************************************************)
THEOREM ResetsAreProven == AccountSpec => ResetIsProven
<1>1. (account = "reset" => ResetIInv) => (account = "reset" => Reset!ReceiptsAreTrue)
  BY DEF ResetIInv, Reset!TypeOK, ResetReceiptsHold, Reset!ReceiptsAreTrue, Reset!Manifests
<1>2. (account = "reset" => ResetIInv) /\ [AccountNext]_accountVars
        => [account = "reset" => Reset!WipeOnlyProven]_accountVars
  <2> SUFFICES ASSUME ResetIInv, Reset!Next
               PROVE  Reset!WipeOnlyProven
    BY DEF AccountNext
  <2>1. CASE UNCHANGED resetVars
    BY <2>1 DEF resetVars, Reset!WipeOnlyProven
  <2>2. CASE ~UNCHANGED resetVars
    BY <2>2, ResetWipesProven
  <2> QED
    BY <2>1, <2>2
<1> QED
  BY <1>1, <1>2, ResetInvariant, PTL DEF AccountSpec, ResetIsProven

=============================================================================
