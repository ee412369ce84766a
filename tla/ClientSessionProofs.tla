-------------------------- MODULE ClientSessionProofs --------------------------
(***************************************************************************)
(* Proofs about ClientSession, for any set of concurrent calls and any     *)
(* number of tokens.                                                       *)
(***************************************************************************)
EXTENDS ClientSession, FiniteSetTheorems, TLAPS

\* The generation counts logins, of which each has its own token: while one is
\* under way that has its token but not its account, a token is in reserve.
AtAccount == {"account", "accountLooking", "accountAgain"}

SessionInv ==
  /\ token \in Token /\ apiToken \in Token /\ issued \in Token
  /\ hasClientId \in BOOLEAN /\ validated \in BOOLEAN
  /\ generation \in Nat /\ generation <= issued
  /\ dead \in SUBSET (1..MaxTokens) /\ lapsed \in SUBSET (1..MaxTokens)
  /\ generation > 0 => hasClientId
  /\ apiToken # 0 => generation > 0
  /\ (\E t \in Task : call[t].at \in AtAccount) => generation < issued

\* A call that has not been sent yet, or is to be sent again.
Unsent == Authenticating \cup {"login", "refresh"}

\* One call, when the login generation is g: it is sent once more than it has
\* been recovered, and recovered only if it was not executed; what a refresh or
\* a request needs is a login that has completed.
Good(c, g) ==
  /\ c \in Call
  /\ c.intent <= g
  /\ c.at \in Unsent => c.sends <= c.recovery /\ c.executed = 0
  /\ c.at \in {"sent", "answered"} => c.sends <= c.recovery + 1
  /\ c.at = "sent" => c.executed = 0
  /\ (c.at = "answered" /\ c.answer = "expired") => c.executed = 0
  /\ c.at \in {"refresh", "refreshing", "sent", "answered"} => g > 0

CallsInv == call \in [Task -> Call] /\ \A t \in Task : Good(call[t], generation)

OneHolder == \A t, u \in lock : t = u

IInv == SessionInv /\ CallsInv /\ LockHeldByAuthenticator /\ OneHolder /\ AuthenticationsAreShared

-----------------------------------------------------------------------------
(***************************************************************************)
(* What the operators make of a call.                                      *)
(***************************************************************************)

\* A call that is over.
LEMMA IdleIsGood ==
  ASSUME NEW g \in Nat
  PROVE  Good(Idle, g) /\ Idle.at = "idle" /\ Idle.sends = 0 /\ Idle.recovery = 0
         /\ Idle.executed = 0 /\ Idle.intent = 0
  BY ClientSessionAssumption DEF Idle, Good, Call, State, Authenticating, Unsent, Token

\* Sending: from a login that has completed, or a call that ends.
LEMMA DepartedIsGood ==
  ASSUME NEW g \in Nat, NEW c \in Call, NEW tok \in Token, Good(c, g),
         c.sends <= c.recovery, c.executed = 0, tok # 0 /\ validated => g > 0
  PROVE  Good(Departed(c, tok), g) /\ Departed(c, tok).at \in {"sent", "idle"}
<1> DEFINE d == [c EXCEPT !.at = "sent", !.sent = tok, !.sends = @ + 1,
                          !.answer = "none", !.rotated = 0, !.got = 0]
<1>1. CASE ~(tok # 0 /\ validated)
  BY <1>1, IdleIsGood DEF Departed
<1>2. CASE tok # 0 /\ validated
  <2>0. c.sends + 1 \in 0..3 /\ c.sends \in Nat /\ c.recovery \in Nat
    BY DEF Call
  <2>1. d \in Call /\ d.at = "sent" /\ d.sends = c.sends + 1 /\ d.recovery = c.recovery
        /\ d.executed = 0 /\ d.intent = c.intent
    <3> DEFINE e == [c EXCEPT !.at = "sent", !.sent = tok]
               f == [e EXCEPT !.sends = @ + 1, !.answer = "none"]
    <3>1. e \in Call /\ e.at = "sent" /\ e.sends = c.sends /\ e.recovery = c.recovery
          /\ e.executed = c.executed /\ e.intent = c.intent
      BY DEF Call, State
    <3>2. f \in Call /\ f.at = "sent" /\ f.sends = c.sends + 1 /\ f.recovery = c.recovery
          /\ f.executed = c.executed /\ f.intent = c.intent
      <4> HIDE DEF e
      <4> QED
        BY <2>0, <3>1 DEF Call
    <3>3. LET h == [f EXCEPT !.rotated = 0, !.got = 0]
          IN  h \in Call /\ h.at = f.at /\ h.sends = f.sends /\ h.recovery = f.recovery
              /\ h.executed = f.executed /\ h.intent = f.intent
      <4> HIDE DEF f
      <4>1. 0 \in Token
        BY ClientSessionAssumption DEF Token
      <4>2. [f EXCEPT !.rotated = 0] \in Call
        BY <3>2, <4>1 DEF Call
      <4> QED
        BY <3>2, <4>1, <4>2 DEF Call
    <3> QED
      BY <3>2, <3>3
  <2>2. Good(d, g)
    BY <1>2, <2>0, <2>1 DEF Good, Unsent, Authenticating, Call
  <2> QED
    BY <1>2, <2>1, <2>2 DEF Departed
<1> QED
  BY <1>1, <1>2

\* Asking for the lock.
LEMMA AskingIsGood ==
  ASSUME NEW c \in Call, NEW for \in {"login", "refresh"}, NEW recovery \in 0..2,
         generation \in 0..MaxTokens, c.executed = 0, c.sends <= recovery,
         for = "refresh" => generation > 0
  PROVE  /\ Good([Asking(c, for) EXCEPT !.recovery = recovery], generation)
         /\ [Asking(c, for) EXCEPT !.recovery = recovery].at = for
<1> DEFINE d == [Asking(c, for) EXCEPT !.recovery = recovery]
<1>1. Asking(c, for) \in Call /\ Asking(c, for).at = for /\ Asking(c, for).intent = generation
      /\ Asking(c, for).executed = c.executed /\ Asking(c, for).sends = c.sends
  BY DEF Asking, Call, State
<1>2. d \in Call /\ d.at = for /\ d.intent = generation /\ d.executed = c.executed
      /\ d.sends = c.sends /\ d.recovery = recovery
  BY <1>1 DEF Call
<1> QED
  BY <1>2 DEF Good, Unsent, Authenticating

\* Recovering a call that was sent once more than it was recovered.
LEMMA RecoveringIsGood ==
  ASSUME NEW c \in Call, c.executed = 0, c.sends <= c.recovery + 1,
         generation \in 0..MaxTokens, generation > 0
  PROVE  Good(Recovering(c), generation) /\ Recovering(c).at \in {"refresh", "login", "idle"}
<1>1. c.recovery \in 0..2
  BY DEF Call
<1>2. CASE c.recovery = 0
  <2>1. c.sends <= 1 /\ 1 \in 0..2
    BY <1>2
  <2>2. LET d == [Asking(c, "refresh") EXCEPT !.recovery = 1]
        IN  Good(d, generation) /\ d.at = "refresh"
    BY <2>1, AskingIsGood
  <2>3. Recovering(c) = [Asking(c, "refresh") EXCEPT !.recovery = 1]
    BY <1>2 DEF Recovering
  <2> QED
    BY <2>2, <2>3
<1>3. CASE c.recovery = 1
  <2>1. c.sends <= 2 /\ 2 \in 0..2
    BY <1>3
  <2>2. LET d == [Asking(c, "login") EXCEPT !.recovery = 2]
        IN  Good(d, generation) /\ d.at = "login"
    BY <2>1, AskingIsGood
  <2>3. Recovering(c) = [Asking(c, "login") EXCEPT !.recovery = 2]
    BY <1>3 DEF Recovering
  <2> QED
    BY <2>2, <2>3
<1>4. CASE c.recovery = 2
  BY <1>4, IdleIsGood DEF Recovering
<1> QED
  BY <1>1, <1>2, <1>3, <1>4

\* The lookup of another task supersedes that of a call, and nothing else of it.
LEMMA SupersededIsGood ==
  ASSUME NEW g \in Nat, NEW h \in Nat, g <= h, NEW c \in Call, Good(c, g),
         NEW d, d = c \/ d = [c EXCEPT !.current = FALSE]
  PROVE  Good(d, h) /\ d.at = c.at /\ d.intent = c.intent
<1>1. d \in Call /\ d.at = c.at /\ d.intent = c.intent /\ d.sends = c.sends
      /\ d.recovery = c.recovery /\ d.executed = c.executed /\ d.answer = c.answer
  BY DEF Call
<1>2. c.intent \in Nat
  BY DEF Call
<1> QED
  BY <1>1, <1>2 DEF Good

-----------------------------------------------------------------------------
(***************************************************************************)
(* A step of one task.                                                     *)
(***************************************************************************)
Others(t) ==
  /\ call' \in [Task -> Call]
  /\ \A u \in Task : u # t => call'[u] = call[u] \/ call'[u] = [call[u] EXCEPT !.current = FALSE]

\* Only the call of the task changes.
LEMMA BecomesLeavesOthers ==
  ASSUME NEW t \in Task, NEW c \in Call, call \in [Task -> Call], Becomes(t, c)
  PROVE  Others(t) /\ call'[t] = c
  BY DEF Becomes, Others

\* A lookup supersedes those of the others.
LEMMA LookupLeavesOthers ==
  ASSUME NEW t \in Task, NEW at \in State, call \in [Task -> Call], Lookup(t, at)
  PROVE  Others(t) /\ call'[t] = [call[t] EXCEPT !.at = at, !.current = TRUE]
<1>1. [call[t] EXCEPT !.at = at, !.current = TRUE] \in Call
  BY DEF Call
<1>2. \A u \in Task : [call[u] EXCEPT !.current = FALSE] \in Call
  BY DEF Call
<1> QED
  BY <1>1, <1>2 DEF Lookup, Others

\* What a step must do to one call and to the session to keep the invariant:
\* the task is in the lock exactly while it authenticates, it enters when the
\* lock is free, and only a task that leaves the lock begins a new generation.
LEMMA Turn ==
  ASSUME IInv, NEW t \in Task, Others(t),
         NEW c, call'[t] = c,
         /\ token' \in Token /\ apiToken' \in Token /\ issued' \in Token
         /\ hasClientId' \in BOOLEAN /\ validated' \in BOOLEAN
         /\ dead' \in SUBSET (1..MaxTokens) /\ lapsed' \in SUBSET (1..MaxTokens),
         issued' >= issued,
         \/ generation' = generation
         \/ generation' = generation + 1 /\ t \in lock /\ c.at \notin Authenticating,
         generation' <= issued',
         generation' > 0 => hasClientId',
         apiToken' # 0 => generation' > 0,
         Good(c, generation'),
         lock' = IF c.at \in Authenticating THEN lock \cup {t} ELSE lock \ {t},
         c.at \in Authenticating => (lock = {} \/ t \in lock) /\ c.intent = generation',
         c.at \in AtAccount => generation' < issued'
  PROVE  IInv'
<1>1. /\ generation \in Nat /\ issued \in Nat /\ generation' \in Nat /\ issued' \in Nat
      /\ generation <= generation' /\ generation <= issued
  BY ClientSessionAssumption DEF IInv, SessionInv, Token
<1>2. ASSUME NEW u \in Task, u # t
      PROVE  Good(call'[u], generation') /\ call'[u].at = call[u].at /\ call'[u].intent = call[u].intent
  <2>1. call[u] \in Call /\ Good(call[u], generation)
    BY DEF IInv, CallsInv
  <2>2. call'[u] = call[u] \/ call'[u] = [call[u] EXCEPT !.current = FALSE]
    BY <1>2 DEF Others
  <2> QED
    BY <1>1, <2>1, <2>2, SupersededIsGood
<1>3. CallsInv'
  BY <1>2 DEF CallsInv, Others
<1>4. LockHeldByAuthenticator'
  BY <1>2 DEF LockHeldByAuthenticator, IInv
<1>5. OneHolder'
  BY DEF OneHolder, IInv
<1>6. AuthenticationsAreShared'
  <2>1. ASSUME NEW u \in Task, u # t, call'[u].at \in Authenticating
        PROVE  call'[u].intent = generation'
    <3>1. u \in lock /\ call[u].intent = generation
      BY <1>2, <2>1 DEF IInv, LockHeldByAuthenticator, AuthenticationsAreShared
    <3>2. t \notin lock
      BY <2>1, <3>1 DEF IInv, OneHolder
    <3> QED
      BY <1>2, <2>1, <3>1, <3>2
  <2> QED
    BY <2>1 DEF AuthenticationsAreShared
<1>7. (\E u \in Task : call'[u].at \in AtAccount) => generation' < issued'
  <2>1. ASSUME NEW u \in Task, u # t, call'[u].at \in AtAccount
        PROVE  generation' < issued'
    <3>1. u \in lock /\ generation < issued
      BY <1>2, <2>1 DEF IInv, LockHeldByAuthenticator, SessionInv, AtAccount, Authenticating
    <3>2. t \notin lock
      BY <2>1, <3>1 DEF IInv, OneHolder
    <3> QED
      BY <1>1, <3>1, <3>2
  <2> QED
    BY <2>1
<1>8. SessionInv'
  BY <1>1, <1>7 DEF SessionInv
<1> QED
  BY <1>3, <1>4, <1>5, <1>6, <1>8 DEF IInv

\* The part of the session that every step but a login leaves alone.
Quiet == UNCHANGED <<hasClientId, apiToken, generation, dead, lapsed>>

\* The same for a step after which the task has left, or stayed out of, the lock.
LEMMA OutOfLock ==
  ASSUME IInv, NEW t \in Task, NEW c \in Call, Becomes(t, c), Good(c, generation),
         c.at \notin Authenticating, lock' = lock \ {t}, Quiet,
         token' \in Token, issued' \in Token, issued' >= issued, validated' \in BOOLEAN
  PROVE  IInv'
<1>1. Others(t) /\ call'[t] = c
  BY BecomesLeavesOthers DEF IInv, CallsInv
<1>2. generation' <= issued'
  BY ClientSessionAssumption DEF IInv, SessionInv, Quiet, Token
<1> QED
  BY <1>1, <1>2, Turn DEF IInv, SessionInv, Quiet, Authenticating, AtAccount

\* An authentication that fails.
LEMMA FailsKeeps ==
  ASSUME IInv, NEW t \in Task, call[t].at \in Authenticating, Fails(t), Quiet,
         token' \in Token, issued' \in Token, issued' >= issued, validated' \in BOOLEAN
  PROVE  IInv'
<1> DEFINE c == IF call[t].at = "refreshing" THEN Recovering(call[t]) ELSE Idle
<1>1. call[t] \in Call /\ Good(call[t], generation) /\ generation \in 0..MaxTokens
  BY ClientSessionAssumption DEF IInv, CallsInv, SessionInv, Token
<1>2. call[t].executed = 0 /\ call[t].sends <= call[t].recovery + 1
  BY <1>1 DEF Good, Unsent, Call
<1>3. CASE call[t].at = "refreshing"
  <2>1. generation > 0
    BY <1>1, <1>3 DEF Good
  <2>2. Good(Recovering(call[t]), generation) /\ Recovering(call[t]).at \notin Authenticating
    BY <1>1, <1>2, <2>1, RecoveringIsGood DEF Authenticating
  <2>3. Becomes(t, Recovering(call[t])) /\ lock' = lock \ {t}
    BY <1>3 DEF Fails
  <2>4. Recovering(call[t]) \in Call
    BY <2>2 DEF Good
  <2> QED
    BY <2>2, <2>3, <2>4, OutOfLock
<1>4. CASE call[t].at # "refreshing"
  <2>1. Good(Idle, generation) /\ Idle \in Call /\ Idle.at \notin Authenticating
    BY <1>1, IdleIsGood DEF Good, Authenticating
  <2>2. Becomes(t, Idle) /\ lock' = lock \ {t}
    BY <1>4 DEF Fails
  <2> QED
    BY <2>1, <2>2, OutOfLock
<1> QED
  BY <1>3, <1>4

\* A call at another step.
LEMMA At ==
  ASSUME NEW c \in Call, NEW at \in State
  PROVE  LET d == [c EXCEPT !.at = at]
         IN  d \in Call /\ d.at = at /\ d.intent = c.intent /\ d.sends = c.sends
             /\ d.recovery = c.recovery /\ d.executed = c.executed
  BY DEF Call

\* A step of the task that holds the lock, which it keeps.
LEMMA InLock ==
  ASSUME IInv, NEW t \in Task, call[t].at \in Authenticating, Others(t), Quiet,
         NEW c \in Call, call'[t] = c, c.at \in Authenticating, c.intent = call[t].intent,
         c.sends = call[t].sends, c.recovery = call[t].recovery, c.executed = call[t].executed,
         c.at = "refreshing" => generation > 0,
         c.at \in AtAccount => call[t].at \in AtAccount \/ issued' > issued,
         lock' = lock, token' \in Token, issued' \in Token, issued' >= issued,
         validated' \in BOOLEAN
  PROVE  IInv'
<1>1. Good(call[t], generation) /\ t \in lock /\ call[t].intent = generation
  BY DEF IInv, CallsInv, LockHeldByAuthenticator, AuthenticationsAreShared
<1>2. Good(c, generation)
  BY <1>1 DEF Good, Unsent, Authenticating
<1>3. generation \in Nat /\ issued \in Nat /\ issued' \in Nat /\ generation <= issued
  BY ClientSessionAssumption DEF IInv, SessionInv, Token
<1>4. c.at \in AtAccount => generation < issued'
  BY <1>3 DEF IInv, SessionInv
<1>5. lock' = IF c.at \in Authenticating THEN lock \cup {t} ELSE lock \ {t}
  BY <1>1
<1>6. generation' = generation /\ generation' <= issued'
  BY <1>3 DEF Quiet
<1> QED
  BY <1>1, <1>2, <1>4, <1>5, <1>6, Turn DEF IInv, SessionInv, Quiet

-----------------------------------------------------------------------------
(***************************************************************************)
(* The steps of the program.                                               *)
(***************************************************************************)

\* What the invariant says of the session and of one call.
LEMMA Facts ==
  ASSUME IInv, NEW t \in Task
  PROVE  /\ call \in [Task -> Call] /\ call[t] \in Call /\ Good(call[t], generation)
         /\ generation \in 0..MaxTokens /\ generation \in Nat /\ issued \in Nat
         /\ token \in Token /\ issued \in Token /\ 0 \in Token /\ validated \in BOOLEAN
         /\ t \in lock <=> call[t].at \in Authenticating
  BY ClientSessionAssumption DEF IInv, CallsInv, SessionInv, Token, LockHeldByAuthenticator

\* A call begins, with the token of the session or by asking for a login.
LEMMA BeginKeeps ==
  ASSUME IInv, NEW t \in Task, Begin(t)
  PROVE  IInv'
<1> DEFINE c == IF LoggedIn THEN Departed(Idle, token) ELSE Asking(Idle, "login")
<1>1. Good(c, generation) /\ c \in Call /\ c.at \notin Authenticating
  <2>1. CASE LoggedIn
    <3>1. Good(Idle, generation) /\ Idle \in Call /\ Idle.sends <= Idle.recovery /\ Idle.executed = 0
      BY Facts, IdleIsGood DEF Good
    <3>2. generation > 0
      BY <2>1 DEF LoggedIn, IInv, SessionInv
    <3>3. Good(Departed(Idle, token), generation) /\ Departed(Idle, token).at \in {"sent", "idle"}
      BY <3>1, <3>2, Facts, DepartedIsGood
    <3> QED
      BY <2>1, <3>3 DEF Good, Authenticating
  <2>2. CASE ~LoggedIn
    <3>1. Asking(Idle, "login") \in Call
      BY Facts, IdleIsGood DEF Asking, Good, Call, State
    <3>2. /\ Asking(Idle, "login").at = "login" /\ Asking(Idle, "login").intent = generation
          /\ Asking(Idle, "login").sends = 0 /\ Asking(Idle, "login").recovery = 0
          /\ Asking(Idle, "login").executed = 0
      BY Facts, IdleIsGood DEF Asking, Good, Call
    <3> QED
      BY <2>2, <3>1, <3>2, Facts DEF Good, Unsent, Authenticating
  <2> QED
    BY <2>1, <2>2
<1>2. Becomes(t, c) /\ lock' = lock \ {t} /\ Quiet /\ UNCHANGED <<token, issued, validated>>
  BY Facts DEF Begin, Quiet, session, cloud, Authenticating
<1> QED
  BY <1>1, <1>2, OutOfLock, Facts

\* A request that the cloud has carried out.
LEMMA AnsweredCall ==
  ASSUME NEW c \in Call, c.executed = 0, NEW a \in {"ok", "error"}
  PROVE  LET d == [c EXCEPT !.at = "answered", !.answer = a, !.executed = @ + 1]
         IN  d \in Call /\ d.at = "answered" /\ d.intent = c.intent /\ d.sends = c.sends
             /\ d.recovery = c.recovery /\ d.answer = a
<1> DEFINE e == [c EXCEPT !.at = "answered", !.answer = a]
<1>1. e \in Call /\ e.at = "answered" /\ e.intent = c.intent /\ e.sends = c.sends
      /\ e.recovery = c.recovery /\ e.answer = a /\ e.executed = 0
  BY DEF Call, State
<1>2. LET d == [e EXCEPT !.executed = @ + 1]
      IN  d \in Call /\ d.at = e.at /\ d.intent = e.intent /\ d.sends = e.sends
          /\ d.recovery = e.recovery /\ d.answer = e.answer
  <2> HIDE DEF e
  <2>1. e.executed + 1 \in 0..1
    BY <1>1
  <2> QED
    BY <1>1, <2>1 DEF Call
<1> QED
  BY <1>1, <1>2

\* The cloud answers; only what it has not executed comes back as expired.
LEMMA ServeKeeps ==
  ASSUME IInv, NEW t \in Task, Serve(t)
  PROVE  IInv'
<1>1. call[t].at = "sent" /\ call[t].executed = 0 /\ generation > 0
  BY Facts DEF Serve, Good
<1>2. lock' = lock \ {t} /\ Quiet /\ UNCHANGED <<token, validated>>
  BY <1>1, Facts DEF Serve, Quiet, session, Authenticating
<1>3. issued' \in Token /\ issued' >= issued
  <2>1. issued' = issued \/ (issued < MaxTokens /\ issued' = issued + 1)
    BY DEF Serve
  <2> QED
    BY <2>1, Facts, ClientSessionAssumption DEF Token
<1>4. CASE Becomes(t, [call[t] EXCEPT !.at = "answered", !.answer = "expired"])
  <2> DEFINE c == [call[t] EXCEPT !.at = "answered", !.answer = "expired"]
  <2>1. c \in Call /\ c.at = "answered" /\ c.intent = call[t].intent /\ c.sends = call[t].sends
        /\ c.recovery = call[t].recovery /\ c.executed = call[t].executed
    BY Facts DEF Call, State
  <2>2. Good(c, generation) /\ c.at \notin Authenticating
    BY <1>1, <2>1, Facts DEF Good, Unsent, Authenticating
  <2> QED
    BY <1>2, <1>3, <1>4, <2>1, <2>2, OutOfLock, Facts
<1>5. ASSUME NEW a \in {"ok", "error"},
             Becomes(t, [call[t] EXCEPT !.at = "answered", !.answer = a, !.executed = @ + 1])
      PROVE  IInv'
  <2> DEFINE c == [call[t] EXCEPT !.at = "answered", !.answer = a, !.executed = @ + 1]
  <2>1. c \in Call /\ c.at = "answered" /\ c.intent = call[t].intent /\ c.sends = call[t].sends
        /\ c.recovery = call[t].recovery /\ c.answer = a
    <3>1. call[t] \in Call /\ call[t].executed = 0 /\ a \in {"ok", "error"}
      BY <1>1, <1>5, Facts
    <3> QED
      BY <3>1, AnsweredCall
  <2>2. Good(c, generation) /\ c.at \notin Authenticating
    BY <1>1, <2>1, Facts DEF Good, Unsent, Authenticating
  <2> QED
    BY <1>2, <1>3, <1>5, <2>1, <2>2, OutOfLock, Facts
<1>6. CASE Becomes(t, [call[t] EXCEPT !.at = "answered", !.answer = "ok", !.executed = @ + 1,
                                     !.rotated = issued'])
  <2> DEFINE d == [call[t] EXCEPT !.at = "answered", !.answer = "ok", !.executed = @ + 1]
             c == [call[t] EXCEPT !.at = "answered", !.answer = "ok", !.executed = @ + 1,
                                  !.rotated = issued']
  <2>1. d \in Call /\ d.at = "answered" /\ d.intent = call[t].intent /\ d.sends = call[t].sends
        /\ d.recovery = call[t].recovery /\ d.answer = "ok"
    BY <1>1, Facts, AnsweredCall
  <2>2. [d EXCEPT !.rotated = issued'] \in Call /\ [d EXCEPT !.rotated = issued'].at = d.at
        /\ [d EXCEPT !.rotated = issued'].intent = d.intent
        /\ [d EXCEPT !.rotated = issued'].sends = d.sends
        /\ [d EXCEPT !.rotated = issued'].recovery = d.recovery
        /\ [d EXCEPT !.rotated = issued'].answer = d.answer
    <3> HIDE DEF d
    <3> QED
      BY <1>3, <2>1 DEF Call
  <2>3. c = [d EXCEPT !.rotated = issued']
    OBVIOUS
  <2>4. c \in Call /\ c.at = "answered" /\ c.intent = call[t].intent /\ c.sends = call[t].sends
        /\ c.recovery = call[t].recovery /\ c.answer = "ok"
    <3> HIDE DEF c, d
    <3> QED
      BY <2>1, <2>2, <2>3
  <2>5. Good(c, generation) /\ c.at \notin Authenticating
    <3> HIDE DEF c
    <3> QED
      BY <1>1, <2>4, Facts DEF Good, Unsent, Authenticating
  <2> QED
    BY <1>2, <1>3, <1>6, <2>4, <2>5, OutOfLock, Facts
<1> QED
  BY <1>4, <1>5, <1>6 DEF Serve

\* The answer is read, and an expired token recovered from.
LEMMA ReceiveKeeps ==
  ASSUME IInv, NEW t \in Task, Receive(t)
  PROVE  IInv'
<1> DEFINE c == IF call[t].answer = "expired" THEN Recovering(call[t]) ELSE Idle
<1>1. Good(c, generation) /\ c \in Call /\ c.at \notin Authenticating
  <2>1. call[t].at = "answered" /\ generation > 0 /\ call[t].sends <= call[t].recovery + 1
    BY Facts DEF Receive, Good
  <2>2. CASE call[t].answer = "expired"
    <3>1. call[t].executed = 0
      BY <2>1, <2>2, Facts DEF Good
    <3>2. Good(Recovering(call[t]), generation)
          /\ Recovering(call[t]).at \in {"refresh", "login", "idle"}
      BY <2>1, <3>1, Facts, RecoveringIsGood
    <3> QED
      BY <2>2, <3>2 DEF Good, Authenticating
  <2>3. CASE call[t].answer # "expired"
    BY <2>3, Facts, IdleIsGood DEF Good, Authenticating
  <2> QED
    BY <2>2, <2>3
<1>2. Becomes(t, c) /\ lock' = lock \ {t}
  BY Facts DEF Receive, Authenticating
<1>3. UNCHANGED <<hasClientId, generation, validated, issued, dead, lapsed>>
  BY DEF Receive, cloud
<1>4. token' \in Token /\ apiToken' \in Token /\ (apiToken' # 0 => apiToken # 0)
  BY Facts DEF Receive, Call, IInv, SessionInv
<1>5. Others(t) /\ call'[t] = c
  BY <1>1, <1>2, Facts, BecomesLeavesOthers
<1> HIDE DEF c
<1>6. c.at \notin AtAccount /\ lock' = IF c.at \in Authenticating THEN lock \cup {t} ELSE lock \ {t}
  BY <1>1, <1>2 DEF AtAccount, Authenticating
<1>7. /\ generation' <= issued' /\ (generation' > 0 => hasClientId') /\ (apiToken' # 0 => generation' > 0)
      /\ Good(c, generation') /\ issued' \in Token /\ issued' >= issued
      /\ hasClientId' \in BOOLEAN /\ validated' \in BOOLEAN
      /\ dead' \in SUBSET (1..MaxTokens) /\ lapsed' \in SUBSET (1..MaxTokens)
  BY <1>1, <1>3, <1>4, Facts DEF IInv, SessionInv
<1> QED
  BY <1>1, <1>3, <1>4, <1>5, <1>6, <1>7, Turn

\* The caller is cancelled, wherever it is.
LEMMA CancelledKeeps ==
  ASSUME IInv, NEW t \in Task, Cancelled(t)
  PROVE  IInv'
<1>1. Good(Idle, generation) /\ Idle \in Call /\ Idle.at \notin Authenticating
  BY Facts, IdleIsGood DEF Good, Authenticating
<1>2. Becomes(t, Idle) /\ lock' = lock \ {t} /\ Quiet /\ UNCHANGED <<token, issued, validated>>
  BY DEF Cancelled, Quiet, session, cloud
<1> QED
  BY <1>1, <1>2, OutOfLock, Facts

\* A task that shares the login of another.
LEMMA SharingIsGood ==
  ASSUME IInv, NEW t \in Task, call[t].at \in {"login", "refresh"}, generation # call[t].intent
  PROVE  /\ Good(Departed(call[t], token), generation) /\ Departed(call[t], token) \in Call
         /\ Departed(call[t], token).at \notin Authenticating
<1>1. generation > 0 /\ call[t].sends <= call[t].recovery /\ call[t].executed = 0
  BY Facts DEF Good, Unsent, Call
<1>2. Good(Departed(call[t], token), generation) /\ Departed(call[t], token).at \in {"sent", "idle"}
  BY <1>1, Facts, DepartedIsGood
<1> QED
  BY <1>2 DEF Good, Authenticating

\* A task that is granted the lock.
LEMMA Enters ==
  ASSUME IInv, NEW t \in Task, call[t].at \in {"login", "refresh"}, generation = call[t].intent,
         lock = {}, lock' = {t}, Others(t),
         NEW c \in Call, call'[t] = c, c.at \in {"looking", "authorising", "refreshing"},
         c.at = "refreshing" => call[t].at = "refresh", c.intent = call[t].intent,
         c.sends = call[t].sends, c.recovery = call[t].recovery, c.executed = call[t].executed,
         validated' \in BOOLEAN, UNCHANGED <<session, cloud>>
  PROVE  IInv'
<1>1. Good(call[t], generation)
  BY Facts
<1>2. Good(c, generation)
  BY <1>1 DEF Good, Unsent, Authenticating
<1>3. c.at \in Authenticating /\ c.at \notin AtAccount
  BY DEF Authenticating, AtAccount
<1>4. lock' = IF c.at \in Authenticating THEN lock \cup {t} ELSE lock \ {t}
  BY <1>3
<1> QED
  BY <1>2, <1>3, <1>4, Facts, Turn DEF IInv, SessionInv, session, cloud

\* The lock is granted for a login.
LEMMA LockLoginKeeps ==
  ASSUME IInv, NEW t \in Task, LockLogin(t)
  PROVE  IInv'
<1>1. call[t].at = "login" /\ lock = {} /\ UNCHANGED <<session, cloud>>
  BY DEF LockLogin
<1>2. CASE generation # call[t].intent
  <2>1. Becomes(t, Departed(call[t], token)) /\ lock' = lock \ {t} /\ validated' = validated
    BY <1>1, <1>2 DEF LockLogin
  <2> QED
    BY <1>1, <1>2, <2>1, SharingIsGood, OutOfLock, Facts DEF Quiet, session, cloud
<1>3. CASE generation = call[t].intent /\ validated
  <2> DEFINE c == [call[t] EXCEPT !.at = "authorising"]
  <2>1. Becomes(t, c) /\ lock' = {t} /\ validated' = validated
    BY <1>3 DEF LockLogin
  <2>2. c \in Call /\ c.at = "authorising" /\ c.intent = call[t].intent /\ c.sends = call[t].sends
        /\ c.recovery = call[t].recovery /\ c.executed = call[t].executed
    BY Facts, At DEF State, Authenticating
  <2>3. Others(t) /\ call'[t] = c
    BY <2>1, <2>2, BecomesLeavesOthers, Facts
  <2> HIDE DEF c
  <2> QED
    BY <1>1, <1>3, <2>1, <2>2, <2>3, Enters, Facts
<1>4. CASE generation = call[t].intent /\ ~validated
  <2>1. Lookup(t, "looking") /\ lock' = {t} /\ validated' = FALSE
    BY <1>4 DEF LockLogin, Lookup
  <2> DEFINE c == [call[t] EXCEPT !.at = "looking", !.current = TRUE]
  <2>2. Others(t) /\ call'[t] = c
    BY <2>1, LookupLeavesOthers, Facts DEF State, Authenticating
  <2>3. c \in Call /\ c.at = "looking" /\ c.intent = call[t].intent /\ c.sends = call[t].sends
        /\ c.recovery = call[t].recovery /\ c.executed = call[t].executed
    BY Facts DEF Call, State, Authenticating
  <2> HIDE DEF c
  <2> QED
    BY <1>1, <1>4, <2>1, <2>2, <2>3, Enters
<1> QED
  BY <1>2, <1>3, <1>4, Facts

\* The lock is granted for a refresh.
LEMMA LockRefreshKeeps ==
  ASSUME IInv, NEW t \in Task, LockRefresh(t)
  PROVE  IInv'
<1>1. call[t].at = "refresh" /\ lock = {} /\ UNCHANGED <<session, validated, cloud>>
  BY DEF LockRefresh
<1>2. CASE generation # call[t].intent
  <2>1. Becomes(t, Departed(call[t], token)) /\ lock' = lock \ {t}
    BY <1>1, <1>2 DEF LockRefresh
  <2> QED
    BY <1>1, <1>2, <2>1, SharingIsGood, OutOfLock, Facts DEF Quiet, session, cloud
<1>3. CASE generation = call[t].intent
  <2> DEFINE c == [call[t] EXCEPT !.at = "refreshing"]
  <2>1. Becomes(t, c) /\ lock' = {t}
    BY <1>3 DEF LockRefresh
  <2>2. c \in Call /\ c.at = "refreshing" /\ c.intent = call[t].intent /\ c.sends = call[t].sends
        /\ c.recovery = call[t].recovery /\ c.executed = call[t].executed
    BY Facts, At DEF State, Authenticating
  <2>3. Others(t) /\ call'[t] = c
    BY <2>1, <2>2, BecomesLeavesOthers, Facts
  <2> HIDE DEF c
  <2> QED
    BY <1>1, <1>3, <2>1, <2>2, <2>3, Enters, Facts
<1> QED
  BY <1>2, <1>3

\* A version lookup begins in the middle of an authentication.
LEMMA LooksKeeps ==
  ASSUME IInv, NEW t \in Task, call[t].at \in {"authorising", "account"},
         NEW at \in {"relooking", "accountLooking"},
         at = "accountLooking" => call[t].at = "account",
         Lookup(t, at), UNCHANGED <<session, lock, cloud>>
  PROVE  IInv'
<1> DEFINE c == [call[t] EXCEPT !.at = at, !.current = TRUE]
<1>1. at \in State /\ at \in Authenticating /\ call[t].at \in Authenticating
  BY DEF State, Authenticating
<1>2. Others(t) /\ call'[t] = c
  BY <1>1, LookupLeavesOthers, Facts
<1>3. c \in Call /\ c.at = at /\ c.intent = call[t].intent /\ c.sends = call[t].sends
      /\ c.recovery = call[t].recovery /\ c.executed = call[t].executed
  BY <1>1, Facts DEF Call
<1>4. validated' \in BOOLEAN /\ Quiet /\ lock' = lock /\ token' \in Token /\ issued' \in Token
      /\ issued' >= issued
  <2>1. validated' \in BOOLEAN
    BY DEF Lookup
  <2>2. /\ token \in Token /\ issued \in Token /\ issued \in Nat
        /\ token' = token /\ issued' = issued /\ lock' = lock /\ Quiet
    BY Facts DEF Quiet, session, cloud
  <2> QED
    BY <2>1, <2>2
<1>5. /\ c.at # "refreshing" /\ c.at \in Authenticating
      /\ c.at \in AtAccount => call[t].at \in AtAccount
  BY <1>1, <1>3 DEF AtAccount
<1> HIDE DEF c
<1> QED
  BY <1>1, <1>2, <1>3, <1>4, <1>5, InLock

\* An authentication goes on to its next request.
LEMMA GoesOn ==
  ASSUME IInv, NEW t \in Task, call[t].at \in Authenticating, NEW at \in Authenticating \ {"refreshing"},
         at \in AtAccount => call[t].at \in AtAccount \/ issued' > issued,
         Becomes(t, [call[t] EXCEPT !.at = at]), lock' = lock, Quiet,
         token' \in Token, issued' \in Token, issued' >= issued, validated' \in BOOLEAN
  PROVE  IInv'
<1> DEFINE c == [call[t] EXCEPT !.at = at]
<1>1. c \in Call /\ c.at = at /\ c.intent = call[t].intent /\ c.sends = call[t].sends
      /\ c.recovery = call[t].recovery /\ c.executed = call[t].executed
  BY Facts, At DEF State
<1>2. Others(t) /\ call'[t] = c
  BY <1>1, BecomesLeavesOthers, Facts
<1> HIDE DEF c
<1> QED
  BY <1>1, <1>2, InLock

\* A version lookup ends.
LEMMA LookupEndsKeeps ==
  ASSUME IInv, NEW t \in Task, NEW found \in BOOLEAN, LookupEnds(t, found)
  PROVE  IInv'
<1>1. /\ call[t].at \in Looking /\ call[t].at \in Authenticating
      /\ Quiet /\ UNCHANGED <<token, issued>> /\ validated' \in BOOLEAN
  BY Facts DEF LookupEnds, Looking, Authenticating, Quiet, session, cloud
<1>2. CASE Fails(t)
  BY <1>1, <1>2, FailsKeeps, Facts
<1>3. CASE /\ call[t].at = "looking" /\ lock' = lock
           /\ Becomes(t, [call[t] EXCEPT !.at = "authorising"])
  <2>1. "authorising" \in Authenticating \ {"refreshing"} /\ "authorising" \notin AtAccount
    BY DEF Authenticating, AtAccount
  <2> QED
    BY <1>1, <1>3, <2>1, GoesOn, Facts
<1>4. CASE /\ call[t].at = "accountLooking" /\ lock' = lock
           /\ Becomes(t, [call[t] EXCEPT !.at = "accountAgain"])
  <2>1. "accountAgain" \in Authenticating \ {"refreshing"} /\ call[t].at \in AtAccount
    BY <1>4 DEF Authenticating, AtAccount
  <2> QED
    BY <1>1, <1>4, <2>1, GoesOn, Facts
<1> QED
  <2> DEFINE next == [looking |-> "authorising", accountLooking |-> "accountAgain"]
  <2>1. DOMAIN next = {"looking", "accountLooking"}
    OBVIOUS
  <2>2. next["looking"] = "authorising" /\ next["accountLooking"] = "accountAgain"
    OBVIOUS
  <2>3. Fails(t) \/ (/\ call[t].at \in {"looking", "accountLooking"} /\ lock' = lock
                     /\ Becomes(t, [call[t] EXCEPT !.at = next[@]]))
    BY <2>1 DEF LookupEnds
  <2> HIDE DEF next
  <2> QED
    BY <1>2, <1>3, <1>4, <2>2, <2>3 DEF Becomes

\* The token arrives, the account is still to come.
LEMMA TokenGrantedKeeps ==
  ASSUME IInv, NEW t \in Task, TokenGranted(t)
  PROVE  IInv'
<1>1. /\ call[t].at = "authorising" /\ call[t].at \in Authenticating
      /\ Quiet /\ validated' \in BOOLEAN
      /\ issued < MaxTokens /\ issued' = issued + 1 /\ token' = issued'
  BY Facts DEF TokenGranted, Authenticating, Quiet, session, cloud
<1>2. issued' \in Token /\ issued' > issued /\ issued' >= issued /\ token' \in Token
  BY <1>1, Facts, ClientSessionAssumption DEF Token
<1>3. CASE validated
  <2> DEFINE d == [call[t] EXCEPT !.at = "account"]
             c == [call[t] EXCEPT !.at = "account", !.got = issued']
  <2>1. d \in Call /\ d.at = "account" /\ d.intent = call[t].intent /\ d.sends = call[t].sends
        /\ d.recovery = call[t].recovery /\ d.executed = call[t].executed
    BY Facts, At DEF State, Authenticating
  <2>2. LET e == [d EXCEPT !.got = issued']
        IN  e \in Call /\ e.at = d.at /\ e.intent = d.intent /\ e.sends = d.sends
            /\ e.recovery = d.recovery /\ e.executed = d.executed
    <3> HIDE DEF d
    <3> QED
      BY <1>2, <2>1 DEF Call
  <2>3. c = [d EXCEPT !.got = issued']
    OBVIOUS
  <2>4. Becomes(t, c) /\ lock' = lock
    BY <1>3 DEF TokenGranted
  <2> HIDE DEF c, d
  <2>5. c \in Call /\ c.at = "account" /\ c.intent = call[t].intent /\ c.sends = call[t].sends
        /\ c.recovery = call[t].recovery /\ c.executed = call[t].executed
    BY <2>1, <2>2, <2>3
  <2>6. Others(t) /\ call'[t] = c
    BY <2>4, <2>5, BecomesLeavesOthers, Facts
  <2>7. c.at \in Authenticating /\ c.at # "refreshing"
    BY <2>5 DEF Authenticating
  <2> QED
    BY <1>1, <1>2, <2>4, <2>5, <2>6, <2>7, InLock
<1>4. CASE ~validated
  <2>1. Fails(t)
    BY <1>4 DEF TokenGranted
  <2> QED
    BY <1>1, <1>2, <2>1, FailsKeeps
<1> QED
  BY <1>3, <1>4, Facts

\* A login that completes.
LEMMA Completes ==
  ASSUME IInv, NEW t \in Task, call[t].at \in Authenticating, NEW tok \in Token, Publish(tok),
         generation < issued', issued' \in Token, issued' >= issued,
         validated' = validated, token' \in Token, hasClientId' \in BOOLEAN, hasClientId',
         UNCHANGED <<dead, lapsed>>,
         NEW departs \in Token, lock' = lock \ {t}, Becomes(t, Departed(call[t], departs))
  PROVE  IInv'
<1> DEFINE c == Departed(call[t], departs)
<1>1. /\ apiToken' = tok /\ generation' = generation + 1
      /\ generation' \in Nat /\ generation' > 0 /\ generation' <= issued'
  BY Facts, ClientSessionAssumption DEF Publish, Token
<1>2. Good(call[t], generation') /\ call[t].sends <= call[t].recovery /\ call[t].executed = 0
  BY <1>1, Facts DEF Good, Unsent, Call
<1>3. Good(c, generation') /\ c.at \in {"sent", "idle"}
  BY <1>1, <1>2, Facts, DepartedIsGood
<1>4. c \in Call /\ c.at \notin Authenticating /\ c.at \notin AtAccount
  BY <1>3 DEF Good, Authenticating, AtAccount
<1> HIDE DEF c
<1>5. Others(t) /\ call'[t] = c
  BY <1>4, BecomesLeavesOthers, Facts DEF c
<1>6. t \in lock /\ lock' = IF c.at \in Authenticating THEN lock \cup {t} ELSE lock \ {t}
  BY <1>4, Facts
<1>7. /\ dead' \in SUBSET (1..MaxTokens) /\ lapsed' \in SUBSET (1..MaxTokens)
      /\ validated' \in BOOLEAN
  BY DEF IInv, SessionInv
<1> QED
  BY <1>1, <1>3, <1>4, <1>5, <1>6, <1>7, Turn

\* The account login completes.
LEMMA AccountReadyKeeps ==
  ASSUME IInv, NEW t \in Task, AccountReady(t)
  PROVE  IInv'
<1>1. /\ call[t].at \in Authenticating /\ generation < issued
  BY DEF AccountReady, Authenticating, IInv, SessionInv, AtAccount
<1>2. /\ Publish(token) /\ hasClientId' = TRUE /\ lock' = lock \ {t}
      /\ Becomes(t, Departed(call[t], token))
      /\ UNCHANGED <<token, validated, issued, dead, lapsed>>
  BY DEF AccountReady, cloud
<1> QED
  BY <1>1, <1>2, Facts, Completes

\* A refresh completes.
LEMMA TokenRefreshedKeeps ==
  ASSUME IInv, NEW t \in Task, TokenRefreshed(t)
  PROVE  IInv'
<1>1. /\ call[t].at = "refreshing" /\ call[t].at \in Authenticating
      /\ issued < MaxTokens /\ issued' = issued + 1 /\ token' = issued'
      /\ Publish(issued') /\ lock' = lock \ {t} /\ Becomes(t, Departed(call[t], issued'))
      /\ UNCHANGED <<hasClientId, validated, dead, lapsed>>
  BY DEF TokenRefreshed, Authenticating
<1>2. issued' \in Token /\ issued' >= issued /\ generation < issued'
  BY <1>1, Facts, ClientSessionAssumption DEF Token, IInv, SessionInv
<1>3. hasClientId' /\ hasClientId' \in BOOLEAN
  BY <1>1, Facts DEF Good, IInv, SessionInv
<1> QED
  BY <1>1, <1>2, <1>3, Completes

\* What happens around the tasks.
LEMMA AroundKeeps ==
  ASSUME IInv, (\E ok \in BOOLEAN : Inject(ok)) \/ Revoke \/ Lapse
  PROVE  IInv'
<1>1. ASSUME NEW ok \in BOOLEAN, Inject(ok) PROVE IInv'
  <2>1. ASSUME NEW u \in Task
        PROVE  /\ Good(call'[u], generation) /\ call'[u].at = call[u].at
               /\ call'[u].intent = call[u].intent
    <3>1. call'[u] = [call[u] EXCEPT !.current = FALSE]
      BY <1>1 DEF Inject
    <3> QED
      BY <3>1, Facts, SupersededIsGood
  <2>2. call' = [u \in Task |-> call'[u]] /\ UNCHANGED <<session, lock, cloud>> /\ validated' = ok
    BY <1>1 DEF Inject
  <2>3. call' \in [Task -> Call]
    BY <2>1, <2>2 DEF Good
  <2>4. SessionInv'
    BY <2>1, <2>2 DEF IInv, SessionInv, session, cloud
  <2>5. CallsInv'
    BY <2>1, <2>2, <2>3 DEF CallsInv, session
  <2>6. LockHeldByAuthenticator' /\ OneHolder' /\ AuthenticationsAreShared'
    BY <2>1, <2>2 DEF IInv, LockHeldByAuthenticator, OneHolder, AuthenticationsAreShared, session
  <2> QED
    BY <2>4, <2>5, <2>6 DEF IInv
<1>2. CASE Revoke \/ Lapse
  <2>1. /\ UNCHANGED <<session, validated, lock, call, issued>>
        /\ dead' \in SUBSET (1..MaxTokens) /\ lapsed' \in SUBSET (1..MaxTokens)
    <3>1. /\ dead \in SUBSET (1..MaxTokens) /\ lapsed \in SUBSET (1..MaxTokens)
          /\ 1..issued \subseteq 1..MaxTokens
      BY ClientSessionAssumption DEF IInv, SessionInv, Token
    <3>2. CASE Revoke
      BY <3>1, <3>2 DEF Revoke
    <3>3. CASE Lapse
      BY <3>1, <3>3 DEF Lapse
    <3> QED
      BY <1>2, <3>2, <3>3
  <2> QED
    BY <2>1 DEF IInv, SessionInv, CallsInv, LockHeldByAuthenticator, OneHolder,
                AuthenticationsAreShared, session
<1> QED
  BY <1>1, <1>2

-----------------------------------------------------------------------------
(***************************************************************************)
(* Theorems.                                                               *)
(***************************************************************************)

\* Every step keeps the invariant.
LEMMA StepKeeps ==
  ASSUME IInv, [Next]_vars
  PROVE  IInv'
<1>1. CASE UNCHANGED vars
  BY <1>1 DEF vars, session, cloud, IInv, SessionInv, CallsInv, LockHeldByAuthenticator,
              OneHolder, AuthenticationsAreShared
<1>2. ASSUME NEW t \in Task,
             \/ Begin(t) \/ Serve(t) \/ Receive(t) \/ LockLogin(t) \/ LockRefresh(t) \/ Cancelled(t)
      PROVE  IInv'
  BY <1>2, BeginKeeps, ServeKeeps, ReceiveKeeps, LockLoginKeeps, LockRefreshKeeps, CancelledKeeps
<1>3. ASSUME NEW t \in Task, Authenticate(t) PROVE IInv'
  <2>1. ASSUME NEW found \in BOOLEAN, LookupEnds(t, found) PROVE IInv'
    BY <2>1, LookupEndsKeeps
  <2>2. CASE AuthorisationRejected(t)
    BY <2>2, LooksKeeps DEF AuthorisationRejected
  <2>3. CASE AccountRejected(t)
    BY <2>3, LooksKeeps DEF AccountRejected
  <2>4. CASE AuthenticationFails(t)
    BY <2>4, FailsKeeps, Facts DEF AuthenticationFails, Quiet, session, cloud
  <2> QED
    BY <1>3, <2>1, <2>2, <2>3, <2>4, TokenGrantedKeeps, AccountReadyKeeps, TokenRefreshedKeeps
       DEF Authenticate
<1> QED
  BY <1>1, <1>2, <1>3, AroundKeeps DEF Next

\* The invariant holds in every reachable state.
LEMMA Invariant == Spec => []IInv
<1>1. Init => IInv
  <2> SUFFICES ASSUME Init PROVE IInv
    OBVIOUS
  <2>1. Good(Idle, 0) /\ Idle.at = "idle"
    BY IdleIsGood
  <2>2. call \in [Task -> Call] /\ \A t \in Task : call[t] = Idle
    BY <2>1 DEF Init, Good
  <2>3. CallsInv
    BY <2>1, <2>2 DEF Init, CallsInv
  <2>4. SessionInv
    <3>1. 0 \in Token /\ 0 \in Nat
      BY ClientSessionAssumption DEF Token
    <3>2. ~\E t \in Task : call[t].at \in AtAccount
      BY <2>1, <2>2 DEF AtAccount
    <3>3. /\ token = 0 /\ apiToken = 0 /\ issued = 0 /\ generation = 0
          /\ dead = {} /\ lapsed = {}
      BY DEF Init
    <3>4. hasClientId \in BOOLEAN /\ validated \in BOOLEAN
      BY DEF Init
    <3> QED
      BY <3>1, <3>2, <3>3, <3>4 DEF SessionInv
  <2>5. LockHeldByAuthenticator /\ OneHolder /\ AuthenticationsAreShared
    BY <2>1, <2>2 DEF Init, LockHeldByAuthenticator, OneHolder, AuthenticationsAreShared, Authenticating
  <2> QED
    BY <2>3, <2>4, <2>5 DEF IInv
<1> QED
  BY <1>1, StepKeeps, PTL DEF Spec

\* The session, the version and every call keep their types; in particular no
\* call is sent more than three times, and the generation never outruns the tokens.
THEOREM TypeCorrect == Spec => []TypeOK
<1>1. IInv => TypeOK
  BY ClientSessionAssumption DEF IInv, SessionInv, CallsInv, LockHeldByAuthenticator, TypeOK, Token
<1> QED
  BY <1>1, Invariant, PTL

\* The login lock is held by the one task that authenticates, by nobody else
\* and by nobody when none does, cancelled or failed in whatever order.
THEOREM LockIsHeld == Spec => []LockHeldByAuthenticator
  BY Invariant, PTL DEF IInv

\* A task that authenticates does so for the generation in force: no login is
\* repeated that another task has completed since it was asked for.
THEOREM LoginsAreShared == Spec => []AuthenticationsAreShared
  BY Invariant, PTL DEF IInv

\* A device request is executed at most once through all its recoveries.
THEOREM RequestsExecuteOnce == Spec => []ExecutedOnce
<1>1. ASSUME IInv, NEW t \in Task
      PROVE  call[t].executed + Cardinality({"sent"} \cap {call[t].at}) <= 1
  <2>1. call[t].executed \in 0..1 /\ Good(call[t], generation)
    BY <1>1, Facts DEF Call
  <2>2. CASE call[t].at = "sent"
    <3>1. {"sent"} \cap {call[t].at} = {"sent"} /\ call[t].executed = 0
      BY <2>1, <2>2 DEF Good
    <3> QED
      BY <3>1, FS_Singleton
  <2>3. CASE call[t].at # "sent"
    <3>1. {"sent"} \cap {call[t].at} = {}
      BY <2>3
    <3> QED
      BY <2>1, <3>1, FS_EmptySet
  <2> QED
    BY <2>2, <2>3
<1>2. IInv => ExecutedOnce
  BY <1>1 DEF ExecutedOnce
<1> QED
  BY <1>2, Invariant, PTL

\* No device request leaves before a login has completed, although the settings
\* hold a token from the middle of the first one on.
THEOREM RequestsFollowLogins == Spec => []SentAfterCompleteLogin
<1>1. IInv => SentAfterCompleteLogin
  BY DEF IInv, CallsInv, Good, SessionInv, SentAfterCompleteLogin
<1> QED
  BY <1>1, Invariant, PTL
=============================================================================
