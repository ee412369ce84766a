-------------------------- MODULE SmartThingsTokens --------------------------
(***************************************************************************)
(* The one row of SmartThings credentials and the tasks that use it        *)
(* (poller/smartthings_oauth.py, poller/smartthings.py,                    *)
(* api/routers/smartthings.py).  The poller and the API are processes of   *)
(* their own, so what keeps two of them from exchanging one refresh token  *)
(* is the database: the advisory lock of a refresh transaction, and the    *)
(* second reading of the row inside it.  The service accepts a refresh     *)
(* token once.  A grant is a number that names both of its tokens.         *)
(***************************************************************************)
EXTENDS Naturals

CONSTANTS Callers,     \* tasks that need an access token
          MaxGrants,   \* bound: grants the service makes
          MaxFaults,   \* bound: lost answers, crashes
          NoRow        \* there is no row, or a task has no token

VARIABLES row,         \* NoRow or the stored credentials
          granted,     \* grants made so far
          dead,        \* access tokens the service refuses
          exchanged,   \* refresh tokens that work no more
          lost,        \* those among them whose successor was never stored
          caller,      \* what each task is doing
          consent,     \* the authorisation of the browser: [at, grant]
          faults

tokenVars == <<row, granted, dead, exchanged, lost, caller, consent, faults>>

Grants == 1..MaxGrants
Lives == {"valid", "margin", "lapsed"}
Rows == [access : Grants, refresh : Grants, life : Lives]
NoConsent == [at |-> "none", grant |-> NoRow]
Idle == [at |-> "idle", token |-> NoRow, rejected |-> NoRow,
         seen |-> "valid", refresh |-> NoRow, grant |-> NoRow]

Init == /\ row = NoRow
        /\ granted = 0
        /\ dead = {}
        /\ exchanged = {}
        /\ lost = {}
        /\ caller = [c \in Callers |-> Idle]
        /\ consent = NoConsent
        /\ faults = 0

(***************************************************************************)
(* The two tests a resolver makes, before and inside the lock: another     *)
(* task has replaced the rejected token and the row has not expired, or    *)
(* the token was not rejected and is outside the five-minute margin.       *)
(***************************************************************************)
Usable(r, rejected, life) ==
    \/ rejected \notin {NoRow, r.access} /\ life # "lapsed"
    \/ rejected # r.access /\ life = "valid"

Using(c, token) ==
    caller' = [caller EXCEPT ![c] = [Idle EXCEPT !.at = "using", !.token = token,
                                                 !.rejected = caller[c].rejected]]

GivesUp(c) == caller' = [caller EXCEPT ![c] = Idle]

(***************************************************************************)
(* get_valid_access_token up to the lock.  The clock is read here and used *)
(* again inside the lock: "seen" is what it says of the row's expiry.      *)
(* Without a row the caller falls back to a personal token, outside this   *)
(* model: it ends.                                                         *)
(***************************************************************************)
Resolve(c) ==
    /\ caller[c].at \in {"idle", "rejected"}
    /\ \/ row = NoRow /\ caller[c].at = "rejected" /\ GivesUp(c)
       \/ row # NoRow /\ Usable(row, caller[c].rejected, row.life) /\ Using(c, row.access)
       \/ /\ row # NoRow
          /\ ~Usable(row, caller[c].rejected, row.life)
          /\ caller' = [caller EXCEPT ![c].at = "waiting", ![c].seen = row.life]
    /\ UNCHANGED <<row, granted, dead, exchanged, lost, consent, faults>>

Inside(c) == caller[c].at \in {"inside", "answered"}

EnterUnlocked(c) ==
    /\ caller[c].at = "waiting"
    /\ row # NoRow
    /\ caller' = [caller EXCEPT ![c].at = "inside", ![c].refresh = row.refresh]
    /\ UNCHANGED <<row, granted, dead, exchanged, lost, consent, faults>>

\* _refresh_tokens_with_advisory_lock: the row is read again under the lock.
Enter(c) ==
    /\ caller[c].at = "waiting"
    /\ \A d \in Callers : ~Inside(d)
    /\ \/ row = NoRow /\ GivesUp(c)
       \/ row # NoRow /\ Usable(row, caller[c].rejected, caller[c].seen) /\ Using(c, row.access)
       \/ /\ row # NoRow
          /\ ~Usable(row, caller[c].rejected, caller[c].seen)
          /\ caller' = [caller EXCEPT ![c].at = "inside", ![c].refresh = row.refresh]
    /\ UNCHANGED <<row, granted, dead, exchanged, lost, consent, faults>>

\* The service answers a refresh; it may keep the refresh token it was given.
Exchange(c) ==
    /\ caller[c].at = "inside"
    /\ \/ /\ caller[c].refresh \in exchanged
          /\ GivesUp(c)
          /\ UNCHANGED <<granted, exchanged>>
       \/ /\ caller[c].refresh \notin exchanged
          /\ granted < MaxGrants
          /\ granted' = granted + 1
          /\ \E keep \in BOOLEAN :
                /\ exchanged' = IF keep THEN exchanged ELSE exchanged \cup {caller[c].refresh}
                /\ caller' = [caller EXCEPT
                     ![c].at = "answered", ![c].grant = granted + 1,
                     ![c].refresh = IF keep THEN @ ELSE granted + 1]
    /\ UNCHANGED <<row, dead, lost, consent, faults>>

\* The settings lack the client's credentials, or the service is unreachable
\* or refuses: the transaction ends with the row as it was.
Refused(c) ==
    /\ caller[c].at = "inside"
    /\ GivesUp(c)
    /\ UNCHANGED <<row, granted, dead, exchanged, lost, consent, faults>>

\* The transaction writes the row it finds.  Nothing keeps a row from being
\* deleted since it was read: then a row is made anew of an answer that has
\* both tokens, and the transaction fails if it has not, or if the deletion
\* comes after the row was looked up again.
Commit(c) ==
    /\ caller[c].at = "answered"
    /\ \/ /\ row = NoRow
          /\ GivesUp(c)
          /\ UNCHANGED row
       \/ /\ row # NoRow \/ caller[c].refresh = caller[c].grant
          /\ row' = [access |-> caller[c].grant, refresh |-> caller[c].refresh,
                     life |-> "valid"]
          /\ caller' = [d \in Callers |->
                IF d = c THEN [Idle EXCEPT !.at = "using", !.token = caller[c].grant,
                                           !.rejected = caller[c].rejected]
                ELSE [caller[d] EXCEPT !.seen = "valid"]]
    /\ UNCHANGED <<granted, dead, exchanged, lost, consent, faults>>

\* The process dies, or the answer of the service never arrives: the service
\* has exchanged the token and the row still holds it.
AnswerLost(c) ==
    /\ caller[c].at = "answered"
    /\ faults < MaxFaults
    /\ faults' = faults + 1
    /\ GivesUp(c)
    /\ lost' = IF row # NoRow /\ row.refresh \in exchanged THEN lost \cup {row.refresh} ELSE lost
    /\ UNCHANGED <<row, granted, dead, exchanged, consent>>

\* _fetch_smartthings_batch with the token: accepted, or refused.  After one
\* refusal the caller resolves again; a second one ends the poll.
Fetch(c) ==
    /\ caller[c].at = "using"
    /\ IF caller[c].token \in dead /\ caller[c].rejected = NoRow
       THEN caller' = [caller EXCEPT ![c] = [Idle EXCEPT !.at = "rejected",
                                                         !.rejected = caller[c].token]]
       ELSE GivesUp(c)
    /\ UNCHANGED <<row, granted, dead, exchanged, lost, consent, faults>>

\* The browser is sent to SmartThings; the state it must bring back is stored.
Authorize ==
    /\ consent.at = "none"
    /\ consent' = [consent EXCEPT !.at = "asked"]
    /\ UNCHANGED <<row, granted, dead, exchanged, lost, caller, faults>>

\* The callback spends the stored state, then exchanges the code.
Callback ==
    /\ consent.at = "asked"
    /\ \/ /\ granted < MaxGrants
          /\ granted' = granted + 1
          /\ consent' = [at |-> "coded", grant |-> granted + 1]
       \/ consent' = NoConsent /\ UNCHANGED granted
    /\ UNCHANGED <<row, dead, exchanged, lost, caller, faults>>

\* save_tokens takes the lock of a refresh before it writes the row.
SaveTokens ==
    /\ consent.at = "coded"
    /\ \A c \in Callers : ~Inside(c)
    /\ row' = [access |-> consent.grant, refresh |-> consent.grant, life |-> "valid"]
    /\ caller' = [c \in Callers |-> [caller[c] EXCEPT !.seen = "valid"]]
    /\ consent' = NoConsent
    /\ UNCHANGED <<granted, dead, exchanged, lost, faults>>

\* delete_tokens takes no lock.
Disconnect ==
    /\ row # NoRow
    /\ row' = NoRow
    /\ UNCHANGED <<granted, dead, exchanged, lost, caller, consent, faults>>

\* Time passes: the margin is reached, then the expiry.
Age ==
    /\ row # NoRow
    /\ row.life # "lapsed"
    /\ row' = [row EXCEPT !.life = IF @ = "valid" THEN "margin" ELSE "lapsed"]
    /\ dead' = IF row.life = "margin" THEN dead \cup {row.access} ELSE dead
    /\ UNCHANGED <<granted, exchanged, lost, caller, consent, faults>>

\* SmartThings refuses a token before its persisted expiry.
Invalidate ==
    /\ row # NoRow
    /\ row.access \notin dead
    /\ dead' = dead \cup {row.access}
    /\ UNCHANGED <<row, granted, exchanged, lost, caller, consent, faults>>

Step(c) == \/ Resolve(c) \/ Enter(c) \/ Exchange(c) \/ Refused(c) \/ Commit(c)
           \/ AnswerLost(c) \/ Fetch(c)

Next == \/ \E c \in Callers : Step(c)
        \/ Authorize \/ Callback \/ SaveTokens \/ Disconnect \/ Age \/ Invalidate

Spec == Init /\ [][Next]_tokenVars

(***************************************************************************)
(* The types of the row, the tasks and what the service remembers.         *)
(***************************************************************************)
Callings == [at : {"idle", "rejected", "waiting", "inside", "answered", "using"},
             token : Grants \cup {NoRow}, rejected : Grants \cup {NoRow}, seen : Lives,
             refresh : Grants \cup {NoRow}, grant : Grants \cup {NoRow}]

TypeOK ==
    /\ row \in Rows \cup {NoRow}
    /\ granted \in 0..MaxGrants
    /\ dead \subseteq Grants
    /\ exchanged \subseteq Grants
    /\ lost \subseteq exchanged
    /\ caller \in [Callers -> Callings]
    /\ consent \in [at : {"none", "asked", "coded"}, grant : Grants \cup {NoRow}]

(***************************************************************************)
(* A refresh presents a refresh token that the service has not exchanged   *)
(* before, unless a crash or a lost answer kept the successor from the     *)
(* row: two processes never spend one token (smartthings_oauth.py, the     *)
(* lock and the second reading in _refresh_tokens_with_advisory_lock).     *)
(***************************************************************************)
PresentsUnspent ==
    \A c \in Callers : caller[c].at = "inside" => caller[c].refresh \notin exchanged \ lost

=============================================================================
