---------------------------- MODULE PriceBinding ----------------------------
(***************************************************************************)
(* Which Tibber home the stored prices belong to (core/price_scope.py, the *)
(* Tibber half of poller/feeds.py, poll_prices, and poll-now of the API).  *)
(* A poll captures the binding in one query, asks Tibber, may bind the     *)
(* home itself when exactly one has a subscription, records what it found, *)
(* and writes prices: a transaction each, while the owner and another poll *)
(* write the same settings.  An area is the digest of a home, which two    *)
(* homes may share.                                                        *)
(***************************************************************************)
EXTENDS FiniteSets, Naturals

CONSTANTS Polls,       \* the poller's job and the API's poll-now
          Homes,
          Areas,       \* values of the digest
          Digests,     \* functions from homes to areas to consider
          Currencies,
          Unset,       \* the empty home, no diagnostic, no reason, no scope
          MaxChoices   \* bound: writes of the owner

VARIABLES digest,      \* the area of each home
          active,      \* homes with a subscription, as Tibber would answer
          home,        \* the setting: a home or Unset
          diagnostic,  \* the feed's diagnostic setting: home, reason, method
          choices,     \* writes of the owner so far
          registry,    \* area -> Unset or the home and currency it was made for
          prices,      \* areas prices were written in, with their true home
          poll         \* what each poll holds

priceVars == <<digest, active, home, diagnostic, choices, registry, prices, poll>>
settingVars == <<home, diagnostic, choices>>
storeVars == <<registry, prices>>

Resting == [at |-> "idle", captured |-> Unset, automatic |-> FALSE,
            answer |-> {}, selected |-> Unset, currency |-> Unset, reason |-> Unset]

Reasons == {"other", "suspended", Unset}
Diagnostic == [home : Homes \cup {Unset, "missing"}, reason : Reasons,
               method : {"explicit", "single"}]
Held == [at : {"idle", "asking", "rejecting", "binding", "checking", "verified", "writing"},
         captured : Homes \cup {Unset}, automatic : BOOLEAN, answer : SUBSET Homes,
         selected : Homes \cup {Unset}, currency : Currencies \cup {Unset}, reason : Reasons]
ScopeOfHome == [home : Homes, currency : Currencies]
TypeOK ==
    /\ digest \in [Homes -> Areas] /\ active \in SUBSET Homes
    /\ home \in Homes \cup {Unset} /\ diagnostic \in Diagnostic /\ choices \in Nat
    /\ registry \in [Areas -> ScopeOfHome \cup {Unset}]
    /\ prices \subseteq [area : Areas, scope : ScopeOfHome]
    /\ poll \in [Polls -> Held]

Init == /\ digest \in Digests
        /\ active \in SUBSET Homes
        /\ home = Unset
        /\ diagnostic = [home |-> "missing", reason |-> Unset, method |-> "explicit"]
        /\ choices = 0
        /\ registry = [a \in Areas |-> Unset]
        /\ prices = {}
        /\ poll = [p \in Polls |-> Resting]

(***************************************************************************)
(* record_tibber_binding under the lock of the home's row.  The latch of a *)
(* suspended automatic binding is kept, and never put on an explicit one.  *)
(***************************************************************************)
DiagnosticAfter(selected, reason, method) ==
    IF diagnostic.home # selected
    THEN [home |-> selected, reason |-> reason, method |-> method]
    ELSE IF diagnostic.method = "explicit" /\ reason = "suspended"
    THEN diagnostic
    ELSE [diagnostic EXCEPT !.reason =
             IF diagnostic.method = "single" /\ @ = "suspended" THEN @ ELSE reason]

Record(captured, selected, reason) ==
    /\ diagnostic' = IF home = captured THEN DiagnosticAfter(selected, reason, "explicit")
                     ELSE diagnostic
    /\ UNCHANGED <<home, choices>>

Becomes(p, at) == poll' = [poll EXCEPT ![p].at = at]
Rejects(p, reason) == poll' = [poll EXCEPT ![p].at = "rejecting", ![p].reason = reason]

\* _fetch_prices_tibber up to the request: one query reads all settings.
Automatic == diagnostic.home = home /\ diagnostic.method = "single"

Capture(p) ==
    /\ poll[p].at = "idle"
    /\ LET captured == [Resting EXCEPT !.captured = home, !.automatic = Automatic]
           suspended == Automatic /\ diagnostic.reason = "suspended"
       IN \/ ~suspended /\ poll' = [poll EXCEPT ![p] = [captured EXCEPT !.at = "asking"]]
          \/ \* suspended, or the provider changed, no token, an invalid home
             poll' = [poll EXCEPT ![p] = [captured EXCEPT !.at = "rejecting",
                          !.reason = IF suspended THEN "suspended" ELSE "other"]]
    /\ UNCHANGED <<digest, active, settingVars, storeVars>>

Only(S) == CHOOSE x \in S : TRUE

\* Tibber answers, as the subscriptions are at that moment.
Answer(p) ==
    /\ poll[p].at = "asking"
    /\ LET answered == [poll[p] EXCEPT !.answer = active]
           Goes(at, selected, reason) ==
               poll' = [poll EXCEPT ![p] = [answered EXCEPT !.at = at,
                            !.selected = selected, !.reason = reason]]
           single == Cardinality(active) = 1
       IN \/ Goes("rejecting", Unset, "other")      \* malformed, errors, no identity
          \/ poll[p].automatic /\ ~single /\ Goes("rejecting", Unset, "suspended")
          \/ /\ ~poll[p].automatic /\ poll[p].captured = Unset /\ single
             /\ Goes("binding", Only(active), Unset)
          \/ /\ poll[p].automatic => single
             /\ poll[p].captured # Unset
             /\ Goes("checking", poll[p].captured, Unset)
    /\ UNCHANGED <<digest, active, settingVars, storeVars>>

\* record_tibber_binding(auto_bind=True): a compare-and-set of the empty home.
BindAnyway(p) ==
    /\ poll[p].at = "binding"
    /\ home' = poll[p].selected
    /\ diagnostic' = DiagnosticAfter(poll[p].selected, Unset, "single")
    /\ poll' = [poll EXCEPT ![p].at = "checking", ![p].captured = poll[p].selected]
    /\ UNCHANGED <<digest, active, choices, storeVars>>

Bind(p) ==
    /\ poll[p].at = "binding"
    /\ IF home = Unset
       THEN /\ home' = poll[p].selected
            /\ diagnostic' = DiagnosticAfter(poll[p].selected, Unset, "single")
            /\ poll' = [poll EXCEPT ![p].at = "checking", ![p].captured = poll[p].selected]
       ELSE /\ Rejects(p, "other")
            /\ UNCHANGED <<home, diagnostic>>
    /\ UNCHANGED <<digest, active, choices, storeVars>>

\* The selected home's own entries are checked.
Check(p) ==
    /\ poll[p].at = "checking"
    /\ \/ Rejects(p, "other")
       \/ /\ poll[p].selected \in poll[p].answer
          /\ \E c \in Currencies : poll' = [poll EXCEPT ![p].at = "verified",
                                                        ![p].currency = c]
    /\ UNCHANGED <<digest, active, settingVars, storeVars>>

\* The rejection, or the success, becomes the diagnostic of the captured home.
Reject(p) ==
    /\ poll[p].at = "rejecting"
    /\ Record(poll[p].captured, poll[p].captured, poll[p].reason)
    /\ poll' = [poll EXCEPT ![p] = Resting]
    /\ UNCHANGED <<digest, active, storeVars>>

Accept(p) ==
    /\ poll[p].at = "verified"
    /\ Record(poll[p].captured, poll[p].selected, Unset)
    /\ Becomes(p, "writing")
    /\ UNCHANGED <<digest, active, storeVars>>

\* ensure_tibber_scope: inserted unless the area or the home is taken, then verified.
Scope(p) == [home |-> poll[p].selected, currency |-> poll[p].currency]

Ensured(p, area) ==
    IF registry[area] = Unset /\ \A a \in Areas : registry[a] = Unset
                                               \/ registry[a].home # poll[p].selected
    THEN [registry EXCEPT ![area] = Scope(p)]
    ELSE registry

Write(p) ==
    /\ poll[p].at = "writing"
    /\ LET area == digest[poll[p].selected] IN
          IF Ensured(p, area)[area] = Scope(p)
          THEN /\ registry' = Ensured(p, area)
               /\ prices' = prices \cup {[area |-> area, scope |-> Scope(p)]}
          ELSE UNCHANGED storeVars
    /\ poll' = [poll EXCEPT ![p] = Resting]
    /\ UNCHANGED <<digest, active, settingVars>>

\* A request, a transaction or the process fails.
Abandon(p) ==
    /\ poll[p].at # "idle"
    /\ poll' = [poll EXCEPT ![p] = Resting]
    /\ UNCHANGED <<digest, active, settingVars, storeVars>>

\* set_setting of tibber_home_id: the diagnostic in the same transaction.
Choose ==
    /\ choices < MaxChoices
    /\ choices' = choices + 1
    /\ home' \in Homes \cup {Unset}
    /\ diagnostic' = [home |-> home', reason |-> Unset, method |-> "explicit"]
    /\ UNCHANGED <<digest, active, storeVars, poll>>

Subscribe ==
    /\ active' \in SUBSET Homes \ {active}
    /\ UNCHANGED <<digest, settingVars, storeVars, poll>>

Next == \/ \E p \in Polls : \/ Capture(p) \/ Answer(p) \/ Bind(p) \/ Check(p)
                            \/ Reject(p) \/ Accept(p) \/ Write(p) \/ Abandon(p)
        \/ Choose
        \/ Subscribe

Spec == Init /\ [][Next]_priceVars

-----------------------------------------------------------------------------
\* resolve_price_area: the area whose prices readers use, or Unset.
Resolved ==
    IF \/ home = Unset
       \/ diagnostic.home = home /\ diagnostic.reason # Unset
       \/ registry[digest[home]] = Unset
       \/ registry[digest[home]].home # home
    THEN Unset
    ELSE digest[home]

Latched == /\ home # Unset
           /\ diagnostic = [home |-> home, reason |-> "suspended", method |-> "single"]

(***************************************************************************)
(* Every price in an area is of the one home and currency the area was     *)
(* registered for, so the area readers resolve holds prices of the bound   *)
(* home only, even if two homes share a digest.  And only the owner        *)
(* replaces a bound home or releases a suspended automatic binding,        *)
(* whatever older polls finish.                                            *)
(***************************************************************************)
PricesAreTheHomes ==
    /\ \A x \in prices : registry[x.area] = x.scope
    /\ Resolved # Unset => \A x \in prices : x.area = Resolved => x.scope.home = home

OnlyTheOwnerRebinds ==
    choices' = choices => /\ home # Unset => home' = home
                          /\ Latched => Latched'

BindingIsTheOwners == []PricesAreTheHomes /\ [][OnlyTheOwnerRebinds]_priceVars
=============================================================================
