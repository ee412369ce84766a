------------------------- MODULE ProspectiveEvidence -------------------------
(***************************************************************************)
(* The evidence on which a frozen candidate is qualified: issues, the      *)
(* paged scans that score them, and the looks (review() of ml/lifecycle.py *)
(* with ml/forecast_quality.py).  A unit of time is a maintenance slot;    *)
(* the candidate is frozen at 0.  What is known of the pump's past grows   *)
(* while a review runs, and after it has scored a pair.                    *)
(***************************************************************************)
EXTENDS Integers, Sequences, FiniteSets

CONSTANTS Lead,       \* slots from an issue to its target
          Carry,      \* slots for which an earlier command still counts
          FirstLook, Looks, \* age of the first look, and their number: one a unit
          Closed,     \* slots between a look and the end of its issues
          Fresh,      \* slots for which outcomes renew a qualification
          MinPairs,   \* valid pairs a qualification needs
          PageSize,   \* issues of one page
          None,       \* a restore still owed; no decision
          MaxEvents, MaxCrashes, Horizon \* bounds

VARIABLES now, issues, outcome,
          world,      \* what the database holds of the pump's past
          review,     \* the review that runs, and what it holds
          collection, \* checkpoint of the slots collected
          scan,       \* checkpoint of the scan, with the world as it began
          looks,      \* decision checkpoints consumed
          decision,   \* the last qualification
          bound       \* events and crashes so far

evidenceVars == <<now, issues, outcome, world, review, collection, scan, looks, decision, bound>>

Resting == [at |-> "idle", now |-> -1, page |-> <<>>, ends |-> FALSE, look |-> 0]

Scores == {"pending", "valid", "excluded", "incomplete"}
World == [acts : Seq([at : Nat, proof : {"unknown", "sent", "never"}]),
          overrides : SUBSET Nat, gaps : SUBSET Nat, read : SUBSET Nat,
          restore : Seq([from : Nat, to : Nat \cup {None}])]
Review == [at : {"idle", "issue", "scan", "page", "commit", "look", "decide"},
           now : Nat \cup {-1}, page : Seq(Scores), ends : BOOLEAN, look : 0..Looks]

TypeOK == /\ now \in Nat
          /\ issues \in Seq([at : Nat, built : BOOLEAN])
          /\ outcome \in [1..Len(issues) -> Scores]
          /\ world \in World
          /\ review \in Review
          /\ collection \in [last : Nat \cup {-1}, complete : BOOLEAN]
          /\ scan \in [end : Nat \cup {-1}, high : Nat, cursor : Nat, complete : BOOLEAN,
                       began : World]
          /\ looks \subseteq 1..Looks
          /\ decision \in [pairs : SUBSET Nat, now : Int, cutoff : Int, began : World] \cup {None}
          /\ bound \in [events : Nat, crashes : Nat]

Init == /\ now = 0
        /\ issues = <<>>
        /\ outcome = <<>>
        /\ world = [acts |-> <<>>, overrides |-> {}, gaps |-> {}, read |-> {}, restore |-> <<>>]
        /\ review = Resting
        /\ collection = [last |-> -1, complete |-> FALSE]
        /\ scan = [end |-> -1, high |-> 0, cursor |-> 0, complete |-> TRUE, began |-> world]
        /\ looks = {}
        /\ decision = None
        /\ bound = [events |-> 0, crashes |-> 0]

Target(i) == issues[i].at + Lead
Within(t, i) == issues[i].at <= t /\ t <= Target(i)

\* historical_revert_overlap_rows, and unresolved_revert_device_ids: a
\* restore owed now stands against every issue of the device.
Overlaps(r, i) == r.from <= Target(i) /\ (r.to = None \/ r.to >= issues[i].at)
RestoreStands(w, i) == \E k \in DOMAIN w.restore : w.restore[k].to = None \/ Overlaps(w.restore[k], i)

InReach(w, i) == {k \in DOMAIN w.acts : w.acts[k].at >= issues[i].at - Carry /\ w.acts[k].at <= Target(i)}
\* The first row, in their order, that is not proven never dispatched decides.
Telling(w, i) == {k \in InReach(w, i) : w.acts[k].proof # "never"}
First(S) == CHOOSE k \in S : \A l \in S : k <= l

\* native_trace_exclusion, for a pair whose target has passed.
Exclusion(i, w, found) ==
    IF ~issues[i].built THEN "excluded"
    ELSE IF ~found THEN "incomplete"
    ELSE IF (\E t \in w.overrides : Within(t, i)) \/ RestoreStands(w, i) THEN "excluded"
    ELSE IF Telling(w, i) # {}
        THEN IF w.acts[First(Telling(w, i))].proof = "sent" THEN "excluded" ELSE "incomplete"
    ELSE IF \E t \in w.gaps : Within(t, i) THEN "excluded"
    ELSE "valid"

\* What reconcile_materialized_page takes as observed: a pair that was valid
\* keeps its value, also when its reading is no longer found.
Observed(i, w) == outcome[i] = "valid" \/ Target(i) \in w.read

\* reconcile_native_issue
Score(i, w, clock, found) ==
    IF Target(i) > clock THEN "pending"
    ELSE IF Exclusion(i, w, found) = "valid" /\ ~Observed(i, w) THEN "incomplete"
    ELSE Exclusion(i, w, found)

\* review() starts, once a slot and again after a crash; it reads the clock once.
Start == /\ review.at = "idle"
         /\ review.now < now
         /\ review' = [Resting EXCEPT !.now = now,
                                      !.at = IF collection.last = now THEN "scan" ELSE "issue"]
         /\ UNCHANGED <<now, issues, outcome, world, collection, scan, looks, decision, bound>>

\* estimate_native_trajectory: a native trajectory can be built from fresh
\* telemetry only; its other inputs are free.
Trajectories(w, t) == {built \in BOOLEAN : built => t \notin w.gaps}

\* freeze_native_pair, or a row that says none could be built, and
\* record_native_issues.  A gap in the slots is forgotten with the next slot.
IssuePair == /\ review.at = "issue"
             /\ \E built \in Trajectories(world, review.now) :
                   /\ issues' = Append(issues, [at |-> review.now, built |-> built])
             /\ outcome' = Append(outcome, "pending")
             /\ collection' = [last |-> review.now, complete |-> review.now <= collection.last + 1]
             /\ review' = [review EXCEPT !.at = "scan"]
             /\ UNCHANGED <<now, world, scan, looks, decision, bound>>

\* begin_evidence_scan: one that was interrupted goes on with its window.
BeginScan == /\ review.at = "scan"
             /\ scan' = IF scan.complete
                        THEN [end |-> review.now, high |-> Len(issues), cursor |-> 0,
                              complete |-> FALSE, began |-> world]
                        ELSE scan
             /\ review' = [review EXCEPT !.at = "page"]
             /\ UNCHANGED <<now, issues, outcome, world, collection, looks, decision, bound>>

\* evidence_page, materialize_execution_page and reconcile_materialized_page.
ReadPage == /\ review.at = "page"
            /\ ~scan.complete
            /\ \E found \in BOOLEAN :
                  LET size == IF scan.high - scan.cursor < PageSize THEN scan.high - scan.cursor ELSE PageSize
                  IN /\ ~found => bound.events < MaxEvents /\ size > 0
                     /\ review' = [review EXCEPT !.at = "commit", !.ends = size < PageSize,
                          !.page = [k \in 1..size |-> Score(scan.cursor + k, world, review.now, found)]]
                     /\ bound' = IF found THEN bound ELSE [bound EXCEPT !.events = @ + 1]
            /\ UNCHANGED <<now, issues, outcome, world, collection, scan, looks, decision>>

\* The conflict clause of commit_evidence_page: exclusion is final, and a
\* valid pair only loses its standing.
Upsert(old, new) ==
    IF \/ old \in {"pending", "incomplete"}
       \/ old = "valid" /\ new \in {"excluded", "incomplete"}
    THEN new ELSE old

CommitPage ==
    /\ review.at = "commit"
    /\ outcome' = [i \in DOMAIN outcome |->
                     IF i - scan.cursor \in DOMAIN review.page
                     THEN Upsert(outcome[i], review.page[i - scan.cursor]) ELSE outcome[i]]
    /\ scan' = [scan EXCEPT !.cursor = IF review.ends THEN scan.high ELSE @ + Len(review.page),
                            !.complete = review.ends]
    /\ review' = [review EXCEPT !.at = IF review.ends THEN "look" ELSE "page", !.page = <<>>, !.ends = FALSE]
    /\ UNCHANGED <<now, issues, world, collection, looks, decision, bound>>

\* decision_checkpoint and claim_decision: consumed before it is scored.
Offset(k) == FirstLook + k - 1
Due == {k \in (1..Looks) \ looks : review.now >= Offset(k)}

Look == /\ review.at = "look"
        /\ IF Due = {} THEN review' = [Resting EXCEPT !.now = review.now] /\ UNCHANGED looks
           ELSE /\ looks' = looks \cup {First(Due)}
                /\ review' = [review EXCEPT !.at = "decide", !.look = First(Due)]
        /\ UNCHANGED <<now, issues, outcome, world, collection, scan, decision, bound>>

Cutoff == Offset(review.look) - Closed
Window == {i \in 1..scan.high : issues[i].at <= Cutoff}
Counted == {i \in Window : outcome[i] = "valid" /\ Target(i) <= review.now}

\* decision_evidence, and the gates of qualify_prospective before the skill.
Covered == /\ collection.complete
           /\ scan.complete
           /\ scan.end >= Cutoff
           /\ \A i \in Window : outcome[i] \in {"valid", "excluded"}

Supported == /\ Cardinality(Counted) >= MinPairs
             /\ \E i \in Counted : review.now < Target(i) + Fresh

\* finish_decision; the skill of the pairs may be either.
Decide == /\ review.at = "decide"
          /\ \E skilled \in BOOLEAN :
                decision' = IF Covered /\ Supported /\ skilled
                            THEN [pairs |-> Counted, now |-> review.now, cutoff |-> Cutoff,
                                  began |-> scan.began]
                            ELSE decision
          /\ review' = [Resting EXCEPT !.now = review.now]
          /\ UNCHANGED <<now, issues, outcome, world, collection, scan, looks, bound>>

Crash == /\ review.at # "idle"
         /\ bound.crashes < MaxCrashes
         /\ review' = Resting
         /\ bound' = [bound EXCEPT !.crashes = @ + 1]
         /\ UNCHANGED <<now, issues, outcome, world, collection, scan, looks, decision>>

\* A slot passes; its reading may be missing for good, or for now.
Tick == /\ now < Horizon
        /\ now' = now + 1
        /\ \E x \in SUBSET {now'} : world' = [world EXCEPT !.read = @ \cup x]
        /\ UNCHANGED <<issues, outcome, review, collection, scan, looks, decision, bound>>

\* A command is claimed, an owner intervenes, telemetry stops: at any time.
Happen == /\ bound.events < MaxEvents
          /\ \/ world' = [world EXCEPT !.acts = Append(@, [at |-> now, proof |-> "unknown"])]
             \/ world' = [world EXCEPT !.overrides = @ \cup {now}]
             \/ world' = [world EXCEPT !.gaps = @ \cup {now}]
             \/ world' = [world EXCEPT !.restore = Append(@, [from |-> now, to |-> None])]
             \/ world' = [world EXCEPT !.read = 0..now]
          /\ bound' = [bound EXCEPT !.events = @ + 1]
          /\ UNCHANGED <<now, issues, outcome, review, collection, scan, looks, decision>>

\* The executor stores what became of a command later (_store_verification_progress)
\* and closes an owed restore (_mark_verified).
Learn == /\ \/ \E k \in DOMAIN world.acts, p \in {"sent", "never"} :
                  /\ world.acts[k].proof = "unknown"
                  /\ world' = [world EXCEPT !.acts[k].proof = p]
            \/ \E k \in DOMAIN world.restore :
                  /\ world.restore[k].to = None
                  /\ world' = [world EXCEPT !.restore[k].to = now]
         /\ UNCHANGED <<now, issues, outcome, review, collection, scan, looks, decision, bound>>

Next == \/ Start \/ IssuePair \/ BeginScan \/ ReadPage \/ CommitPage \/ Look \/ Decide
        \/ Crash \/ Tick \/ Happen \/ Learn

Spec == Init /\ [][Next]_evidenceVars

-----------------------------------------------------------------------------
\* What was known in w disturbs the pair.
Tainted(w, i) == \/ \E k \in InReach(w, i) : w.acts[k].proof = "sent"
                 \/ \E t \in w.overrides \cup w.gaps : Within(t, i)
                 \/ \E k \in DOMAIN w.restore : Overlaps(w.restore[k], i)

(***************************************************************************)
(* Once a scan is complete, also one that a crash interrupted and a later  *)
(* review went on with, no pair it passed stands as valid against anything *)
(* that was known of its horizon as the scan began; and a qualification    *)
(* rests only on pairs that had matured by the clock of its review, were   *)
(* issued before the look's window closed, and are clean in that sense     *)
(* (commit_evidence_page, decision_evidence, qualify_prospective).         *)
(***************************************************************************)
QualificationIsEarned ==
    /\ scan.complete => \A i \in 1..scan.high :
          outcome[i] = "valid" => issues[i].built /\ ~Tainted(scan.began, i)
    /\ decision # None => \A i \in decision.pairs :
          /\ issues[i].at <= decision.cutoff
          /\ Target(i) <= decision.now
          /\ ~Tainted(decision.began, i)
=============================================================================
