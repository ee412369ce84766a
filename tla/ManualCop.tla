----------------------------- MODULE ManualCop -----------------------------
(***************************************************************************)
(* The ledger of COP readings a person enters (api/routers/feeds.py) and   *)
(* the projection made of it (core/cop_monitoring.py).  Editors of several *)
(* browser tabs read a page, edit a day and send it back with the revision *)
(* they saw; the projection reads the few rows it needs in one transaction *)
(* and tests itself on earlier days with what was known on those days.     *)
(*                                                                         *)
(* One device and daily rows.  Time is in ticks, "Day" of them to a day; a *)
(* time zone is the number of ticks its midnight is late.  The numbers of  *)
(* the projection are left out, its verdict is kept.                       *)
(***************************************************************************)
EXTENDS Integers, FiniteSets, FiniteSetsExt

CONSTANTS Editors,
          Dates,          \* local dates that may be entered
          Zones,          \* time zones
          Skipped,        \* <<zone, date>> without a local midnight
          Day,            \* ticks of a day
          Window, Folds,  \* 28 days, the last 7 of which are tried
          Limit,          \* rows of a page
          Editable,       \* dates that change while we look, bounded for TLC
          Opening,        \* tick of the first request
          Skew,           \* ticks the database's clock may be ahead; it is never behind
          Horizon, MaxWrites,  \* bounds for TLC
          MaxGaps,        \* other dates that differ from the usual, for TLC
          None

Row == [zone : Zones, closed : BOOLEAN, observed : Nat, created : Nat,
        updated : Nat, revision : Nat]

VARIABLES ledger,   \* manual_cop_observations by period_date
          sequence, \* manual_cop_revision_seq
          now,
          view,     \* the row each editor is looking at
          past,     \* history: the ledger as it was at each tick
          blind     \* history: editors that replaced a row they had not seen
copVars == <<ledger, sequence, now, view, past, blind>>

Start(z, d) == d * Day + z
End(z, d) == Start(z, d + 1)
Today(z, at) == (at - z) \div Day
Bounded(z, d) == <<z, d>> \notin Skipped /\ <<z, d + 1>> \notin Skipped
AvailableAt(row) == Max({row.observed, row.created, row.updated})

(* validate_observation_period *)
Valid(d, row, at) ==
  /\ Bounded(row.zone, d)
  /\ Start(row.zone, d) <= row.observed /\ row.observed <= at
  /\ row.closed => End(row.zone, d) <= row.observed

(* snapshot_from_stored: what time zone data says today decides. *)
Sound(d, row) ==
  /\ Bounded(row.zone, d) /\ Start(row.zone, d) <= row.observed
  /\ row.closed => End(row.zone, d) <= row.observed

Rows(l) == {d \in Dates : l[d] # None}
Newest(ds) == IF ds = {} THEN {} ELSE {Max(ds)}

(* The rows a request reads for the projection issued at "at". *)
Known(l, at) == {d \in Rows(l) : AvailableAt(l[d]) <= at}
LatestOf(l, at) == IF Known(l, at) # {} THEN Newest(Known(l, at)) ELSE Newest(Rows(l))
LatestClosed(l, zone, today, at) ==
  Newest({d \in Known(l, at) : l[d].closed /\ l[d].zone = zone /\ d < today})
Queried(l, at) ==
  UNION {LET zone == l[latest].zone  today == Today(zone, at)
         IN {latest} \cup {d \in Rows(l) : today - Window <= d /\ d < today}
              \cup LatestClosed(l, zone, today, at) : latest \in LatestOf(l, at)}

(* historical_issue_at: the same time of day on the eve of the target. *)
HistoricalIssue(target, zone, at) == at - Day * (Today(zone, at) - (target - 1))
Nonexistent(zone, target, at) ==
  <<zone, target - 1>> \in Skipped /\ (at - zone) % Day = 0
Eligible(l, training, target, issue) ==
  {d \in training : d <= target - 2 /\ AvailableAt(l[d]) <= issue}

(* forecast_manual_cop of the rows ds of l. *)
Available(l, ds, at) == {d \in ds : AvailableAt(l[d]) <= at}
Over(l, ds, at, zone) ==
  {d \in Available(l, ds, at) : l[d].closed /\ l[d].zone = zone
                               /\ l[d].observed >= End(zone, d) /\ d < Today(zone, at)}
Training(l, ds, at) ==
  UNION {LET zone == l[latest].zone
         IN {d \in Over(l, ds, at, zone) : Today(zone, at) - Window <= d}
         : latest \in Newest(Available(l, ds, at))}
Targets(today) == (today - Folds) .. (today - 1)
Verdict(l, ds, at) ==
  LET available == Available(l, ds, at)
      zone == l[Max(available)].zone
      today == Today(zone, at)
      closed == Over(l, ds, at, zone)
      training == Training(l, ds, at)
  IN CASE ds = {} -> "no_data"
       [] ds # {} /\ available = {} -> "no_current_revision"
       [] OTHER ->
          IF \E d \in available : l[d].zone # zone /\ today - Window <= d /\ d < today
          THEN "mixed_timezones"
          ELSE IF closed # {} /\ Max(closed) < today - 1 THEN "stale"
          ELSE IF Cardinality(training) # Window THEN "insufficient_data"
          ELSE IF \E t \in Targets(today) : Nonexistent(zone, t, at) THEN "unavailable"
          ELSE IF \E t \in Targets(today) :
                    Cardinality(Eligible(l, training, t, HistoricalIssue(t, zone, at)))
                      < Window - Folds - 1
          THEN "short_fold" ELSE "ready"

(* get_manual_cop: one unsound row among those it reads refuses them all. *)
Answer(l, at) ==
  LET ds == Queried(l, at)
  IN IF \E d \in ds : ~Sound(d, l[d]) THEN "invalid_stored_period" ELSE Verdict(l, ds, at)

(* A page: the newest rows before a date, one more is read to know whether *)
(* there are others. *)
Top == Max(Dates) + 1
Listing(l, before) == {d \in Rows(l) : d < before}
Read(l, before) ==
  {d \in Listing(l, before) : Cardinality({e \in Listing(l, before) : e > d}) <= Limit}
Page(l, before) ==
  {d \in Listing(l, before) : Cardinality({e \in Listing(l, before) : e > d}) < Limit}
NextBefore(l, before) ==
  IF Cardinality(Read(l, before)) > Limit THEN {Min(Page(l, before))} ELSE {}

-----------------------------------------------------------------------------
NoView == [date |-> None, row |-> None]
View == [date : Dates, row : Row \cup {None}]
Revision(row) == IF row = None THEN 0 ELSE row.revision

TypeOK ==
  /\ ledger \in [Dates -> Row \cup {None}]
  /\ sequence \in Nat
  /\ now \in Nat
  /\ view \in [Editors -> View \cup {NoView}]
  /\ past \in [0..now -> [Dates -> Row \cup {None}]]
  /\ blind \subseteq Editors

(* Days entered before: when they were over, late, or while they lasted,   *)
(* with the time zone data of then. *)
Stored(d) ==
  {None} \cup
  {row \in {[zone |-> z, closed |-> c, observed |-> End(z, d), created |-> End(z, d),
             updated |-> End(z, d) + late, revision |-> 1 + ((d - 1) % (Max(Dates) + 1))] :
               z \in Zones, c \in BOOLEAN, late \in {0, 1}} :
     d \notin Editable => row.closed /\ row.updated = row.created}
Init ==
  /\ ledger \in [Dates -> UNION {Stored(d) : d \in Dates}]
  /\ \A d \in Dates : ledger[d] \in Stored(d)
  /\ \/ Cardinality({d \in Dates \ Editable : ledger[d] = None \/ ledger[d].zone # 0}) <= MaxGaps
     \/ \A d \in Dates \ Editable : d # Min(Dates) => ledger[d] = None
  /\ sequence = Max(Dates) + 2
  /\ now = Opening
  /\ view = [e \in Editors |-> NoView]
  /\ past = [t \in 0..Opening |->
               [d \in Dates |-> IF ledger[d] # None /\ ledger[d].updated <= t
                                THEN ledger[d] ELSE None]]
  /\ blind = {}

Tick ==
  /\ now < Horizon
  /\ now' = now + 1
  /\ past' = [t \in 0..now + 1 |-> IF t <= now THEN past[t] ELSE ledger]
  /\ UNCHANGED <<ledger, sequence, view, blind>>

(* An editor opens a day that a page lists, or one that it leaves out. *)
Look(e, d) ==
  /\ view[e] = NoView /\ Today(0, now) >= d
  /\ view' = [view EXCEPT ![e] = [date |-> d, row |-> ledger[d]]]
  /\ UNCHANGED <<ledger, sequence, now, past, blind>>

(* Revisions come from one sequence and are never given out again. *)
NextRevision == sequence
Matches(d, expected) == Revision(ledger[d]) = expected

Written(e, row) ==
  LET d == view[e].date
  IN /\ ledger' = [ledger EXCEPT ![d] = row]
     /\ past' = [past EXCEPT ![now] = [@ EXCEPT ![d] = row]]
     /\ blind' = IF ledger[d] = view[e].row THEN blind ELSE blind \cup {e}

(* The answer may be lost: the editor sends the same again. *)
Settle(e) == view' = [view EXCEPT ![e] = NoView] \/ UNCHANGED view

Put(e, zone, closed, observed, ahead) ==
  LET d == view[e].date
      old == ledger[d]
      row == [zone |-> zone, closed |-> closed, observed |-> observed,
              created |-> IF old = None THEN now + ahead ELSE old.created,
              updated |-> now + ahead, revision |-> NextRevision]
  IN /\ sequence < Max(Dates) + 2 + MaxWrites
     /\ Valid(d, row, now)
     /\ Matches(d, Revision(view[e].row))
     /\ Written(e, row)
     /\ sequence' = sequence + 1
     /\ Settle(e)
     /\ UNCHANGED now

Delete(e) ==
  /\ view[e] # NoView /\ view[e].row # None
  /\ Matches(view[e].date, Revision(view[e].row))
  /\ Written(e, None)
  /\ Settle(e)
  /\ UNCHANGED <<sequence, now>>

Conflict(e) ==
  /\ view[e] # NoView /\ ~Matches(view[e].date, Revision(view[e].row))
  /\ view' = [view EXCEPT ![e] = NoView]
  /\ UNCHANGED <<ledger, sequence, now, past, blind>>

Next ==
  \/ Tick
  \/ \E e \in Editors :
       \/ \E d \in Editable : Look(e, d)
       \/ view[e] # NoView /\ \E z \in Zones, c \in BOOLEAN :
            \E t \in {now, End(z, view[e].date)}, ahead \in 0..Skew : Put(e, z, c, t, ahead)
       \/ Delete(e) \/ Conflict(e)

Spec == Init /\ [][Next]_copVars

-----------------------------------------------------------------------------
(***************************************************************************)
(* An edit or a deletion takes effect only on the row its editor saw, also *)
(* when others have deleted the day and entered it again meanwhile         *)
(* (feeds.py compares the expected revision in the statement itself, and   *)
(* manual_cop_revision_seq gives no revision twice).                       *)
(***************************************************************************)
EditsAreSeen == blind = {}

(***************************************************************************)
(* The rows the request selects are enough: the verdict of the projection  *)
(* on them is its verdict on the whole ledger (get_manual_cop reads the    *)
(* latest row, the window and the latest closed day;                       *)
(* forecast_manual_cop decides).                                           *)
(***************************************************************************)
QueriedIsEnough ==
  Answer(ledger, now) # "invalid_stored_period"
    => Answer(ledger, now) = Verdict(ledger, Rows(ledger), now)

(***************************************************************************)
(* A projection is tried on earlier days without hindsight: every row that *)
(* a fold learns from stood in the ledger, as it stands now, when that     *)
(* fold's projection would have been issued; a value corrected since is    *)
(* left out (forecast_manual_cop, available_at).                           *)
(***************************************************************************)
NoHindsight ==
  LET ds == Queried(ledger, now)
      training == Training(ledger, ds, now)
  IN Answer(ledger, now) = "ready" =>
       \A t \in Targets(Today(ledger[Max(training)].zone, now)) :
         LET issue == HistoricalIssue(t, ledger[Max(training)].zone, now)
         IN \A d \in Eligible(ledger, training, t, issue) :
              issue >= 0 /\ past[issue][d] = ledger[d]

(***************************************************************************)
(* Turning the pages lists each row once: the first listing has every row, *)
(* and a page shows all that was left or leaves the rest, and nothing that *)
(* it has shown, to the pages before the date it names (get_manual_cop,    *)
(* next_before).                                                           *)
(***************************************************************************)
PagesListAll ==
  /\ Listing(ledger, Top) = Rows(ledger)
  /\ \A b \in 0..Top :
       /\ NextBefore(ledger, b) = {} => Page(ledger, b) = Listing(ledger, b)
       /\ \A n \in NextBefore(ledger, b) :
            /\ n < b
            /\ Listing(ledger, b) = Page(ledger, b) \cup Listing(ledger, n)
            /\ Page(ledger, b) \cap Listing(ledger, n) = {}

=============================================================================
