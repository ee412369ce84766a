------------------------------- MODULE LogSink -------------------------------
(***************************************************************************)
(* The best-effort log queue of core/log_sink.py: admission by any thread, *)
(* one flusher task, at most one writer task, the ownership lease of an    *)
(* explicit session factory, and a shutdown with one absolute budget.      *)
(*                                                                         *)
(* Producers are threads; everything else runs on one event loop, so a     *)
(* step is what happens between two awaits.  Row contents, the encoding    *)
(* and the diagnostics writer are left out.  An attempt timeout, the row   *)
(* age limit and the end of the shutdown budget may come at any moment.    *)
(***************************************************************************)
EXTENDS Naturals, Sequences, FiniteSets

CONSTANTS
  Row,              \* log events, each emitted once
  MaxOwnedRows,     \* _MAX_OWNED_ROWS
  BatchSize,        \* _BATCH_SIZE
  MaxAttempts,      \* _MAX_ATTEMPTS
  MaxGeneration     \* bound on restarts

ASSUME LogSinkAssumption ==
  /\ MaxOwnedRows \in Nat \ {0}
  /\ BatchSize \in Nat \ {0}
  /\ MaxAttempts \in Nat \ {0}
  /\ MaxGeneration \in Nat

VARIABLES
  \* the module's shared state, under _ADMISSION_LOCK
  fresh,        \* events not emitted yet
  encoding,     \* rows reserved and being encoded (_ENCODING_ROWS)
  buffer,       \* _LOG_BUFFER
  closing,      \* _CLOSING
  required,     \* _EXPLICIT_REQUIRED
  owner,        \* _OWNER: generation, state, whether a lease is held
  \* tasks
  flusher,      \* _FLUSH_TASK
  lock,         \* holder of _BUFFER_LOCK
  writer,       \* _INFLIGHT_TASK and _INFLIGHT_BATCH
  controller,   \* owner.controller
  expired,      \* the shutdown budget is used up
  \* what happened to rows
  stored,       \* stored[r]: transactions that wrote r and committed
  admitted, acked, lost

rowVars == <<stored, admitted, acked, lost>>
vars == <<fresh, encoding, buffer, closing, required, owner, flusher, lock, writer,
          controller, expired, rowVars>>

-----------------------------------------------------------------------------
State == {"IDLE", "BOUND_READY", "PRELOOP", "RUNNING", "SHUTTING_DOWN", "SETTLED",
          "FAILED_UNSETTLED"}

\* Task states of the writer.  "cancelling": cancel() was requested.
Live == {"running", "cancelling"}
Ended == {"ok", "failed", "cancelled"}

NoWriter == [task |-> "none", batch |-> <<>>, committed |-> FALSE, generation |-> 0]

Min2(i, j) == IF i < j THEN i ELSE j

RowsOf(s) == {s[i].row : i \in DOMAIN s}

Entry == [row : Row, attempts : 0..MaxAttempts]

TypeOK ==
  /\ fresh \in SUBSET Row
  /\ encoding \in SUBSET Row
  /\ buffer \in Seq(Entry)
  /\ closing \in BOOLEAN
  /\ required \in BOOLEAN
  /\ owner \in [generation : 0..MaxGeneration, state : State, lease : BOOLEAN]
  /\ flusher \in {"none", "sleeping", "waiting", "cancelling", "done"}
  /\ lock \in {"free", "flusher", "controller"}
  /\ writer \in [task : {"none"} \cup Live \cup Ended, batch : Seq(Entry), committed : BOOLEAN,
                 generation : 0..MaxGeneration]
  /\ controller \in {"none", "stopping", "draining", "waiting", "done"}
  /\ expired \in BOOLEAN
  /\ stored \in [Row -> Nat]
  /\ admitted \in SUBSET Row
  /\ acked \in SUBSET Row
  /\ lost \in SUBSET Row

Init ==
  /\ fresh = Row
  /\ encoding = {}
  /\ buffer = <<>>
  /\ closing = TRUE
  /\ required = FALSE
  /\ owner = [generation |-> 0, state |-> "IDLE", lease |-> FALSE]
  /\ flusher = "none"
  /\ lock = "free"
  /\ writer = NoWriter
  /\ controller = "none"
  /\ expired = FALSE
  /\ stored = [r \in Row |-> 0]
  /\ admitted = {}
  /\ acked = {}
  /\ lost = {}

-----------------------------------------------------------------------------
(***************************************************************************)
(* Producers: _db_log_processor.                                           *)
(***************************************************************************)
taskVars == <<flusher, lock, writer, controller, expired>>

\* Capacity is reserved before the event is inspected.
Reserve(r) ==
  /\ r \in fresh
  /\ ~closing
  /\ Len(buffer) + Cardinality(encoding) < MaxOwnedRows
  /\ fresh' = fresh \ {r}
  /\ encoding' = encoding \cup {r}
  /\ UNCHANGED <<buffer, closing, required, owner, taskVars, rowVars>>

\* Closed, saturated, or the admission lock is contended: dropped, not owned.
Reject(r) ==
  /\ r \in fresh
  /\ fresh' = fresh \ {r}
  /\ UNCHANGED <<encoding, buffer, closing, required, owner, taskVars, rowVars>>

\* Encoding is done: the row joins the queue unless the sink closed meanwhile.
Publish(r) ==
  /\ r \in encoding
  /\ encoding' = encoding \ {r}
  /\ IF closing
       THEN UNCHANGED <<buffer, admitted>>
       ELSE /\ buffer' = Append(buffer, [row |-> r, attempts |-> 0])
            /\ admitted' = admitted \cup {r}
  /\ UNCHANGED <<fresh, closing, required, owner, taskVars, stored, acked, lost>>

\* Oversized or unsupported.
EncodingFails(r) ==
  /\ r \in encoding
  /\ encoding' = encoding \ {r}
  /\ UNCHANGED <<fresh, buffer, closing, required, owner, taskVars, rowVars>>

-----------------------------------------------------------------------------
(***************************************************************************)
(* Lifecycle.                                                              *)
(***************************************************************************)

\* bind_log_session_factory
Bind ==
  /\ owner.state \in {"IDLE", "SETTLED"}
  /\ ~owner.lease
  /\ encoding = {} /\ buffer = <<>>
  /\ owner.generation < MaxGeneration
  /\ owner' = [generation |-> owner.generation + 1, state |-> "BOUND_READY", lease |-> TRUE]
  /\ required' = TRUE
  /\ closing' = TRUE
  /\ controller' = "none"
  /\ UNCHANGED <<fresh, encoding, buffer, flusher, lock, writer, expired, rowVars>>

\* _BindingLease.release: the caller may dispose of the session factory.
Release ==
  /\ owner.lease
  /\ owner.state \in {"BOUND_READY", "SETTLED"}
  /\ encoding = {} /\ buffer = <<>>
  /\ flusher \in {"none", "done"} /\ writer.task \notin Live
  /\ owner' = [owner EXCEPT !.state = "SETTLED", !.lease = FALSE]
  /\ closing' = TRUE
  /\ UNCHANGED <<fresh, encoding, buffer, required, taskVars, rowVars>>

\* configure_structlog_with_db: without a running loop the sink accepts rows
\* (PRELOOP) and a later call under a loop starts the flusher.
Configure(state) ==
  LET restart == owner.state \in {"IDLE", "SETTLED"}
  IN  /\ state \in {"PRELOOP", "RUNNING"}
      /\ owner.state \in {"IDLE", "SETTLED", "BOUND_READY", "PRELOOP"}
      /\ restart => /\ ~required /\ ~owner.lease
                    /\ owner.generation < MaxGeneration
      /\ owner.state = "PRELOOP" => state = "RUNNING"
      /\ owner' = [owner EXCEPT !.state = state,
                                !.generation = IF restart THEN @ + 1 ELSE @]
      /\ controller' = IF restart THEN "none" ELSE controller
      /\ closing' = FALSE
      /\ IF state = "RUNNING"
           THEN flusher' = "sleeping" /\ lock' = "free"
           ELSE UNCHANGED <<flusher, lock>>
      /\ UNCHANGED <<fresh, encoding, buffer, required, writer, expired, rowVars>>

\* shutdown_log_sink, first call of a generation.
ShutdownUnused ==
  /\ owner.state \in {"IDLE", "BOUND_READY"}
  /\ owner' = [owner EXCEPT !.state = "SETTLED"]
  /\ closing' = TRUE
  /\ UNCHANGED <<fresh, encoding, buffer, required, taskVars, rowVars>>

Shutdown ==
  /\ owner.state \in {"PRELOOP", "RUNNING"}
  /\ owner' = [owner EXCEPT !.state = "SHUTTING_DOWN"]
  /\ closing' = TRUE
  /\ controller' = "stopping"
  /\ expired' = FALSE
  /\ UNCHANGED <<fresh, encoding, buffer, required, flusher, lock, writer, rowVars>>

lifeVars == <<fresh, encoding, closing, required>>

-----------------------------------------------------------------------------
(***************************************************************************)
(* Batches.                                                                *)
(***************************************************************************)

\* Positions of the queue in their order.
Orders(positions) ==
  {f \in [1 .. Cardinality(positions) -> positions] :
     /\ \A i, j \in DOMAIN f : i < j => f[i] < f[j]
     /\ positions = {f[i] : i \in DOMAIN f}}

\* The rows that have attempts left and are not past their age.
Kept(aged) == {i \in DOMAIN buffer : buffer[i].attempts < MaxAttempts /\ buffer[i].row \notin aged}

\* Mutant: attempts are not counted.
ClaimedForEver(order) ==
  [queue |-> [i \in DOMAIN order |-> buffer[order[i]]],
   batch |-> Min2(BatchSize, Len(order))]

\* _claim_batch: the rows that are kept stay queued, and the head of them
\* becomes the batch and spends an attempt.
Claimed(order) ==
  LET n == Min2(BatchSize, Len(order))
  IN  [queue |-> [i \in DOMAIN order |-> IF i <= n
                                           THEN [buffer[order[i]] EXCEPT !.attempts = @ + 1]
                                           ELSE buffer[order[i]]],
       batch |-> n]

\* The batch of a new writer, unless there is nothing to write.
WriterOf(c) ==
  IF c.batch = 0
    THEN NoWriter
    ELSE [task |-> "running", batch |-> SubSeq(c.queue, 1, c.batch),
          committed |-> FALSE, generation |-> owner.generation]

\* The part of _flush_locked that runs before its await when no writer is in
\* flight: claim, and start a writer unless there is nothing to write.
StartWriter(aged) ==
  \E order \in Orders(Kept(aged)) :
    LET c == Claimed(order)
    IN  /\ writer = NoWriter
        /\ buffer' = c.queue
        /\ lost' = lost \cup (RowsOf(buffer) \ RowsOf(c.queue))
        /\ writer' = WriterOf(c)
        /\ UNCHANGED <<stored, admitted, acked>>

\* The transaction of the writer commits.
WriterCommits ==
  /\ writer.task \in Live
  /\ ~writer.committed
  /\ writer' = [writer EXCEPT !.committed = TRUE]
  /\ stored' = [r \in Row |-> IF r \in RowsOf(writer.batch) THEN stored[r] + 1 ELSE stored[r]]
  /\ UNCHANGED <<lifeVars, owner, buffer, flusher, lock, controller, expired, admitted, acked, lost>>

\* The writer task ends: normally only after its commit, by a failure before
\* or after it, or by a cancellation it was asked for.
WriterEnds(how) ==
  /\ writer.task \in Live
  /\ how = "ok" => writer.committed
  /\ how = "cancelled" => writer.task = "cancelling"
  /\ writer' = [writer EXCEPT !.task = how]
  /\ UNCHANGED <<lifeVars, owner, buffer, flusher, lock, controller, expired, rowVars>>

DropHead(n) == SubSeq(buffer, n + 1, Len(buffer))

\* Mutant: any end of the writer acknowledges its batch.
SettleBlindly ==
  /\ writer.task \in Ended
  /\ writer' = NoWriter
  /\ buffer' = DropHead(Len(writer.batch))
  /\ acked' = acked \cup RowsOf(writer.batch)
  /\ UNCHANGED <<lifeVars, owner, flusher, lock, controller, expired, stored, admitted, lost>>

\* _settle_inflight, called when the task is done and by whoever waits for it:
\* acknowledge, or drop a failed batch if the sink is closing, or leave it in
\* the queue for another attempt.
SettleInflight ==
  LET n == Len(writer.batch)
  IN  /\ writer.task \in Ended
      /\ writer' = NoWriter
      /\ CASE writer.task = "ok" ->
                /\ buffer' = DropHead(n)
                /\ acked' = acked \cup RowsOf(writer.batch)
                /\ UNCHANGED lost
           [] writer.task # "ok" /\ closing ->
                /\ buffer' = DropHead(n)
                /\ lost' = lost \cup RowsOf(writer.batch)
                /\ UNCHANGED acked
           [] OTHER -> UNCHANGED <<buffer, acked, lost>>
      /\ UNCHANGED <<lifeVars, owner, flusher, lock, controller, expired, stored, admitted>>

CancelWriter ==
  writer' = [writer EXCEPT !.task = IF @ = "running" THEN "cancelling" ELSE @]

-----------------------------------------------------------------------------
(***************************************************************************)
(* The flusher: _flush_loop and _flush_once.                               *)
(***************************************************************************)

\* It wakes, takes the lock, and starts a writer or joins the one in flight.
FlusherWakes(aged) ==
  /\ flusher = "sleeping"
  /\ owner.state = "RUNNING" \/ writer # NoWriter
  /\ lock = "free"
  /\ writer.task \notin Ended
  /\ IF writer = NoWriter THEN StartWriter(aged) ELSE UNCHANGED <<buffer, writer, rowVars>>
  /\ IF writer'.task = "none"
       THEN UNCHANGED <<flusher, lock>>
       ELSE flusher' = "waiting" /\ lock' = "flusher"
  /\ UNCHANGED <<lifeVars, owner, controller, expired>>

\* Its wait ends, by the attempt timeout or with the writer.
FlusherReturns ==
  /\ flusher = "waiting"
  /\ writer.task \notin Ended
  /\ IF writer.task = "running" THEN CancelWriter ELSE UNCHANGED writer
  /\ flusher' = "sleeping"
  /\ lock' = "free"
  /\ UNCHANGED <<lifeVars, owner, buffer, controller, expired, rowVars>>

\* The cancellation the controller requested is delivered; the flusher loop
\* also ends by itself once the owner is no longer running.
FlusherEnds ==
  /\ \/ flusher = "cancelling"
     \/ flusher = "sleeping" /\ owner.state # "RUNNING"
  /\ flusher' = "done"
  /\ lock' = IF lock = "flusher" THEN "free" ELSE lock
  /\ UNCHANGED <<lifeVars, owner, buffer, writer, controller, expired, rowVars>>

-----------------------------------------------------------------------------
(***************************************************************************)
(* The shutdown controller.                                                *)
(***************************************************************************)
ControllerFails ==
  /\ owner' = [owner EXCEPT !.state = "FAILED_UNSETTLED"]
  /\ controller' = "done"
  /\ UNCHANGED <<lifeVars, buffer, flusher, writer, expired, rowVars>>

ControllerCancelsFlusher ==
  /\ controller = "stopping"
  /\ flusher \in {"sleeping", "waiting"}
  /\ flusher' = "cancelling"
  /\ UNCHANGED <<lifeVars, owner, buffer, lock, writer, controller, expired, rowVars>>

\* flusher-live
FlusherLive ==
  /\ controller = "stopping"
  /\ flusher = "cancelling"
  /\ expired
  /\ ControllerFails
  /\ UNCHANGED lock

\* drain-lock-unavailable cannot arise once the flusher is done.
ControllerLocks ==
  /\ controller = "stopping"
  /\ flusher \in {"none", "done"}
  /\ lock = "free"
  /\ lock' = "controller"
  /\ controller' = "draining"
  /\ UNCHANGED <<lifeVars, owner, buffer, flusher, writer, expired, rowVars>>

\* Mutant: the controller does not join the writer in flight.
ControllerOverlaps(aged) ==
  /\ controller = "draining"
  /\ ~expired
  /\ buffer # <<>>
  /\ \E order \in Orders(Kept(aged)) :
       LET c == Claimed(order)
       IN  /\ buffer' = c.queue
           /\ lost' = lost \cup (RowsOf(buffer) \ RowsOf(c.queue))
           /\ writer' = IF c.batch = 0 THEN writer ELSE WriterOf(c)
  /\ controller' = IF writer'.task = "none" THEN "draining" ELSE "waiting"
  /\ UNCHANGED <<lifeVars, owner, flusher, lock, expired, stored, admitted, acked>>

\* _flush_locked on behalf of the controller.
ControllerFlushes(aged) ==
  /\ controller = "draining"
  /\ ~expired
  /\ buffer # <<>> \/ writer # NoWriter
  /\ writer.task \notin Ended
  /\ IF writer = NoWriter THEN StartWriter(aged) ELSE UNCHANGED <<buffer, writer, rowVars>>
  /\ controller' = IF writer'.task = "none" THEN "draining" ELSE "waiting"
  /\ UNCHANGED <<lifeVars, owner, flusher, lock, expired>>

\* The attempt times out: the writer is cancelled, and waited for all the same.
ControllerCancelsWriter ==
  /\ controller = "waiting"
  /\ writer.task = "running"
  /\ CancelWriter
  /\ UNCHANGED <<lifeVars, owner, buffer, flusher, lock, controller, expired, rowVars>>

\* Mutant: only the end of the writer ends the wait.
ControllerWaitsForWriter ==
  /\ controller = "waiting"
  /\ writer = NoWriter
  /\ controller' = "draining"
  /\ UNCHANGED <<lifeVars, owner, buffer, flusher, lock, writer, expired, rowVars>>

\* The writer has been settled, or the budget is used up.
ControllerStopsWaiting ==
  /\ controller = "waiting"
  /\ writer = NoWriter \/ (writer.task = "cancelling" /\ expired)
  /\ controller' = "draining"
  /\ UNCHANGED <<lifeVars, owner, buffer, flusher, lock, writer, expired, rowVars>>

ReadyToSettle ==
  /\ controller = "draining"
  /\ writer.task \notin Ended
  /\ expired \/ (buffer = <<>> /\ writer = NoWriter /\ encoding = {})

\* Mutant: the budget alone decides that the sink has settled.
SettlesWhenExpired ==
  /\ ReadyToSettle
  /\ lost' = lost \cup RowsOf(buffer)
  /\ buffer' = <<>>
  /\ owner' = [owner EXCEPT !.state = "SETTLED"]
  /\ controller' = "done"
  /\ lock' = "free"
  /\ UNCHANGED <<lifeVars, flusher, writer, expired, stored, admitted, acked>>

Settles ==
  /\ ReadyToSettle
  /\ writer = NoWriter /\ encoding = {}
  /\ lost' = lost \cup RowsOf(buffer)
  /\ buffer' = <<>>
  /\ owner' = [owner EXCEPT !.state = "SETTLED"]
  /\ controller' = "done"
  /\ lock' = "free"
  /\ UNCHANGED <<lifeVars, flusher, writer, expired, stored, admitted, acked>>

\* writer-or-encoding-live
WriterLive ==
  /\ ReadyToSettle
  /\ writer # NoWriter \/ encoding # {}
  /\ ControllerFails
  /\ lock' = "free"

\* Five seconds after the shutdown began.
Expire ==
  /\ owner.state = "SHUTTING_DOWN"
  /\ ~expired
  /\ expired' = TRUE
  /\ UNCHANGED <<lifeVars, owner, buffer, flusher, lock, writer, controller, rowVars>>

-----------------------------------------------------------------------------
Produce == \E r \in Row : Reserve(r) \/ Reject(r) \/ Publish(r) \/ EncodingFails(r)

Lifecycle ==
  \/ Bind \/ Release \/ ShutdownUnused \/ Shutdown
  \/ \E s \in {"PRELOOP", "RUNNING"} : Configure(s)

WriterTask == WriterCommits \/ (\E how \in Ended : WriterEnds(how)) \/ SettleInflight

FlusherTask == FlusherReturns \/ FlusherEnds \/ \E aged \in SUBSET RowsOf(buffer) : FlusherWakes(aged)

Controller ==
  \/ ControllerCancelsFlusher \/ FlusherLive \/ ControllerLocks
  \/ \E aged \in SUBSET RowsOf(buffer) : ControllerFlushes(aged)
  \/ ControllerCancelsWriter \/ ControllerStopsWaiting \/ Settles \/ WriterLive

Next == Produce \/ Lifecycle \/ WriterTask \/ FlusherTask \/ Controller \/ Expire

Spec == Init /\ [][Next]_vars

\* The loop runs its tasks and callbacks; the budget is a clock; producers
\* finish encoding.  Nothing obliges a writer to end: it may be stuck in the
\* database driver.
FairSpec ==
  /\ Spec
  /\ WF_vars(SettleInflight)
  /\ WF_vars(FlusherEnds)
  /\ WF_vars(Controller)
  /\ WF_vars(Expire)
  /\ \A r \in Row : WF_vars(Publish(r))

\* A database driver that lets every writer end, and a flusher loop that lives.
DriverEnds ==
  /\ WF_vars(\E how \in Ended : WriterEnds(how))
  /\ WF_vars(FlusherReturns)
  /\ WF_vars(\E aged \in SUBSET RowsOf(buffer) : FlusherWakes(aged))

-----------------------------------------------------------------------------
(***************************************************************************)
(* Properties.                                                             *)
(***************************************************************************)

\* The queue never owns more than its limit, rows being encoded included.
WithinCapacity == Len(buffer) + Cardinality(encoding) <= MaxOwnedRows

\* The rows a writer works on stay the head of the queue until it is settled,
\* so dropping that many rows from the head drops those rows
\* (_acknowledge_batch checks it; _settle_inflight relies on it).
BatchIsHead ==
  writer # NoWriter =>
    /\ Len(writer.batch) <= Len(buffer)
    /\ \A i \in DOMAIN writer.batch : buffer[i].row = writer.batch[i].row

\* Every admitted row is in exactly one place: still owned by the queue,
\* acknowledged, or counted as a loss (log_sink_status is a true account).  A row
\* is acknowledged only once it is committed, and written no more often than it
\* has attempts, although a commit whose outcome is unknown is retried; the queue
\* stays within its limit, and what a writer works on at its head.
Conservation ==
  /\ admitted = acked \cup lost \cup RowsOf(buffer)
  /\ acked \cap lost = {}
  /\ (acked \cup lost) \cap RowsOf(buffer) = {}
  /\ \A i, j \in DOMAIN buffer : buffer[i].row = buffer[j].row => i = j
  /\ \A r \in acked : stored[r] >= 1
  /\ \A r \in Row : stored[r] <= MaxAttempts
  /\ WithinCapacity /\ BatchIsHead

\* Once the sink has settled, or its lease is released, nothing of it uses the
\* session factory again: the caller may dispose of the database.
SettledIsQuiescent ==
  owner.state \in {"IDLE", "BOUND_READY", "SETTLED"} =>
    /\ writer = NoWriter
    /\ buffer = <<>>
    /\ encoding = {}
    /\ flusher \in {"none", "done"}

\* Writers start only in a generation that still owns its factory, one at a
\* time, and never after the shutdown has given its outcome.
WritersInOrder ==
  [][/\ writer.task \in Live => writer'.batch = writer.batch /\ writer'.generation = writer.generation
     /\ (writer = NoWriter /\ writer' # NoWriter) =>
          owner.state \in {"RUNNING", "SHUTTING_DOWN"}]_vars

\* A shutdown ends, settled or fenced for good, even if the writer never does.
ShutdownEnds ==
  owner.state = "SHUTTING_DOWN" ~> owner.state \in {"SETTLED", "FAILED_UNSETTLED"}

\* With writers that end, a row the running sink has admitted is acknowledged
\* or counted as lost, unless a shutdown had to fence the sink.
AdmittedIsSettled ==
  DriverEnds =>
    \A r \in Row :
      (r \in RowsOf(buffer) /\ owner.state = "RUNNING") ~>
        (r \in acked \cup lost \/ owner.state = "FAILED_UNSETTLED")
=============================================================================
