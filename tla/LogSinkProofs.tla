--------------------------- MODULE LogSinkProofs ---------------------------
(***************************************************************************)
(* Proofs about LogSink, for any rows, limits and number of restarts.      *)
(***************************************************************************)
EXTENDS LogSink, Integers, FiniteSetTheorems, SequenceTheorems, TLAPS

-----------------------------------------------------------------------------
(***************************************************************************)
(* The invariant.                                                          *)
(***************************************************************************)
RowTypes ==
  /\ fresh \in SUBSET Row
  /\ encoding \in SUBSET Row /\ IsFiniteSet(encoding)
  /\ buffer \in Seq(Entry)
  /\ writer \in [task : {"none"} \cup Live \cup Ended, batch : Seq(Entry), committed : BOOLEAN,
                 generation : 0..MaxGeneration]
  /\ stored \in [Row -> Nat]
  /\ admitted \in SUBSET Row
  /\ acked \in SUBSET Row
  /\ lost \in SUBSET Row

LifeTypes ==
  /\ closing \in BOOLEAN
  /\ required \in BOOLEAN
  /\ owner \in [generation : 0..MaxGeneration, state : State, lease : BOOLEAN]
  /\ flusher \in {"none", "sleeping", "waiting", "cancelling", "done"}
  /\ lock \in {"free", "flusher", "controller"}
  /\ controller \in {"none", "stopping", "draining", "waiting", "done"}
  /\ expired \in BOOLEAN

\* Rows that have not been admitted are nowhere else, and not written.
OutsideIsOutside ==
  /\ fresh \cap encoding = {}
  /\ (fresh \cup encoding) \cap admitted = {}
  /\ \A r \in fresh \cup encoding : stored[r] = 0

\* Every admitted row is owned, acknowledged or lost.
Account ==
  /\ admitted = acked \cup lost \cup RowsOf(buffer)
  /\ acked \cap lost = {}
  /\ (acked \cup lost) \cap RowsOf(buffer) = {}
  /\ \A i, j \in DOMAIN buffer : buffer[i].row = buffer[j].row => i = j
  /\ \A r \in acked : stored[r] >= 1
  /\ \A r \in Row : stored[r] <= MaxAttempts

\* The writer works on the head of the queue.
WriterIsOfQueue ==
  /\ writer.task = "none" => writer = NoWriter
  /\ writer.task = "ok" => writer.committed
  /\ Len(writer.batch) <= Len(buffer)
  /\ \A i \in 1 .. Len(writer.batch) : writer.batch[i] = buffer[i]
  /\ writer.committed => \A i \in 1 .. Len(writer.batch) : stored[buffer[i].row] >= 1

\* A row has been written no more often than it has spent attempts, of which
\* one is still open while its writer has not committed.
AttemptsCover ==
  \A i \in 1 .. Len(buffer) :
    /\ stored[buffer[i].row] <= buffer[i].attempts
    /\ i <= Len(writer.batch) /\ ~writer.committed => stored[buffer[i].row] < buffer[i].attempts

\* The order in which a shutdown goes.
ShutdownOrder ==
  /\ controller \in {"stopping", "draining", "waiting"} => owner.state = "SHUTTING_DOWN"
  /\ controller \in {"draining", "waiting"} => flusher \in {"none", "done"}
  /\ owner.state \notin {"PRELOOP", "RUNNING"} => closing

RowsInv == /\ RowTypes /\ OutsideIsOutside /\ Account /\ WriterIsOfQueue /\ AttemptsCover
           /\ WithinCapacity

LifeInv == LifeTypes /\ ShutdownOrder /\ SettledIsQuiescent

IInv == RowsInv /\ LifeInv

\* The named parts are what TypeOK says, and more: what is encoded is finite.
LEMMA TypesAre == RowTypes /\ LifeTypes => TypeOK
  BY DEF RowTypes, LifeTypes, TypeOK

-----------------------------------------------------------------------------
(***************************************************************************)
(* The queue.                                                              *)
(***************************************************************************)

\* What a queue is, by its positions.
LEMMA QueueIs ==
  ASSUME NEW s \in Seq(Entry)
  PROVE  /\ Len(s) \in Nat
         /\ DOMAIN s = 1 .. Len(s)
         /\ RowsOf(s) = {s[i].row : i \in 1 .. Len(s)}
         /\ RowsOf(s) \in SUBSET Row
         /\ \A i \in 1 .. Len(s) : s[i] \in Entry /\ s[i].row \in RowsOf(s)
<1>1. Len(s) \in Nat /\ DOMAIN s = 1 .. Len(s) /\ \A i \in 1 .. Len(s) : s[i] \in Entry
  BY LenProperties, ElementOfSeq
<1>2. RowsOf(s) = {s[i].row : i \in 1 .. Len(s)}
  BY <1>1 DEF RowsOf
<1>3. \A i \in 1 .. Len(s) : s[i].row \in Row
  BY <1>1 DEF Entry
<1> QED
  BY <1>1, <1>2, <1>3

\* What is left of a queue without its first n rows, and those rows.
LEMMA Cut ==
  ASSUME NEW s \in Seq(Entry), NEW n \in Nat, n <= Len(s)
  PROVE  /\ SubSeq(s, n + 1, Len(s)) \in Seq(Entry)
         /\ Len(SubSeq(s, n + 1, Len(s))) = Len(s) - n
         /\ \A i \in 1 .. Len(s) - n : SubSeq(s, n + 1, Len(s))[i] = s[n + i]
         /\ SubSeq(s, 1, n) \in Seq(Entry)
         /\ Len(SubSeq(s, 1, n)) = n
         /\ \A i \in 1 .. n : SubSeq(s, 1, n)[i] = s[i]
  OBVIOUS

\* A queue in the invariant, and the writer's part of it.
LEMMA OwnedIs ==
  ASSUME RowsInv
  PROVE  /\ Len(buffer) \in Nat /\ DOMAIN buffer = 1 .. Len(buffer)
         /\ Len(writer.batch) \in Nat /\ DOMAIN writer.batch = 1 .. Len(writer.batch)
         /\ \A i \in 1 .. Len(buffer) : /\ buffer[i] \in Entry
                                        /\ buffer[i].row \in RowsOf(buffer)
                                        /\ buffer[i].row \in Row
                                        /\ buffer[i].attempts \in 0 .. MaxAttempts
         /\ RowsOf(buffer) = {buffer[i].row : i \in 1 .. Len(buffer)}
         /\ RowsOf(writer.batch) = {buffer[i].row : i \in 1 .. Len(writer.batch)}
<1>1. buffer \in Seq(Entry) /\ writer.batch \in Seq(Entry)
  BY DEF RowsInv, RowTypes
<1>2. /\ Len(buffer) \in Nat /\ DOMAIN buffer = 1 .. Len(buffer)
      /\ RowsOf(buffer) = {buffer[i].row : i \in 1 .. Len(buffer)}
      /\ \A i \in 1 .. Len(buffer) : buffer[i] \in Entry /\ buffer[i].row \in RowsOf(buffer)
  BY <1>1, QueueIs
<1>3. \A i \in 1 .. Len(buffer) : buffer[i].row \in Row /\ buffer[i].attempts \in 0 .. MaxAttempts
  BY <1>2 DEF Entry
<1>4. /\ Len(writer.batch) \in Nat /\ DOMAIN writer.batch = 1 .. Len(writer.batch)
      /\ RowsOf(writer.batch) = {writer.batch[i].row : i \in 1 .. Len(writer.batch)}
  BY <1>1, QueueIs
<1>5. \A i \in 1 .. Len(writer.batch) : writer.batch[i].row = buffer[i].row
  BY DEF RowsInv, WriterIsOfQueue
<1>6. {writer.batch[i].row : i \in 1 .. Len(writer.batch)} =
        {buffer[i].row : i \in 1 .. Len(writer.batch)}
  BY <1>5
<1> QED
  BY <1>2, <1>3, <1>4, <1>6

\* Dropping as many rows as the writer has from the head drops its rows.
LEMMA HeadDropped ==
  ASSUME RowsInv
  PROVE  LET n == Len(writer.batch)
             d == DropHead(n)
         IN  /\ d \in Seq(Entry)
             /\ Len(d) = Len(buffer) - n
             /\ \A i \in 1 .. Len(d) : d[i] = buffer[n + i] /\ n + i \in 1 .. Len(buffer)
             /\ RowsOf(buffer) = RowsOf(writer.batch) \cup RowsOf(d)
             /\ RowsOf(writer.batch) \cap RowsOf(d) = {}
<1> DEFINE n == Len(writer.batch)
           d == DropHead(n)
<1>1. n \in Nat /\ Len(buffer) \in Nat /\ n <= Len(buffer)
  BY OwnedIs DEF RowsInv, WriterIsOfQueue
<1>2. buffer \in Seq(Entry)
  BY DEF RowsInv, RowTypes
<1>3. /\ d \in Seq(Entry)
      /\ Len(d) = Len(buffer) - n
      /\ \A i \in 1 .. Len(buffer) - n : d[i] = buffer[n + i]
  <2> HIDE DEF n
  <2> QED
    BY <1>1, <1>2, Cut DEF DropHead
<1>4. Len(d) = Len(buffer) - n
  BY <1>3
<1>5. \A i \in 1 .. Len(d) : d[i] = buffer[n + i] /\ n + i \in 1 .. Len(buffer)
  <2> HIDE DEF d, n
  <2> TAKE i \in 1 .. Len(d)
  <2>1. n + i \in 1 .. Len(buffer)
    BY <1>1, <1>4
  <2> QED
    BY <2>1, <1>3
<1>6. RowsOf(d) = {d[i].row : i \in 1 .. Len(d)}
  BY <1>3, QueueIs
<1>7. RowsOf(writer.batch) = {buffer[i].row : i \in 1 .. n}
  BY OwnedIs
<1>8. RowsOf(buffer) = {buffer[i].row : i \in 1 .. Len(buffer)}
  BY OwnedIs
<1> HIDE DEF d, n
<1>9. \A i \in 1 .. Len(buffer) : i \in 1 .. n \/ \E j \in 1 .. Len(d) : i = n + j
  <2> SUFFICES ASSUME NEW i \in 1 .. Len(buffer), i \notin 1 .. n
               PROVE  \E j \in 1 .. Len(d) : i = n + j
    OBVIOUS
  <2>1. i - n \in 1 .. Len(d) /\ i = n + (i - n)
    BY <1>1, <1>4
  <2> QED
    BY <2>1
<1>10. \A i \in 1 .. n : i \in 1 .. Len(buffer)
  BY <1>1
<1>11. RowsOf(buffer) = RowsOf(writer.batch) \cup RowsOf(d)
  BY <1>5, <1>6, <1>7, <1>8, <1>9, <1>10
<1>12. \A i \in 1 .. n, j \in 1 .. Len(d) : i # n + j
  BY <1>1, <1>4
<1>13. \A i, j \in 1 .. Len(buffer) : buffer[i].row = buffer[j].row => i = j
  BY OwnedIs DEF RowsInv, Account
<1>14. RowsOf(writer.batch) \cap RowsOf(d) = {}
  BY <1>5, <1>6, <1>7, <1>10, <1>12, <1>13
<1> QED
  BY <1>3, <1>4, <1>5, <1>11, <1>14 DEF d, n

\* A claim keeps the order of the queue, forgets no row that is kept, and
\* counts an attempt of the rows it hands to the writer.
LEMMA ClaimIs ==
  ASSUME RowsInv, NEW aged, NEW order \in Orders(Kept(aged))
  PROVE  LET queue == Claimed(order).queue
             n == Claimed(order).batch
         IN  /\ queue \in Seq(Entry)
             /\ Len(queue) <= Len(buffer)
             /\ n \in Nat /\ n <= Len(queue)
             /\ \A i \in 1 .. Len(queue) :
                  /\ order[i] \in 1 .. Len(buffer)
                  /\ queue[i].row = buffer[order[i]].row
                  /\ queue[i].attempts = buffer[order[i]].attempts + (IF i <= n THEN 1 ELSE 0)
             /\ \A i, j \in 1 .. Len(queue) : order[i] = order[j] => i = j
             /\ RowsOf(queue) \subseteq RowsOf(buffer)
<1> DEFINE kept == Kept(aged)
           k == Cardinality(kept)
           n == Min2(BatchSize, Len(order))
           queue == Claimed(order).queue
<1>1. kept \subseteq 1 .. Len(buffer) /\ \A i \in kept : buffer[i].attempts < MaxAttempts
  BY OwnedIs DEF Kept
<1>2. k \in Nat /\ k <= Len(buffer)
  <2>1. Len(buffer) \in Nat /\ IsFiniteSet(1 .. Len(buffer)) /\ Cardinality(1 .. Len(buffer)) = Len(buffer)
    <3>1. Len(buffer) \in Nat
      BY OwnedIs
    <3>2. \A m \in Nat : IsFiniteSet(1 .. m) /\ Cardinality(1 .. m) = m
      BY FS_Interval
    <3> QED
      BY <3>1, <3>2
  <2> QED
    BY <1>1, <2>1, FS_Subset, FS_CardinalityType
<1>3. order \in [1 .. k -> kept] /\ \A i, j \in 1 .. k : i < j => order[i] < order[j]
  BY DEF Orders
<1>4. Len(order) = k /\ DOMAIN order = 1 .. k
  <2> HIDE DEF k, kept
  <2> QED
    BY <1>2, <1>3
<1>5. n \in Nat /\ n <= k
  <2> HIDE DEF k
  <2> QED
    BY <1>2, <1>4, LogSinkAssumption DEF Min2
<1>6. Claimed(order).batch = n
  BY DEF Claimed
<1>7. queue = [i \in 1 .. k |-> IF i <= n THEN [buffer[order[i]] EXCEPT !.attempts = @ + 1]
                                ELSE buffer[order[i]]]
  BY <1>4 DEF Claimed
<1> HIDE DEF k, kept, n, queue
<1>8. \A i \in 1 .. k : /\ order[i] \in 1 .. Len(buffer)
                        /\ buffer[order[i]] \in Entry
                        /\ buffer[order[i]].attempts \in 0 .. MaxAttempts
                        /\ buffer[order[i]].attempts < MaxAttempts
  BY <1>1, <1>3, OwnedIs
<1>9. ASSUME NEW i \in 1 .. k
      PROVE  /\ queue[i] \in Entry
             /\ queue[i].row = buffer[order[i]].row
             /\ queue[i].attempts = buffer[order[i]].attempts + (IF i <= n THEN 1 ELSE 0)
  <2> DEFINE e == buffer[order[i]]
  <2>1. e \in [row : Row, attempts : 0 .. MaxAttempts] /\ e.attempts < MaxAttempts
    BY <1>8 DEF Entry
  <2>2. queue[i] = IF i <= n THEN [e EXCEPT !.attempts = @ + 1] ELSE e
    BY <1>7
  <2> HIDE DEF e
  <2>3. CASE i <= n
    <3>1. queue[i] = [e EXCEPT !.attempts = @ + 1]
      BY <2>2, <2>3
    <3>2. e.attempts + 1 \in 0 .. MaxAttempts
      BY <2>1, LogSinkAssumption
    <3>3. queue[i] \in Entry
      BY <2>1, <3>1, <3>2 DEF Entry
    <3>4. queue[i].row = e.row /\ queue[i].attempts = e.attempts + 1
      BY <2>1, <3>1
    <3> QED
      BY <2>3, <3>3, <3>4 DEF e
  <2>4. CASE ~(i <= n)
    <3>1. queue[i] = e
      BY <2>2, <2>4
    <3>2. e.attempts = e.attempts + 0
      BY <2>1
    <3> QED
      BY <2>1, <2>4, <3>1, <3>2 DEF e, Entry
  <2> QED
    BY <2>3, <2>4
<1>10. queue \in Seq(Entry) /\ Len(queue) = k
  <2>1. DOMAIN queue = 1 .. k
    BY <1>7
  <2>2. queue \in [1 .. k -> Entry]
    BY <1>7, <1>9
  <2> QED
    BY <1>2, <2>1, <2>2
<1>11. \A i, j \in 1 .. k : order[i] = order[j] => i = j
  <2> SUFFICES ASSUME NEW i \in 1 .. k, NEW j \in 1 .. k, order[i] = order[j], i # j
               PROVE  FALSE
    OBVIOUS
  <2>1. i < j \/ j < i
    BY <1>2
  <2>2. order[i] < order[j] \/ order[j] < order[i]
    BY <1>3, <2>1
  <2> QED
    BY <1>8, <2>2, OwnedIs
<1>12. RowsOf(queue) \subseteq RowsOf(buffer)
  <2>1. RowsOf(queue) = {queue[i].row : i \in 1 .. k}
    BY <1>10, QueueIs
  <2>2. \A i \in 1 .. k : queue[i].row = buffer[order[i]].row /\ order[i] \in 1 .. Len(buffer)
    BY <1>8, <1>9
  <2>3. \A i \in 1 .. Len(buffer) : buffer[i].row \in RowsOf(buffer)
    BY OwnedIs
  <2> QED
    BY <2>1, <2>2, <2>3
<1> QED
  BY <1>2, <1>5, <1>6, <1>8, <1>9, <1>10, <1>11, <1>12 DEF queue

-----------------------------------------------------------------------------
(***************************************************************************)
(* Where the rows are: one lemma per action that moves them.               *)
(***************************************************************************)
rowsState == <<fresh, encoding, buffer, writer, stored, admitted, acked, lost>>

\* Nothing else has to do with rows.
LEMMA RowsUntouched == RowsInv /\ UNCHANGED rowsState => RowsInv'
  BY DEF RowsInv, rowsState, RowTypes, OutsideIsOutside, Account, WriterIsOfQueue, AttemptsCover,
         WithinCapacity, RowsOf

\* A row that is not fresh or being encoded stays where it is.
LEMMA ReserveMoves ==
  ASSUME RowsInv, NEW r \in Row, Reserve(r)
  PROVE  RowsInv'
<1>1. RowTypes'
  BY FS_AddElement DEF RowsInv, RowTypes, Reserve, rowVars, taskVars
<1>2. OutsideIsOutside'
  BY DEF RowsInv, RowTypes, OutsideIsOutside, Reserve, rowVars, taskVars
<1>3. Account' /\ WriterIsOfQueue' /\ AttemptsCover'
  BY DEF RowsInv, Account, WriterIsOfQueue, AttemptsCover, RowsOf, Reserve, rowVars, taskVars
<1>4. WithinCapacity'
  <2>1. Cardinality(encoding') = Cardinality(encoding) + 1
    BY FS_AddElement DEF RowsInv, RowTypes, OutsideIsOutside, Reserve
  <2>2. Cardinality(encoding) \in Nat
    BY FS_CardinalityType DEF RowsInv, RowTypes
  <2>3. Len(buffer) \in Nat /\ buffer' = buffer /\ Len(buffer) + Cardinality(encoding) < MaxOwnedRows
    BY OwnedIs DEF Reserve
  <2> QED
    BY <2>1, <2>2, <2>3, LogSinkAssumption DEF WithinCapacity
<1> QED
  BY <1>1, <1>2, <1>3, <1>4 DEF RowsInv

\* A row that is dropped before it is owned.
LEMMA RejectMoves ==
  ASSUME RowsInv, NEW r \in Row, Reject(r)
  PROVE  RowsInv'
<1>1. RowTypes' /\ OutsideIsOutside'
  BY DEF RowsInv, RowTypes, OutsideIsOutside, Reject, rowVars, taskVars
<1>2. Account' /\ WriterIsOfQueue' /\ AttemptsCover' /\ WithinCapacity'
  BY DEF RowsInv, Account, WriterIsOfQueue, AttemptsCover, WithinCapacity, RowsOf, Reject, rowVars,
         taskVars
<1> QED
  BY <1>1, <1>2 DEF RowsInv

\* A row whose encoding ends without it being published.
LEMMA EncodingLeaves ==
  ASSUME RowsInv, NEW r \in encoding, encoding' = encoding \ {r},
         UNCHANGED <<fresh, buffer, writer, stored, admitted, acked, lost>>
  PROVE  RowsInv'
<1>1. RowTypes'
  BY FS_RemoveElement DEF RowsInv, RowTypes
<1>2. OutsideIsOutside'
  BY DEF RowsInv, OutsideIsOutside
<1>3. Account' /\ WriterIsOfQueue' /\ AttemptsCover'
  BY DEF RowsInv, Account, WriterIsOfQueue, AttemptsCover, RowsOf
<1>4. WithinCapacity'
  <2>1. Cardinality(encoding') = Cardinality(encoding) - 1
    BY FS_RemoveElement DEF RowsInv, RowTypes
  <2>2. Cardinality(encoding) \in Nat
    BY FS_CardinalityType DEF RowsInv, RowTypes
  <2>3. Len(buffer) \in Nat /\ buffer' = buffer /\ Len(buffer) + Cardinality(encoding) <= MaxOwnedRows
    BY OwnedIs DEF RowsInv, WithinCapacity
  <2> QED
    BY <2>1, <2>2, <2>3, LogSinkAssumption DEF WithinCapacity
<1> QED
  BY <1>1, <1>2, <1>3, <1>4 DEF RowsInv

\* A published row leaves the encoding and joins the end of the queue.
LEMMA PublishMoves ==
  ASSUME RowsInv, NEW r \in Row, Publish(r)
  PROVE  RowsInv'
<1>1. CASE closing
  BY <1>1, EncodingLeaves DEF Publish, taskVars
<1>2. CASE ~closing
  <2> DEFINE e == [row |-> r, attempts |-> 0]
             n == Len(buffer)
  <2>1. /\ r \in encoding /\ encoding' = encoding \ {r}
        /\ buffer' = Append(buffer, e) /\ admitted' = admitted \cup {r}
        /\ UNCHANGED <<fresh, writer, stored, acked, lost>>
    BY <1>2 DEF Publish, taskVars
  <2>2. e \in Entry /\ e.row = r /\ e.attempts = 0
    BY LogSinkAssumption DEF Entry
  <2>3. n \in Nat /\ buffer \in Seq(Entry)
    BY OwnedIs DEF RowsInv, RowTypes
  <2> HIDE DEF e
  <2>4. /\ buffer' \in Seq(Entry) /\ Len(buffer') = n + 1
        /\ \A i \in 1 .. n : buffer'[i] = buffer[i]
        /\ buffer'[n + 1] = e
    BY <2>1, <2>2, <2>3, AppendProperties
  <2>5. RowsOf(buffer') = {buffer'[i].row : i \in 1 .. n + 1} /\ DOMAIN buffer' = 1 .. n + 1
    BY <2>4, QueueIs
  <2>6. RowsOf(buffer) = {buffer[i].row : i \in 1 .. n}
    BY OwnedIs
  <2> HIDE DEF n
  <2>7. \A i \in 1 .. n + 1 : i \in 1 .. n \/ i = n + 1
    BY <2>3
  <2>8. (\A i \in 1 .. n : i \in 1 .. n + 1) /\ n + 1 \in 1 .. n + 1
    BY <2>3
  <2>9. RowsOf(buffer') = RowsOf(buffer) \cup {r}
    BY <2>2, <2>4, <2>5, <2>6, <2>7, <2>8
  <2>10. r \notin RowsOf(buffer) /\ r \notin acked /\ r \notin lost /\ r \notin fresh /\ stored[r] = 0
    BY <2>1 DEF RowsInv, OutsideIsOutside, Account
  <2>11. RowTypes'
    <3>1. IsFiniteSet(encoding')
      BY <2>1, FS_RemoveElement DEF RowsInv, RowTypes
    <3> QED
      BY <2>1, <2>4, <3>1 DEF RowsInv, RowTypes
  <2>12. OutsideIsOutside'
    BY <2>1, <2>10 DEF RowsInv, OutsideIsOutside
  <2>13. Account'
    <3>1. \A i, j \in 1 .. n : buffer[i].row = buffer[j].row => i = j
      BY OwnedIs DEF RowsInv, Account, n
    <3>2. \A i \in 1 .. n : buffer[i].row # r
      BY <2>6, <2>10
    <3>3. \A i, j \in 1 .. n + 1 : buffer'[i].row = buffer'[j].row => i = j
      BY <2>2, <2>4, <2>7, <3>1, <3>2
    <3>4. /\ admitted' = acked' \cup lost' \cup RowsOf(buffer')
          /\ acked' \cap lost' = {}
          /\ (acked' \cup lost') \cap RowsOf(buffer') = {}
      BY <2>1, <2>9, <2>10 DEF RowsInv, Account
    <3>5. (\A x \in acked' : stored'[x] >= 1) /\ \A x \in Row : stored'[x] <= MaxAttempts
      BY <2>1 DEF RowsInv, Account
    <3>6. DOMAIN buffer' = 1 .. n + 1
      BY <2>5
    <3> HIDE DEF RowsOf
    <3> QED
      BY <3>3, <3>4, <3>5, <3>6, Zenon DEF Account, RowsOf
  <2>14. WriterIsOfQueue'
    <3>1. Len(writer.batch) \in Nat /\ Len(writer.batch) <= n
      BY OwnedIs DEF RowsInv, WriterIsOfQueue, n
    <3>2. \A i \in 1 .. Len(writer.batch) : i \in 1 .. n /\ buffer'[i] = buffer[i]
      BY <2>3, <2>4, <3>1
    <3>3. Len(writer.batch) <= n + 1
      BY <2>3, <3>1
    <3> QED
      BY <2>1, <2>4, <3>2, <3>3 DEF RowsInv, WriterIsOfQueue
  <2>15. AttemptsCover'
    <3>1. Len(writer.batch) \in Nat /\ Len(writer.batch) <= n
      BY OwnedIs DEF RowsInv, WriterIsOfQueue, n
    <3>2. ASSUME NEW i \in 1 .. n + 1
          PROVE  /\ stored[buffer'[i].row] <= buffer'[i].attempts
                 /\ i <= Len(writer.batch) /\ ~writer.committed =>
                      stored[buffer'[i].row] < buffer'[i].attempts
      <4>1. CASE i \in 1 .. n
        <5>1. buffer'[i] = buffer[i]
          BY <2>4, <4>1
        <5> QED
          BY <4>1, <5>1 DEF RowsInv, AttemptsCover, n
      <4>2. CASE i = n + 1
        BY <2>2, <2>3, <2>4, <2>10, <3>1, <4>2
      <4> QED
        BY <2>7, <4>1, <4>2
    <3> QED
      BY <2>1, <2>4, <3>2 DEF AttemptsCover
  <2>16. WithinCapacity'
    <3>1. Cardinality(encoding') = Cardinality(encoding) - 1
      BY <2>1, FS_RemoveElement DEF RowsInv, RowTypes
    <3>2. Cardinality(encoding) \in Nat
      BY FS_CardinalityType DEF RowsInv, RowTypes
    <3>3. n + Cardinality(encoding) <= MaxOwnedRows
      BY DEF RowsInv, WithinCapacity, n
    <3> QED
      BY <2>3, <2>4, <3>1, <3>2, <3>3, LogSinkAssumption DEF WithinCapacity
  <2> QED
    BY <2>11, <2>12, <2>13, <2>14, <2>15, <2>16 DEF RowsInv
<1> QED
  BY <1>1, <1>2

\* A commit writes the rows of the batch, each against the attempt it spent.
LEMMA CommitMoves ==
  ASSUME RowsInv, WriterCommits
  PROVE  RowsInv'
<1> DEFINE n == Len(writer.batch)
<1>1. /\ writer.task \in Live /\ ~writer.committed
      /\ writer' = [writer EXCEPT !.committed = TRUE]
      /\ stored' = [r \in Row |-> IF r \in RowsOf(writer.batch) THEN stored[r] + 1 ELSE stored[r]]
      /\ UNCHANGED <<fresh, encoding, buffer, admitted, acked, lost>>
  BY DEF WriterCommits, lifeVars
<1>2. stored \in [Row -> Nat]
  BY DEF RowsInv, RowTypes
<1>3. /\ n \in Nat /\ Len(buffer) \in Nat /\ n <= Len(buffer)
      /\ \A i \in 1 .. Len(buffer) : buffer[i].row \in Row
      /\ \A i \in 1 .. Len(buffer) : buffer[i].row \in RowsOf(buffer)
      /\ \A i \in 1 .. Len(buffer) : buffer[i].attempts \in 0 .. MaxAttempts
      /\ RowsOf(writer.batch) = {buffer[i].row : i \in 1 .. n}
      /\ RowsOf(buffer) = {buffer[i].row : i \in 1 .. Len(buffer)}
  BY OwnedIs DEF RowsInv, WriterIsOfQueue
<1>4. \A i, j \in 1 .. Len(buffer) : buffer[i].row = buffer[j].row => i = j
  BY OwnedIs DEF RowsInv, Account
<1>5. /\ writer'.task = writer.task /\ writer'.batch = writer.batch /\ writer'.committed = TRUE
      /\ writer'.generation = writer.generation
      /\ writer' \in [task : {"none"} \cup Live \cup Ended, batch : Seq(Entry), committed : BOOLEAN,
                 generation : 0..MaxGeneration]
  BY <1>1 DEF RowsInv, RowTypes
<1> HIDE DEF n
<1>6. RowsOf(writer.batch) \subseteq RowsOf(buffer)
  <2>1. \A i \in 1 .. n : i \in 1 .. Len(buffer)
    BY <1>3
  <2> QED
    BY <1>3, <2>1
<1>7. /\ \A r \in Row : r \notin RowsOf(writer.batch) => stored'[r] = stored[r]
      /\ \A r \in Row : r \in RowsOf(writer.batch) => stored'[r] = stored[r] + 1
      /\ \A r \in Row : stored'[r] \in Nat /\ stored'[r] >= stored[r]
      /\ stored' \in [Row -> Nat]
  BY <1>1, <1>2
<1>8. ASSUME NEW i \in 1 .. Len(buffer)
      PROVE  /\ stored'[buffer[i].row] <= buffer[i].attempts
             /\ i <= n => stored'[buffer[i].row] >= 1
  <2>1. stored[buffer[i].row] <= buffer[i].attempts /\ (i <= n => stored[buffer[i].row] < buffer[i].attempts)
    BY <1>1 DEF RowsInv, AttemptsCover, n
  <2>2. CASE i <= n
    <3>1. i \in 1 .. n
      BY <1>3, <2>2
    <3>2. stored'[buffer[i].row] = stored[buffer[i].row] + 1
      BY <1>3, <1>7, <3>1
    <3> QED
      BY <1>2, <1>3, <2>1, <2>2, <3>2
  <2>3. CASE ~(i <= n)
    <3>1. \A j \in 1 .. n : buffer[j].row # buffer[i].row
      <4> SUFFICES ASSUME NEW j \in 1 .. n, buffer[j].row = buffer[i].row
                   PROVE  FALSE
        OBVIOUS
      <4>1. j \in 1 .. Len(buffer) /\ j # i
        BY <1>3, <2>3
      <4> QED
        BY <1>4, <4>1
    <3>2. stored'[buffer[i].row] = stored[buffer[i].row]
      BY <1>3, <1>7, <3>1
    <3> QED
      BY <2>1, <2>3, <3>2
  <2> QED
    BY <2>2, <2>3
<1>9. RowTypes'
  BY <1>1, <1>5, <1>7 DEF RowsInv, RowTypes
<1>10. OutsideIsOutside'
  <2>1. \A r \in fresh \cup encoding : r \in Row /\ r \notin RowsOf(buffer) /\ stored[r] = 0
    BY DEF RowsInv, RowTypes, OutsideIsOutside, Account
  <2>2. \A r \in fresh \cup encoding : stored'[r] = 0
    BY <1>6, <1>7, <2>1
  <2> QED
    BY <1>1, <2>2 DEF RowsInv, OutsideIsOutside
<1>11. Account'
  <2>1. \A r \in acked : stored'[r] >= 1
    <3>1. \A r \in acked : r \in Row /\ stored[r] >= 1
      BY DEF RowsInv, RowTypes, Account
    <3> QED
      BY <1>2, <1>7, <3>1
  <2>2. ASSUME NEW r \in Row
        PROVE  stored'[r] <= MaxAttempts
    <3>1. CASE r \in RowsOf(writer.batch)
      <4>1. PICK i \in 1 .. n : buffer[i].row = r
        BY <1>3, <3>1
      <4>2. i \in 1 .. Len(buffer)
        BY <1>3
      <4>3. stored'[r] <= buffer[i].attempts /\ buffer[i].attempts \in 0 .. MaxAttempts
        BY <1>3, <1>8, <4>1, <4>2
      <4> QED
        BY <1>7, <4>3, LogSinkAssumption
    <3>2. CASE r \notin RowsOf(writer.batch)
      BY <1>7, <3>2 DEF RowsInv, Account
    <3> QED
      BY <3>1, <3>2
  <2>3. RowsOf(buffer)' = RowsOf(buffer)
    BY <1>1 DEF RowsOf
  <2> QED
    BY <1>1, <2>1, <2>2, <2>3 DEF RowsInv, Account
<1>12. WriterIsOfQueue'
  <2>1. writer'.task # "none"
    BY <1>1, <1>5 DEF Live
  <2>2. \A i \in 1 .. n : i \in 1 .. Len(buffer) /\ i <= n
    BY <1>3
  <2>3. \A i \in 1 .. n : stored'[buffer[i].row] >= 1
    BY <1>8, <2>2
  <2> QED
    BY <1>1, <1>5, <2>1, <2>3 DEF RowsInv, WriterIsOfQueue, n
<1>13. AttemptsCover'
  BY <1>1, <1>5, <1>8 DEF AttemptsCover
<1>14. WithinCapacity'
  BY <1>1 DEF RowsInv, WithinCapacity
<1> QED
  BY <1>9, <1>10, <1>11, <1>12, <1>13, <1>14 DEF RowsInv

\* A writer that ends, or is asked to, still works on the same rows.
LEMMA WriterTurns ==
  ASSUME RowsInv, writer.task \in Live,
         NEW task \in Live \cup Ended, task = "ok" => writer.committed,
         writer' = [writer EXCEPT !.task = task],
         UNCHANGED <<fresh, encoding, buffer, stored, admitted, acked, lost>>
  PROVE  RowsInv'
<1>1. /\ writer'.task = task /\ writer'.batch = writer.batch
      /\ writer'.committed = writer.committed /\ writer'.generation = writer.generation
      /\ writer' \in [task : {"none"} \cup Live \cup Ended, batch : Seq(Entry), committed : BOOLEAN,
                 generation : 0..MaxGeneration]
  BY DEF RowsInv, RowTypes
<1>2. RowTypes'
  BY <1>1 DEF RowsInv, RowTypes
<1>3. OutsideIsOutside' /\ Account' /\ WithinCapacity'
  BY DEF RowsInv, OutsideIsOutside, Account, WithinCapacity, RowsOf
<1>4. task # "none"
  BY DEF Live, Ended
<1>5. WriterIsOfQueue'
  BY <1>1, <1>4 DEF RowsInv, WriterIsOfQueue
<1>6. AttemptsCover'
  BY <1>1 DEF RowsInv, AttemptsCover
<1> QED
  BY <1>2, <1>3, <1>5, <1>6 DEF RowsInv

\* Without a writer nothing is claimed.
LEMMA NoWriterIs ==
  /\ NoWriter \in [task : {"none"} \cup Live \cup Ended, batch : Seq(Entry), committed : BOOLEAN,
                   generation : 0..MaxGeneration]
  /\ NoWriter.task = "none" /\ NoWriter.batch = <<>> /\ Len(NoWriter.batch) = 0
  /\ NoWriter.committed = FALSE
<1>1. <<>> \in Seq(Entry) /\ Len(<<>>) = 0 /\ 0 \in 0 .. MaxGeneration
  BY LogSinkAssumption
<1> QED
  BY <1>1 DEF NoWriter

\* The rows of a writer that has ended leave the head of the queue together:
\* acknowledged if they are committed, or lost.
LEMMA BatchLeaves ==
  ASSUME RowsInv, writer' = NoWriter, buffer' = DropHead(Len(writer.batch)),
         UNCHANGED <<fresh, encoding, stored, admitted>>,
         \/ /\ writer.committed
            /\ acked' = acked \cup RowsOf(writer.batch)
            /\ lost' = lost
         \/ /\ lost' = lost \cup RowsOf(writer.batch)
            /\ acked' = acked
  PROVE  RowsInv'
<1> DEFINE n == Len(writer.batch)
<1>1. /\ n \in Nat /\ Len(buffer) \in Nat /\ n <= Len(buffer)
      /\ \A i \in 1 .. Len(buffer) : buffer[i] \in Entry
  BY OwnedIs DEF RowsInv, WriterIsOfQueue
<1>2. /\ buffer' \in Seq(Entry)
      /\ Len(buffer') = Len(buffer) - n
      /\ \A i \in 1 .. Len(buffer') : buffer'[i] = buffer[n + i] /\ n + i \in 1 .. Len(buffer)
      /\ RowsOf(buffer) = RowsOf(writer.batch) \cup RowsOf(buffer')
      /\ RowsOf(writer.batch) \cap RowsOf(buffer') = {}
  BY HeadDropped
<1>3. RowsOf(buffer)' = RowsOf(buffer')
  BY DEF RowsOf
<1>4. RowsOf(writer.batch) \subseteq Row
  BY QueueIs DEF RowsInv, RowTypes
<1>5. DOMAIN buffer' = 1 .. Len(buffer') /\ Len(buffer') \in Nat
  BY <1>2, QueueIs
<1>6. RowsOf(writer.batch) = {buffer[i].row : i \in 1 .. n}
  BY OwnedIs
<1> HIDE DEF n
<1>7. RowTypes'
  BY <1>2, <1>4, NoWriterIs DEF RowsInv, RowTypes
<1>8. OutsideIsOutside'
  BY DEF RowsInv, OutsideIsOutside
<1>9. Account'
  <2>1. /\ admitted' = acked' \cup lost' \cup RowsOf(buffer')
        /\ acked' \cap lost' = {}
        /\ (acked' \cup lost') \cap RowsOf(buffer') = {}
    BY <1>2 DEF RowsInv, Account
  <2>2. ASSUME NEW i \in DOMAIN buffer', NEW j \in DOMAIN buffer', buffer'[i].row = buffer'[j].row
        PROVE  i = j
    <3>1. /\ i \in 1 .. Len(buffer') /\ j \in 1 .. Len(buffer')
          /\ n + i \in 1 .. Len(buffer) /\ n + j \in 1 .. Len(buffer)
          /\ buffer[n + i].row = buffer[n + j].row
      BY <1>2, <1>5, <2>2
    <3>2. n + i = n + j
      BY <3>1, OwnedIs DEF RowsInv, Account
    <3> QED
      BY <1>1, <1>5, <3>1, <3>2
  <2>3. \A r \in acked' : stored'[r] >= 1
    <3>1. \A r \in acked : stored[r] >= 1
      BY DEF RowsInv, Account
    <3>2. writer.committed => \A r \in RowsOf(writer.batch) : stored[r] >= 1
      BY <1>6 DEF RowsInv, WriterIsOfQueue, n
    <3> QED
      BY <3>1, <3>2
  <2>4. \A r \in Row : stored'[r] <= MaxAttempts
    BY DEF RowsInv, Account
  <2> QED
    BY <1>3, <2>1, <2>2, <2>3, <2>4 DEF Account
<1>10. WriterIsOfQueue'
  BY <1>5, NoWriterIs DEF WriterIsOfQueue
<1>11. AttemptsCover'
  <2> SUFFICES ASSUME NEW i \in 1 .. Len(buffer')
               PROVE  /\ stored[buffer'[i].row] <= buffer'[i].attempts
                      /\ ~(i <= Len(NoWriter.batch))
    BY DEF AttemptsCover
  <2>1. buffer'[i] = buffer[n + i] /\ n + i \in 1 .. Len(buffer)
    BY <1>2
  <2>2. stored[buffer[n + i].row] <= buffer[n + i].attempts
    BY <2>1 DEF RowsInv, AttemptsCover
  <2> QED
    BY <2>1, <2>2, NoWriterIs, <1>5
<1>12. WithinCapacity'
  <2>1. Cardinality(encoding) \in Nat /\ Len(buffer) + Cardinality(encoding) <= MaxOwnedRows
    BY FS_CardinalityType DEF RowsInv, RowTypes, WithinCapacity
  <2> QED
    BY <1>1, <1>2, <2>1, LogSinkAssumption DEF WithinCapacity
<1> QED
  BY <1>7, <1>8, <1>9, <1>10, <1>11, <1>12 DEF RowsInv

\* _settle_inflight: the batch leaves, or stays queued for another attempt.
LEMMA SettleMoves ==
  ASSUME RowsInv, SettleInflight
  PROVE  RowsInv'
<1>1. writer' = NoWriter /\ UNCHANGED <<fresh, encoding, stored, admitted>> /\ writer.task \in Ended
  BY DEF SettleInflight, lifeVars
<1>2. CASE writer.task = "ok"
  <2>1. buffer' = DropHead(Len(writer.batch)) /\ acked' = acked \cup RowsOf(writer.batch) /\ lost' = lost
    BY <1>2 DEF SettleInflight
  <2>2. writer.committed
    BY <1>2 DEF RowsInv, WriterIsOfQueue
  <2> QED
    BY <1>1, <2>1, <2>2, BatchLeaves
<1>3. CASE writer.task # "ok" /\ closing
  <2>1. buffer' = DropHead(Len(writer.batch)) /\ lost' = lost \cup RowsOf(writer.batch) /\ acked' = acked
    BY <1>3 DEF SettleInflight
  <2> QED
    BY <1>1, <2>1, BatchLeaves
<1>4. CASE writer.task # "ok" /\ ~closing
  <2>1. UNCHANGED <<buffer, acked, lost>>
    BY <1>4 DEF SettleInflight
  <2>2. RowTypes' /\ OutsideIsOutside' /\ Account' /\ WithinCapacity'
    BY <1>1, <2>1, NoWriterIs
    DEF RowsInv, RowTypes, OutsideIsOutside, Account, WithinCapacity, RowsOf
  <2>3. Len(buffer) \in Nat
    BY OwnedIs
  <2>4. WriterIsOfQueue'
    BY <1>1, <2>1, <2>3, NoWriterIs DEF WriterIsOfQueue
  <2>5. AttemptsCover'
    <3>1. \A i \in 1 .. Len(buffer) : ~(i <= 0)
      BY <2>3
    <3> QED
      BY <1>1, <2>1, <3>1, NoWriterIs DEF RowsInv, AttemptsCover
  <2> QED
    BY <2>2, <2>4, <2>5 DEF RowsInv
<1> QED
  BY <1>2, <1>3, <1>4

\* _claim_batch and the start of a writer: rows past their age or attempts are
\* lost, the others keep their order.
LEMMA StartMoves ==
  ASSUME RowsInv, LifeTypes, NEW aged, StartWriter(aged), UNCHANGED <<fresh, encoding>>
  PROVE  RowsInv'
<1>1. PICK order \in Orders(Kept(aged)) :
        /\ writer = NoWriter
        /\ buffer' = Claimed(order).queue
        /\ lost' = lost \cup (RowsOf(buffer) \ RowsOf(Claimed(order).queue))
        /\ writer' = WriterOf(Claimed(order))
        /\ UNCHANGED <<stored, admitted, acked>>
  BY DEF StartWriter
<1> DEFINE n == Claimed(order).batch
<1>2. /\ buffer' \in Seq(Entry)
      /\ Len(buffer') <= Len(buffer)
      /\ n \in Nat /\ n <= Len(buffer')
      /\ \A i \in 1 .. Len(buffer') :
           /\ order[i] \in 1 .. Len(buffer)
           /\ buffer'[i].row = buffer[order[i]].row
           /\ buffer'[i].attempts = buffer[order[i]].attempts + (IF i <= n THEN 1 ELSE 0)
      /\ \A i, j \in 1 .. Len(buffer') : order[i] = order[j] => i = j
      /\ RowsOf(buffer') \subseteq RowsOf(buffer)
  BY <1>1, ClaimIs
<1>3. /\ Len(buffer) \in Nat
      /\ \A i \in 1 .. Len(buffer) : buffer[i].row \in Row /\ buffer[i].attempts \in 0 .. MaxAttempts
      /\ RowsOf(buffer) \subseteq Row
  BY OwnedIs
<1>4. DOMAIN buffer' = 1 .. Len(buffer') /\ Len(buffer') \in Nat
  BY <1>2, QueueIs
<1>5. /\ writer'.committed = FALSE /\ writer'.task # "ok" /\ (writer'.task = "none" => writer' = NoWriter)
      /\ writer'.batch \in Seq(Entry) /\ Len(writer'.batch) = n
      /\ \A i \in 1 .. n : writer'.batch[i] = buffer'[i]
      /\ writer' \in [task : {"none"} \cup Live \cup Ended, batch : Seq(Entry), committed : BOOLEAN,
                   generation : 0..MaxGeneration]
  <2>1. CASE n = 0
    <3>1. writer' = NoWriter
      BY <1>1, <2>1 DEF WriterOf
    <3>2. \A i \in 1 .. n : FALSE
      BY <2>1
    <3> HIDE DEF n
    <3> QED
      BY <2>1, <3>1, <3>2, NoWriterIs
  <2>2. CASE n # 0
    <3> DEFINE b == SubSeq(buffer', 1, n)
    <3>1. writer' = [task |-> "running", batch |-> b, committed |-> FALSE,
                     generation |-> owner.generation]
      BY <1>1, <2>2 DEF WriterOf
    <3>2. owner.generation \in 0 .. MaxGeneration
      BY DEF LifeTypes
    <3> HIDE DEF n
    <3>3. b \in Seq(Entry) /\ Len(b) = n /\ \A i \in 1 .. n : b[i] = buffer'[i]
      BY <1>2, Cut
    <3> HIDE DEF b
    <3> QED
      BY <3>1, <3>2, <3>3 DEF Live
  <2> QED
    BY <2>1, <2>2
<1> HIDE DEF n
<1>6. RowTypes'
  BY <1>1, <1>2, <1>3, <1>5 DEF RowsInv, RowTypes
<1>7. OutsideIsOutside'
  BY <1>1 DEF RowsInv, OutsideIsOutside
<1>8. Account'
  <2>1. RowsOf(buffer)' = RowsOf(buffer')
    BY DEF RowsOf
  <2>2. /\ admitted' = acked' \cup lost' \cup RowsOf(buffer')
        /\ acked' \cap lost' = {}
        /\ (acked' \cup lost') \cap RowsOf(buffer') = {}
    BY <1>1, <1>2 DEF RowsInv, Account
  <2>3. ASSUME NEW i \in DOMAIN buffer', NEW j \in DOMAIN buffer', buffer'[i].row = buffer'[j].row
        PROVE  i = j
    <3>1. /\ order[i] \in 1 .. Len(buffer) /\ order[j] \in 1 .. Len(buffer)
          /\ buffer[order[i]].row = buffer[order[j]].row
      BY <1>2, <1>4, <2>3
    <3>2. order[i] = order[j]
      BY <3>1, OwnedIs DEF RowsInv, Account
    <3> QED
      BY <1>2, <1>4, <3>2
  <2> QED
    BY <1>1, <2>1, <2>2, <2>3 DEF RowsInv, Account
<1>9. WriterIsOfQueue'
  BY <1>2, <1>5 DEF WriterIsOfQueue
<1>10. AttemptsCover'
  <2> SUFFICES ASSUME NEW i \in 1 .. Len(buffer')
               PROVE  /\ stored[buffer'[i].row] <= buffer'[i].attempts
                      /\ i <= n => stored[buffer'[i].row] < buffer'[i].attempts
    BY <1>1, <1>5 DEF AttemptsCover
  <2>1. /\ order[i] \in 1 .. Len(buffer)
        /\ buffer'[i].row = buffer[order[i]].row
        /\ buffer'[i].attempts = buffer[order[i]].attempts + (IF i <= n THEN 1 ELSE 0)
    BY <1>2
  <2>2. stored[buffer[order[i]].row] <= buffer[order[i]].attempts
    BY <2>1 DEF RowsInv, AttemptsCover
  <2>3. stored[buffer[order[i]].row] \in Nat /\ buffer[order[i]].attempts \in Nat
    BY <1>3, <2>1 DEF RowsInv, RowTypes
  <2> QED
    BY <2>1, <2>2, <2>3
<1>11. WithinCapacity'
  <2>1. Cardinality(encoding) \in Nat /\ Len(buffer) + Cardinality(encoding) <= MaxOwnedRows
    BY FS_CardinalityType DEF RowsInv, RowTypes, WithinCapacity
  <2> QED
    BY <1>2, <1>3, <1>4, <2>1, LogSinkAssumption DEF WithinCapacity
<1> QED
  BY <1>6, <1>7, <1>8, <1>9, <1>10, <1>11 DEF RowsInv

\* A shutdown settles: what the queue still holds is lost.
LEMMA SettlesMoves ==
  ASSUME RowsInv, Settles
  PROVE  RowsInv'
<1>1. /\ writer = NoWriter /\ encoding = {} /\ buffer' = <<>> /\ lost' = lost \cup RowsOf(buffer)
      /\ UNCHANGED <<fresh, encoding, writer, stored, admitted, acked>>
  BY DEF Settles, lifeVars
<1>2. <<>> \in Seq(Entry) /\ Len(<<>>) = 0 /\ RowsOf(<<>>) = {}
  BY DEF RowsOf
<1>3. RowsOf(buffer)' = {}
  BY <1>1, <1>2 DEF RowsOf
<1>4. RowsOf(buffer) \subseteq Row
  BY QueueIs DEF RowsInv, RowTypes
<1>5. RowTypes'
  BY <1>1, <1>2, <1>4 DEF RowsInv, RowTypes
<1>6. OutsideIsOutside'
  BY <1>1 DEF RowsInv, OutsideIsOutside
<1>7. Account'
  <2>1. DOMAIN buffer' = {}
    BY <1>1
  <2> QED
    BY <1>1, <1>3, <2>1 DEF RowsInv, Account
<1>8. WriterIsOfQueue' /\ AttemptsCover'
  BY <1>1, <1>2, NoWriterIs DEF WriterIsOfQueue, AttemptsCover
<1>9. WithinCapacity'
  BY <1>1, <1>2, FS_EmptySet, LogSinkAssumption DEF WithinCapacity
<1> QED
  BY <1>5, <1>6, <1>7, <1>8, <1>9 DEF RowsInv

\* Of all actions these move rows.
LEMMA RowsKept == RowsInv /\ LifeTypes /\ [Next]_vars => RowsInv'
<1> SUFFICES ASSUME RowsInv, LifeTypes, [Next]_vars
             PROVE  RowsInv'
  OBVIOUS
<1> USE DEF lifeVars, rowVars, taskVars
<1>1. CASE Produce
  <2>1. PICK r \in Row : Reserve(r) \/ Reject(r) \/ Publish(r) \/ EncodingFails(r)
    BY <1>1 DEF Produce
  <2>2. EncodingFails(r) => RowsInv'
    BY EncodingLeaves DEF EncodingFails
  <2> QED
    BY <2>1, <2>2, ReserveMoves, RejectMoves, PublishMoves
<1>2. CASE Lifecycle
  <2>1. UNCHANGED rowsState
    BY <1>2 DEF Lifecycle, Bind, Release, ShutdownUnused, Shutdown, Configure, rowsState
  <2> QED
    BY <2>1, RowsUntouched
<1>3. CASE WriterTask
  <2>1. CASE \E how \in Ended : WriterEnds(how)
    <3>1. PICK how \in Ended : WriterEnds(how)
      BY <2>1
    <3> QED
      BY <3>1, WriterTurns DEF WriterEnds
  <2> QED
    BY <1>3, <2>1, CommitMoves, SettleMoves DEF WriterTask
<1>4. ASSUME CancelWriter, writer.task = "running",
             UNCHANGED <<fresh, encoding, buffer, stored, admitted, acked, lost>>
      PROVE  RowsInv'
  <2>1. writer' = [writer EXCEPT !.task = "cancelling"]
    BY <1>4 DEF CancelWriter, RowsInv, RowTypes
  <2>2. "cancelling" \in Live \cup Ended /\ writer.task \in Live
    BY <1>4 DEF Live
  <2> HIDE DEF CancelWriter
  <2> QED
    BY <1>4, <2>1, <2>2, WriterTurns
<1>5. CASE FlusherReturns
  <2>1. CASE writer.task = "running"
    BY <1>4, <1>5, <2>1 DEF FlusherReturns
  <2>2. CASE writer.task # "running"
    BY <1>5, <2>2, RowsUntouched DEF FlusherReturns, rowsState
  <2> QED
    BY <2>1, <2>2
<1>6. CASE FlusherEnds
  BY <1>6, RowsUntouched DEF FlusherEnds, rowsState
<1>7. CASE \E aged \in SUBSET RowsOf(buffer) : FlusherWakes(aged)
  <2>1. PICK aged \in SUBSET RowsOf(buffer) : FlusherWakes(aged)
    BY <1>7
  <2>2. UNCHANGED <<fresh, encoding>>
    BY <2>1 DEF FlusherWakes
  <2>3. CASE writer = NoWriter
    BY <2>1, <2>2, <2>3, StartMoves DEF FlusherWakes
  <2>4. CASE writer # NoWriter
    BY <2>1, <2>4, RowsUntouched DEF FlusherWakes, rowsState
  <2> QED
    BY <2>3, <2>4
<1>8. CASE \E aged \in SUBSET RowsOf(buffer) : ControllerFlushes(aged)
  <2>1. PICK aged \in SUBSET RowsOf(buffer) : ControllerFlushes(aged)
    BY <1>8
  <2>2. UNCHANGED <<fresh, encoding>>
    BY <2>1 DEF ControllerFlushes
  <2>3. CASE writer = NoWriter
    BY <2>1, <2>2, <2>3, StartMoves DEF ControllerFlushes
  <2>4. CASE writer # NoWriter
    BY <2>1, <2>4, RowsUntouched DEF ControllerFlushes, rowsState
  <2> QED
    BY <2>3, <2>4
<1>9. CASE ControllerCancelsWriter
  BY <1>4, <1>9 DEF ControllerCancelsWriter
<1>10. CASE ControllerCancelsFlusher \/ FlusherLive \/ ControllerLocks \/ ControllerStopsWaiting
            \/ WriterLive \/ Expire
  BY <1>10, RowsUntouched
  DEF ControllerCancelsFlusher, FlusherLive, ControllerLocks, ControllerStopsWaiting, WriterLive, Expire,
      ControllerFails, rowsState
<1>11. CASE Settles
  BY <1>11, SettlesMoves
<1>12. CASE UNCHANGED vars
  BY <1>12, RowsUntouched DEF vars, rowsState
<1> QED
  BY <1>1, <1>2, <1>3, <1>5, <1>6, <1>7, <1>8, <1>9, <1>10, <1>11, <1>12
  DEF Next, FlusherTask, Controller

-----------------------------------------------------------------------------
(***************************************************************************)
(* The life of the sink: one lemma per group of actions.                   *)
(***************************************************************************)

\* Producers: only an open sink takes rows in.
LEMMA ProduceLives == LifeInv /\ Produce => LifeInv'
<1> SUFFICES ASSUME LifeInv, NEW r \in Row, Reserve(r) \/ Reject(r) \/ Publish(r) \/ EncodingFails(r)
             PROVE  LifeInv'
  BY DEF Produce
<1>1. UNCHANGED <<closing, required, owner, flusher, lock, writer, controller, expired>>
  BY DEF Reserve, Reject, Publish, EncodingFails, taskVars
<1>2. LifeTypes' /\ ShutdownOrder'
  BY <1>1 DEF LifeInv, LifeTypes, ShutdownOrder
<1>3. SettledIsQuiescent'
  <2> SUFFICES ASSUME owner.state \in {"IDLE", "BOUND_READY", "SETTLED"}
               PROVE  /\ writer' = NoWriter /\ buffer' = <<>> /\ encoding' = {}
                      /\ flusher' \in {"none", "done"}
    BY <1>1 DEF SettledIsQuiescent
  <2>1. closing /\ writer = NoWriter /\ buffer = <<>> /\ encoding = {} /\ flusher \in {"none", "done"}
    BY DEF LifeInv, ShutdownOrder, SettledIsQuiescent
  <2> QED
    BY <1>1, <2>1 DEF Reserve, Reject, Publish, EncodingFails
<1> QED
  BY <1>2, <1>3 DEF LifeInv

\* Binding, configuring and the beginning of a shutdown.
LEMMA LifecycleLives == LifeInv /\ Lifecycle => LifeInv'
<1> SUFFICES ASSUME LifeInv, Lifecycle
             PROVE  LifeInv'
  OBVIOUS
<1> USE DEF LifeInv, LifeTypes, ShutdownOrder, SettledIsQuiescent, State
<1>1. CASE Bind
  <2>1. owner.generation + 1 \in 0 .. MaxGeneration
    BY <1>1, LogSinkAssumption DEF Bind
  <2> QED
    BY <1>1, <2>1 DEF Bind
<1>2. CASE Release
  BY <1>2 DEF Release, taskVars
<1>3. CASE ShutdownUnused
  BY <1>3 DEF ShutdownUnused, taskVars
<1>4. CASE Shutdown
  BY <1>4 DEF Shutdown
<1>5. ASSUME NEW s \in {"PRELOOP", "RUNNING"}, Configure(s)
      PROVE  LifeInv'
  <2> DEFINE g == IF owner.state \in {"IDLE", "SETTLED"} THEN owner.generation + 1 ELSE owner.generation
  <2>1. g \in 0 .. MaxGeneration
    BY <1>5, LogSinkAssumption DEF Configure
  <2>2. owner' = [owner EXCEPT !.state = s, !.generation = g]
    BY <1>5 DEF Configure
  <2> HIDE DEF g
  <2>3. owner' \in [generation : 0..MaxGeneration, state : State, lease : BOOLEAN] /\ owner'.state = s
    BY <2>1, <2>2
  <2>4. owner.state \in {"IDLE", "SETTLED", "BOUND_READY", "PRELOOP"} /\ closing' = FALSE
    BY <1>5 DEF Configure
  <2>5. controller' \in {"none", "done"}
    BY <1>5, <2>4 DEF Configure
  <2>6. flusher' \in {"none", "sleeping", "waiting", "cancelling", "done"}
        /\ lock' \in {"free", "flusher", "controller"} /\ required' = required /\ expired' = expired
    BY <1>5 DEF Configure
  <2> QED
    BY <2>3, <2>4, <2>5, <2>6
<1> QED
  BY <1>1, <1>2, <1>3, <1>4, <1>5 DEF Lifecycle

\* A writer exists only while the sink is not quiescent.
LEMMA WriterLives == LifeInv /\ WriterTask => LifeInv'
<1> SUFFICES ASSUME LifeInv, WriterTask
             PROVE  LifeInv'
  OBVIOUS
<1>1. UNCHANGED <<closing, required, owner, flusher, lock, controller, expired, encoding>>
  BY DEF WriterTask, WriterCommits, WriterEnds, SettleInflight, lifeVars
<1>2. writer.task \in Live \cup Ended
  BY DEF WriterTask, WriterCommits, WriterEnds, SettleInflight
<1>3. owner.state \notin {"IDLE", "BOUND_READY", "SETTLED"}
  <2>1. writer # NoWriter
    BY <1>2 DEF NoWriter, Live, Ended
  <2> QED
    BY <2>1 DEF LifeInv, SettledIsQuiescent
<1> QED
  BY <1>1, <1>3 DEF LifeInv, LifeTypes, ShutdownOrder, SettledIsQuiescent

\* The flusher does nothing once the sink has settled.
LEMMA FlusherLives == LifeInv /\ FlusherTask => LifeInv'
<1> SUFFICES ASSUME LifeInv, FlusherTask
             PROVE  LifeInv'
  OBVIOUS
<1> USE DEF lifeVars
<1>1. CASE FlusherReturns
  BY <1>1 DEF FlusherReturns, LifeInv, LifeTypes, ShutdownOrder, SettledIsQuiescent
<1>2. CASE FlusherEnds
  BY <1>2 DEF FlusherEnds, LifeInv, LifeTypes, ShutdownOrder, SettledIsQuiescent, rowVars
<1>3. ASSUME NEW aged, FlusherWakes(aged)
      PROVE  LifeInv'
  <2>1. /\ flusher = "sleeping"
        /\ UNCHANGED <<closing, required, owner, controller, expired, encoding>>
        /\ (flusher' = flusher /\ lock' = lock) \/ (flusher' = "waiting" /\ lock' = "flusher")
    <3>1. flusher = "sleeping" /\ UNCHANGED <<closing, required, owner, controller, expired, encoding>>
      BY <1>3 DEF FlusherWakes
    <3>2. IF writer'.task = "none" THEN UNCHANGED <<flusher, lock>>
          ELSE flusher' = "waiting" /\ lock' = "flusher"
      BY <1>3, Zenon DEF FlusherWakes
    <3> QED
      BY <3>1, <3>2
  <2> QED
    BY <2>1 DEF LifeInv, LifeTypes, ShutdownOrder, SettledIsQuiescent
<1> QED
  BY <1>1, <1>2, <1>3 DEF FlusherTask

\* The controller settles a sink that is quiescent, or fences it.
LEMMA ControllerLives == LifeInv /\ (Controller \/ Expire) => LifeInv'
<1> SUFFICES ASSUME LifeInv, Controller \/ Expire
             PROVE  LifeInv'
  OBVIOUS
<1> USE DEF lifeVars, LifeInv, LifeTypes, ShutdownOrder, SettledIsQuiescent, State
<1>1. CASE ControllerCancelsFlusher
  BY <1>1 DEF ControllerCancelsFlusher
<1>2. CASE FlusherLive
  BY <1>2 DEF FlusherLive, ControllerFails
<1>3. CASE ControllerLocks
  BY <1>3 DEF ControllerLocks
<1>4. ASSUME NEW aged, ControllerFlushes(aged)
      PROVE  LifeInv'
  <2>1. /\ controller = "draining" /\ controller' \in {"draining", "waiting"}
        /\ UNCHANGED <<closing, required, owner, flusher, lock, expired>>
    BY <1>4 DEF ControllerFlushes
  <2> QED
    BY <2>1
<1>5. CASE ControllerCancelsWriter
  BY <1>5 DEF ControllerCancelsWriter
<1>6. CASE ControllerStopsWaiting
  BY <1>6 DEF ControllerStopsWaiting
<1>7. CASE Settles
  BY <1>7 DEF Settles, ReadyToSettle
<1>8. CASE WriterLive
  BY <1>8 DEF WriterLive, ControllerFails, ReadyToSettle
<1>9. CASE Expire
  BY <1>9 DEF Expire
<1> QED
  BY <1>1, <1>2, <1>3, <1>4, <1>5, <1>6, <1>7, <1>8, <1>9 DEF Controller

\* Every step keeps the invariant.
LEMMA InvariantKept == IInv /\ [Next]_vars => IInv'
<1> SUFFICES ASSUME IInv, [Next]_vars
             PROVE  IInv'
  OBVIOUS
<1>1. RowsInv /\ LifeInv /\ LifeTypes
  BY DEF IInv, LifeInv
<1>2. RowsInv'
  BY <1>1, RowsKept
<1>3. UNCHANGED vars => LifeInv'
  BY <1>1 DEF vars, LifeInv, LifeTypes, ShutdownOrder, SettledIsQuiescent
<1>4. LifeInv'
  BY <1>1, <1>3, ProduceLives, LifecycleLives, WriterLives, FlusherLives, ControllerLives DEF Next
<1> QED
  BY <1>2, <1>4 DEF IInv

\* The sink before any generation.
LEMMA InvariantInitially == Init => IInv
<1> SUFFICES ASSUME Init
             PROVE  IInv
  OBVIOUS
<1> USE DEF Init
<1>1. <<>> \in Seq(Entry) /\ Len(<<>>) = 0 /\ RowsOf(<<>>) = {} /\ DOMAIN <<>> = {}
  BY DEF RowsOf
<1>2. RowTypes
  BY <1>1, NoWriterIs, FS_EmptySet DEF RowTypes, rowVars
<1>3. OutsideIsOutside /\ Account
  BY <1>1, LogSinkAssumption DEF OutsideIsOutside, Account
<1>4. WriterIsOfQueue /\ AttemptsCover
  BY <1>1, NoWriterIs DEF WriterIsOfQueue, AttemptsCover
<1>5. WithinCapacity
  BY <1>1, FS_EmptySet, LogSinkAssumption DEF WithinCapacity
<1>6. owner \in [generation : 0 .. MaxGeneration, state : State, lease : BOOLEAN]
  BY LogSinkAssumption DEF State
<1>7. LifeTypes
  BY <1>6 DEF LifeTypes
<1>8. ShutdownOrder /\ SettledIsQuiescent
  BY DEF ShutdownOrder, SettledIsQuiescent
<1> QED
  BY <1>2, <1>3, <1>4, <1>5, <1>7, <1>8 DEF IInv, RowsInv, LifeInv

-----------------------------------------------------------------------------
(***************************************************************************)
(* The theorems.                                                           *)
(***************************************************************************)

(***************************************************************************)
(* The invariant holds, and with it every variable keeps its type          *)
(* (the declarations of core/log_sink.py).                                 *)
(***************************************************************************)
THEOREM SinkInvariant == Spec => [](IInv /\ TypeOK)
<1>1. Init => IInv
  BY InvariantInitially
<1>2. IInv /\ [Next]_vars => IInv'
  BY InvariantKept
<1>3. IInv => IInv /\ TypeOK
  BY TypesAre DEF IInv, RowsInv, LifeInv
<1> QED
  BY <1>1, <1>2, <1>3, PTL DEF Spec

(***************************************************************************)
(* Every admitted row is owned, acknowledged or counted as lost, and only  *)
(* one of these; it is acknowledged only once it is committed and written  *)
(* at most once per attempt; the queue keeps to its limit and the writer   *)
(* to its head: for any producers, limits, timeouts and restarts           *)
(* (_claim_batch, _settle_inflight, _acknowledge_batch).                   *)
(***************************************************************************)
THEOREM RowsAreAccounted == Spec => []Conservation
<1>1. IInv => Conservation
  <2> SUFFICES ASSUME IInv
               PROVE  Conservation
    OBVIOUS
  <2>1. DOMAIN writer.batch = 1 .. Len(writer.batch)
    BY OwnedIs DEF IInv
  <2>2. BatchIsHead
    BY <2>1 DEF IInv, RowsInv, WriterIsOfQueue, BatchIsHead
  <2> QED
    BY <2>2 DEF IInv, RowsInv, Account, Conservation
<1> QED
  BY <1>1, SinkInvariant, PTL

(***************************************************************************)
(* A sink that has settled or has not begun has no writer, no row and no   *)
(* flusher left, so the session factory may be disposed of                 *)
(* (shutdown_log_sink, _BindingLease.release).                             *)
(***************************************************************************)
THEOREM SettledSinksAreQuiescent == Spec => []SettledIsQuiescent
<1>1. IInv => SettledIsQuiescent
  BY DEF IInv, LifeInv
<1> QED
  BY <1>1, SinkInvariant, PTL

(***************************************************************************)
(* A writer keeps its batch and its generation to its end, writers follow  *)
(* one another, and none starts once a shutdown has given its outcome      *)
(* (_flush_locked, _settle_inflight).                                      *)
(***************************************************************************)
THEOREM WritersAreInOrder == Spec => WritersInOrder
<1> DEFINE Ordered ==
      /\ writer.task \in Live => writer'.batch = writer.batch /\ writer'.generation = writer.generation
      /\ (writer = NoWriter /\ writer' # NoWriter) => owner.state \in {"RUNNING", "SHUTTING_DOWN"}
<1>1. IInv /\ [Next]_vars => [Ordered]_vars
  <2> SUFFICES ASSUME IInv, Next
               PROVE  Ordered
    OBVIOUS
  <2> USE DEF lifeVars, taskVars
  <2>1. writer \in [task : {"none"} \cup Live \cup Ended, batch : Seq(Entry), committed : BOOLEAN,
                    generation : 0..MaxGeneration]
    BY DEF IInv, RowsInv, RowTypes
  <2>2. NoWriter.task \notin Live \cup Ended
    BY DEF NoWriter, Live, Ended
  <2>3. CASE writer' = writer
    BY <2>3
  <2>4. CASE WriterCommits
    BY <2>1, <2>2, <2>4 DEF WriterCommits
  <2>5. ASSUME NEW how \in Ended, WriterEnds(how)
        PROVE  Ordered
    BY <2>1, <2>2, <2>5 DEF WriterEnds
  <2>6. CASE SettleInflight
    <3>1. writer.task \notin Live /\ writer' = NoWriter
      BY <2>6 DEF SettleInflight, Live, Ended
    <3> QED
      BY <3>1
  <2>7. ASSUME CancelWriter, writer.task = "running"
        PROVE  Ordered
    BY <2>1, <2>2, <2>7 DEF CancelWriter, Live
  <2>8. CASE FlusherReturns
    BY <2>3, <2>7, <2>8 DEF FlusherReturns
  <2>9. ASSUME NEW aged, FlusherWakes(aged)
        PROVE  Ordered
    <3>1. CASE writer = NoWriter
      BY <2>2, <2>9, <3>1 DEF FlusherWakes
    <3>2. CASE writer # NoWriter
      BY <2>3, <2>9, <3>2 DEF FlusherWakes
    <3> QED
      BY <3>1, <3>2
  <2>10. ASSUME NEW aged, ControllerFlushes(aged)
         PROVE  Ordered
    <3>1. owner.state = "SHUTTING_DOWN"
      BY <2>10 DEF ControllerFlushes, IInv, LifeInv, ShutdownOrder
    <3>2. CASE writer = NoWriter
      BY <2>2, <3>1, <3>2
    <3>3. CASE writer # NoWriter
      BY <2>3, <2>10, <3>3 DEF ControllerFlushes
    <3> QED
      BY <3>2, <3>3
  <2>11. CASE ControllerCancelsWriter
    BY <2>7, <2>11 DEF ControllerCancelsWriter
  <2>12. CASE Produce \/ Lifecycle \/ Expire
    BY <2>3, <2>12
    DEF Produce, Reserve, Reject, Publish, EncodingFails, Lifecycle, Bind, Release, ShutdownUnused,
        Shutdown, Configure, Expire
  <2>13. CASE FlusherEnds \/ ControllerCancelsFlusher \/ FlusherLive \/ ControllerLocks
              \/ ControllerStopsWaiting \/ Settles \/ WriterLive
    BY <2>3, <2>13
    DEF FlusherEnds, ControllerCancelsFlusher, FlusherLive, ControllerLocks, ControllerStopsWaiting,
        Settles, WriterLive, ControllerFails
  <2> HIDE DEF Ordered
  <2> QED
    BY <2>4, <2>5, <2>6, <2>8, <2>9, <2>10, <2>11, <2>12, <2>13
    DEF Next, WriterTask, FlusherTask, Controller
<1> QED
  BY <1>1, SinkInvariant, PTL DEF Spec, WritersInOrder

=============================================================================
