------------------------ MODULE ModelLifecycleProofs ------------------------
(***************************************************************************)
(* Proofs about ModelLifecycle, for any numbers of runners, requests,      *)
(* artifacts, checkpoints and faults.                                      *)
(***************************************************************************)
EXTENDS ModelLifecycle, TLAPS

\* What a runner carries, whoever holds the lease: nothing is left over from an
\* earlier run, and a request only after one was claimed.
Proper(c) ==
  /\ c.at \in {"idle", "acquire"} => c.artifact = None
  /\ c.at = "sign" => c.artifact # None
  /\ c.at \in {"idle", "acquire", "begin", "enqueue", "incumbent", "candidate", "claim", "fit", "sign"}
       => c.look = 0
  /\ c.at \in {"idle", "acquire", "begin", "enqueue", "incumbent", "candidate", "claim"}
       => c.request = None
  /\ c.at \in {"review", "score", "read", "retire", "damaged"} /\ c.then # "finish"
       => c.request = None
  /\ c.then = "candidate" =>
       /\ c.request = None
       /\ c.at \in {"review", "score", "read", "publish", "readback", "retire", "damaged", "finish"}

\* A fence of the row belongs to the holder of the lease, so to one runner.
LeaseInv == \A w \in Worker : Proper(worker[w]) /\ (worker[w].fenced => holder = w)

\* Once a cycle has begun under a fence, nothing runs but what its runner claimed.
MyRequests(c) ==
  /\ c.at = "begin" => \A r \in Request : request[r].status = "running" => ~request[r].fenced
  /\ c.at \in UnderLease \cup {"prune"} =>
       \A r \in Request : request[r].status = "running" => r = c.request

RequestInv == OneRunning /\ \A w \in Worker : worker[w].fenced => MyRequests(worker[w])

\* What a candidate or incumbent needs of files is there, and the comparator is protected.
Supported(a) ==
  artifact[a].role \in {"candidate", "incumbent"} =>
    /\ a \in files
    /\ artifact[a].comparator # None =>
         artifact[a].comparator \in files /\ artifact[artifact[a].comparator].role \in Protected

RoleInv == OneOfEachRole /\ \A a \in Artifact : Supported(a)

\* What a fenced runner has in hand is younger than the last reset, and what it
\* reviews is a candidate or an incumbent.
MyArtifact(c) ==
  /\ c.artifact \notin outdated
  /\ c.at \in {"review", "score", "read", "retire"} \/ (c.at = "publish" /\ c.look # 0) =>
       c.artifact \in Artifact /\ artifact[c.artifact].role \in {"candidate", "incumbent"}
  /\ c.at = "readback" /\ c.unmoved /\ c.look = 0 =>
       c.artifact \in Artifact /\ HasRole(c.artifact, "candidate")

\* A checkpoint that is open was not scored, unless a reset has opened it again.
LooksCounted(a) ==
  \A n \in 1..Looks :
    /\ scored[a][n] <= 1
    /\ HasRole(a, "none") => scored[a][n] = 0
    /\ a \notin outdated /\ look[a][n].status = "open" => scored[a][n] = 0

HistoryInv ==
  /\ ResetIsFinal
  /\ \A a \in Artifact : LooksCounted(a)
  /\ \A w \in Worker : worker[w].fenced => MyArtifact(worker[w])

IInv == TypeOK /\ LeaseInv /\ RequestInv /\ RoleInv /\ HistoryInv

-----------------------------------------------------------------------------
(***************************************************************************)
(* What the operators on runners give.                                     *)
(***************************************************************************)
Place == {"idle", "acquire", "begin", "enqueue", "incumbent", "candidate", "review", "score",
          "read", "publish", "readback", "retire", "damaged", "claim", "fit", "sign", "finish",
          "prune", "release"}

\* Two runners that differ in their numbers at most.
Alike(c, d) ==
  /\ c.at = d.at /\ c.incumbent = d.incumbent /\ c.request = d.request
  /\ c.artifact = d.artifact /\ c.look = d.look /\ c.then = d.then

\* The runner changes its place.
LEMMA GotoIs ==
  ASSUME NEW w \in Worker, NEW at \in Place, worker \in [Worker -> WorkerState]
  PROVE  /\ Goto(w, at) \in [Worker -> WorkerState]
         /\ \A v \in Worker : v # w => Goto(w, at)[v] = worker[v]
         /\ Goto(w, at)[w].at = at
         /\ Goto(w, at)[w].fenced <=> worker[w].fenced
         /\ Goto(w, at)[w].unmoved <=> worker[w].unmoved
         /\ Goto(w, at)[w].request = worker[w].request
         /\ Goto(w, at)[w].artifact = worker[w].artifact
         /\ Goto(w, at)[w].look = worker[w].look
         /\ Goto(w, at)[w].then = worker[w].then
<1>1. [worker[w] EXCEPT !.at = at] \in WorkerState
  BY DEF WorkerState, Place
<1> QED
  BY <1>1 DEF Goto, WorkerState

\* A new revision.
LEMMA MovedIs ==
  ASSUME NEW ws \in [Worker -> WorkerState]
  PROVE  /\ Moved(ws) \in [Worker -> WorkerState]
         /\ \A v \in Worker : /\ Alike(Moved(ws)[v], ws[v])
                              /\ Moved(ws)[v].fenced <=> ws[v].fenced
                              /\ ~Moved(ws)[v].unmoved
<1>1. ASSUME NEW v \in Worker
      PROVE  LET c == [ws[v] EXCEPT !.unmoved = FALSE]
             IN  c \in WorkerState /\ Alike(c, ws[v]) /\ (c.fenced <=> ws[v].fenced) /\ ~c.unmoved
  BY ZenonT(40) DEF WorkerState, Alike
<1> QED
  BY <1>1 DEF Moved

\* A new fence.
LEMMA FencedIs ==
  ASSUME NEW ws \in [Worker -> WorkerState]
  PROVE  /\ Fenced(ws) \in [Worker -> WorkerState]
         /\ \A v \in Worker : /\ Alike(Fenced(ws)[v], ws[v])
                              /\ ~Fenced(ws)[v].fenced
                              /\ ~Fenced(ws)[v].unmoved
<1> SUFFICES ASSUME NEW v \in Worker
             PROVE  LET c == [ws[v] EXCEPT !.fenced = FALSE, !.unmoved = FALSE]
                    IN  c \in WorkerState /\ Alike(c, ws[v]) /\ ~c.fenced /\ ~c.unmoved
  BY DEF Fenced
<1> DEFINE c == [ws[v] EXCEPT !.fenced = FALSE]
           d == [c EXCEPT !.unmoved = FALSE]
<1>1. c \in WorkerState /\ Alike(c, ws[v]) /\ ~c.fenced
  BY ZenonT(40) DEF WorkerState, Alike
<1>2. d \in WorkerState /\ Alike(d, c) /\ ~d.unmoved /\ (d.fenced <=> c.fenced)
  <2> HIDE DEF c
  <2> QED
    BY <1>1 DEF WorkerState, Alike
<1>3. [ws[v] EXCEPT !.fenced = FALSE, !.unmoved = FALSE] = d
  BY DEF WorkerState
<1> HIDE DEF c, d
<1> QED
  BY <1>1, <1>2, <1>3 DEF Alike

\* The requests and checkpoints with it.
LEMMA UnfencedIs ==
  ASSUME request \in [Request -> RequestRow], look \in [Artifact -> [1..Looks -> LookRow]]
  PROVE  /\ Unfenced(request) \in [Request -> RequestRow]
         /\ \A r \in Request : /\ Unfenced(request)[r].status = request[r].status
                               /\ ~Unfenced(request)[r].fenced
         /\ LooksUnfenced \in [Artifact -> [1..Looks -> LookRow]]
         /\ \A a \in Artifact : \A n \in 1..Looks :
              LooksUnfenced[a][n].status = look[a][n].status
<1>1. \A r \in Request : [request[r] EXCEPT !.fenced = FALSE] \in RequestRow
  BY DEF RequestRow
<1>2. \A a \in Artifact : \A n \in 1..Looks : [look[a][n] EXCEPT !.fenced = FALSE] \in LookRow
  <2>1. \A a \in Artifact : \A n \in 1..Looks : look[a][n] \in LookRow
    OBVIOUS
  <2> QED
    BY <2>1 DEF LookRow
<1>3. \A a \in Artifact : Unfenced(look[a]) \in [1..Looks -> LookRow]
  BY <1>2 DEF Unfenced
<1>4. /\ Unfenced(request) \in [Request -> RequestRow]
      /\ \A r \in Request : /\ Unfenced(request)[r].status = request[r].status
                            /\ ~Unfenced(request)[r].fenced
  BY <1>1 DEF Unfenced, RequestRow
<1>5. LooksUnfenced \in [Artifact -> [1..Looks -> LookRow]]
  BY <1>3 DEF LooksUnfenced
<1>6. \A a \in Artifact : \A n \in 1..Looks : LooksUnfenced[a][n].status = look[a][n].status
  BY <1>2 DEF LooksUnfenced, Unfenced, LookRow
<1> QED
  BY <1>4, <1>5, <1>6

\* A runner as it was made.
LEMMA IdleIs ==
  /\ Idle \in WorkerState
  /\ Idle.at = "idle" /\ Idle.request = None /\ Idle.artifact = None /\ Idle.look = 0
  /\ Idle.then = "prune" /\ ~Idle.fenced /\ ~Idle.unmoved
  BY LifecycleAssumption DEF Idle, WorkerState

\* A review is over.
LEMMA ReturnIs ==
  ASSUME NEW w \in Worker, NEW ws \in [Worker -> WorkerState]
  PROVE  /\ Return(ws, w) \in [Worker -> WorkerState]
         /\ \A v \in Worker : v # w => Return(ws, w)[v] = ws[v]
         /\ Return(ws, w)[w].at = ws[w].then
         /\ Return(ws, w)[w].fenced <=> ws[w].fenced
         /\ Return(ws, w)[w].request = ws[w].request
         /\ Return(ws, w)[w].artifact = None /\ Return(ws, w)[w].look = 0
         /\ Return(ws, w)[w].then = "prune"
<1> DEFINE c == [ws[w] EXCEPT !.at = ws[w].then, !.artifact = None, !.look = 0]
           d == [c EXCEPT !.then = "prune", !.incumbent = None, !.unmoved = FALSE]
<1>1. /\ c \in WorkerState /\ c.at = ws[w].then /\ c.request = ws[w].request
      /\ c.artifact = None /\ c.look = 0 /\ (c.fenced <=> ws[w].fenced)
  <2> DEFINE b == [ws[w] EXCEPT !.at = ws[w].then]
  <2>1. ws[w].then \in Place
    BY DEF WorkerState, Place
  <2>2. b \in WorkerState /\ b.at = ws[w].then /\ b.request = ws[w].request
        /\ (b.fenced <=> ws[w].fenced)
    BY <2>1 DEF WorkerState, Place
  <2>3. LET e == [b EXCEPT !.artifact = None, !.look = 0]
        IN  e \in WorkerState /\ e.at = b.at /\ e.request = b.request
            /\ e.artifact = None /\ e.look = 0 /\ (e.fenced <=> b.fenced)
    <3>1. 0 \in 0..Looks
      BY LifecycleAssumption
    <3> HIDE DEF b
    <3> QED
      BY <2>2, <3>1 DEF WorkerState
  <2>4. c = [b EXCEPT !.artifact = None, !.look = 0]
    BY DEF WorkerState
  <2> HIDE DEF b, c
  <2> QED
    BY <2>2, <2>3, <2>4
<1>2. /\ d \in WorkerState /\ d.at = c.at /\ d.request = c.request
      /\ d.artifact = c.artifact /\ d.look = c.look /\ (d.fenced <=> c.fenced) /\ d.then = "prune"
  <2> HIDE DEF c
  <2> QED
    BY ZenonT(40), <1>1 DEF WorkerState
<1>3. Return(ws, w) = [ws EXCEPT ![w] = d]
  BY DEF Return, WorkerState
<1> HIDE DEF d
<1> QED
  BY <1>1, <1>2, <1>3

\* A run goes on without its request.
LEMMA ForgetIs ==
  ASSUME NEW w \in Worker, NEW ws \in [Worker -> WorkerState], NEW at \in Place
  PROVE  /\ Forget(ws, w, at) \in [Worker -> WorkerState]
         /\ \A v \in Worker : v # w => Forget(ws, w, at)[v] = ws[v]
         /\ Forget(ws, w, at)[w].at = at
         /\ Forget(ws, w, at)[w].fenced <=> ws[w].fenced
         /\ Forget(ws, w, at)[w].request = None
         /\ Forget(ws, w, at)[w].artifact = None /\ Forget(ws, w, at)[w].look = 0
         /\ Forget(ws, w, at)[w].then = "prune"
<1> DEFINE c == [Idle EXCEPT !.at = at, !.fenced = ws[w].fenced]
<1>1. /\ c \in WorkerState /\ c.at = at /\ c.request = None /\ c.artifact = None /\ c.look = 0
      /\ c.then = "prune" /\ (c.fenced <=> ws[w].fenced)
  BY IdleIs DEF WorkerState, Place
<1>2. Forget(ws, w, at) = [ws EXCEPT ![w] = c]
  BY DEF Forget
<1> HIDE DEF c
<1> QED
  BY <1>1, <1>2

\* The holder of a role is an artifact that has it.
LEMMA TheOneIs ==
  ASSUME NEW role
  PROVE  \/ TheOne(role) \in Artifact /\ HasRole(TheOne(role), role)
         \/ TheOne(role) = None /\ \A a \in Artifact : ~HasRole(a, role)
  BY DEF TheOne

\* A review begins.
LEMMA ReviewingIs ==
  ASSUME NEW w \in Worker, worker \in [Worker -> WorkerState], NEW a \in Artifact,
         NEW then \in {"candidate", "prune"}
  PROVE  /\ Reviewing(w, a, then) \in [Worker -> WorkerState]
         /\ \A v \in Worker : v # w => Reviewing(w, a, then)[v] = worker[v]
         /\ Reviewing(w, a, then)[w].at = "review"
         /\ Reviewing(w, a, then)[w].fenced <=> worker[w].fenced
         /\ Reviewing(w, a, then)[w].request = worker[w].request
         /\ Reviewing(w, a, then)[w].artifact = a
         /\ Reviewing(w, a, then)[w].then = then
<1> DEFINE c == [worker[w] EXCEPT !.at = "review", !.artifact = a]
           d == [c EXCEPT !.look = 0, !.then = then]
<1>1. /\ c \in WorkerState /\ c.at = "review" /\ c.request = worker[w].request
      /\ c.artifact = a /\ (c.fenced <=> worker[w].fenced)
  <2> DEFINE b == [worker[w] EXCEPT !.at = "review"]
  <2>1. /\ b \in WorkerState /\ b.at = "review" /\ b.request = worker[w].request
        /\ (b.fenced <=> worker[w].fenced)
    BY DEF WorkerState
  <2>2. LET e == [b EXCEPT !.artifact = a]
        IN  /\ e \in WorkerState /\ e.at = b.at /\ e.request = b.request
            /\ e.artifact = a /\ (e.fenced <=> b.fenced)
    <3> HIDE DEF b
    <3> QED
      BY <2>1 DEF WorkerState
  <2>3. c = [b EXCEPT !.artifact = a]
    BY DEF WorkerState
  <2> HIDE DEF b, c
  <2> QED
    BY <2>1, <2>2, <2>3
<1>2. /\ d \in WorkerState /\ d.at = c.at /\ d.request = c.request
      /\ d.artifact = c.artifact /\ (d.fenced <=> c.fenced) /\ d.then = then
  <2>1. 0 \in 0..Looks
    BY LifecycleAssumption
  <2> HIDE DEF c
  <2> QED
    BY <1>1, <2>1 DEF WorkerState
<1>3. Reviewing(w, a, then) = [worker EXCEPT ![w] = d]
  BY DEF Reviewing, WorkerState
<1> HIDE DEF d
<1> QED
  BY <1>1, <1>2, <1>3

\* The state to publish against is read.
AtPublish(w) == [worker EXCEPT ![w].at = "publish", ![w].unmoved = TRUE,
                               ![w].incumbent = TheOne("incumbent")]

\* A runner with the state to publish against.
LEMMA AtPublishIs ==
  ASSUME NEW w \in Worker, worker \in [Worker -> WorkerState]
  PROVE  /\ AtPublish(w) \in [Worker -> WorkerState]
         /\ \A v \in Worker : v # w => AtPublish(w)[v] = worker[v]
         /\ AtPublish(w)[w].at = "publish"
         /\ AtPublish(w)[w].fenced <=> worker[w].fenced
         /\ AtPublish(w)[w].request = worker[w].request
         /\ AtPublish(w)[w].artifact = worker[w].artifact
         /\ AtPublish(w)[w].look = worker[w].look
         /\ AtPublish(w)[w].then = worker[w].then
<1> DEFINE c == [worker[w] EXCEPT !.at = "publish", !.unmoved = TRUE]
           d == [c EXCEPT !.incumbent = TheOne("incumbent")]
<1>1. /\ c \in WorkerState /\ c.at = "publish" /\ c.request = worker[w].request
      /\ c.artifact = worker[w].artifact /\ (c.fenced <=> worker[w].fenced)
      /\ c.look = worker[w].look /\ c.then = worker[w].then
  BY ZenonT(40) DEF WorkerState
<1>2. /\ d \in WorkerState /\ d.at = c.at /\ d.request = c.request /\ d.then = c.then
      /\ d.artifact = c.artifact /\ (d.fenced <=> c.fenced) /\ d.look = c.look
  <2>1. TheOne("incumbent") \in Artifact \cup {None}
    BY TheOneIs
  <2> HIDE DEF c
  <2> QED
    BY <1>1, <2>1 DEF WorkerState
<1>3. AtPublish(w) = [worker EXCEPT ![w] = d]
  BY DEF AtPublish, WorkerState
<1> HIDE DEF d
<1> QED
  BY <1>1, <1>2, <1>3

\* After a publication that was not a promotion, its artifact is reviewed.
LEMMA AfterPublicationIs ==
  ASSUME NEW w \in Worker, worker \in [Worker -> WorkerState], ~Promotion(w)
  PROVE  LET ws == AfterPublication(worker, w)
         IN  /\ ws \in [Worker -> WorkerState]
             /\ \A v \in Worker : v # w => ws[v] = worker[v]
             /\ ws[w].at = "review" /\ ws[w].then = "finish"
             /\ ws[w].fenced <=> worker[w].fenced
             /\ ws[w].request = worker[w].request
             /\ ws[w].artifact = worker[w].artifact
<1> DEFINE c == [worker[w] EXCEPT !.at = "review", !.then = "finish"]
           d == [c EXCEPT !.committed = TRUE, !.incumbent = None, !.unmoved = FALSE]
<1>1. /\ c \in WorkerState /\ c.at = "review" /\ c.request = worker[w].request
      /\ c.artifact = worker[w].artifact /\ (c.fenced <=> worker[w].fenced)
      /\ c.then = "finish"
  BY ZenonT(40) DEF WorkerState
<1>2. /\ d \in WorkerState /\ d.at = c.at /\ d.request = c.request /\ d.then = c.then
      /\ d.artifact = c.artifact /\ (d.fenced <=> c.fenced)
  <2> HIDE DEF c
  <2> QED
    BY <1>1 DEF WorkerState
<1>3. AfterPublication(worker, w) = [worker EXCEPT ![w] = d]
  BY DEF AfterPublication, WorkerState
<1> HIDE DEF d
<1> QED
  BY <1>1, <1>2, <1>3

\* A checkpoint is claimed.
LEMMA AtScoreIs ==
  ASSUME NEW w \in Worker, worker \in [Worker -> WorkerState], NEW n \in 1..Looks
  PROVE  LET ws == [worker EXCEPT ![w].at = "score", ![w].look = n]
             d == ws[w]
         IN  /\ ws \in [Worker -> WorkerState]
             /\ \A v \in Worker : v # w => ws[v] = worker[v]
             /\ d.at = "score" /\ d.look = n /\ (d.fenced <=> worker[w].fenced)
             /\ d.request = worker[w].request /\ d.artifact = worker[w].artifact
             /\ d.then = worker[w].then
<1> DEFINE c == [worker[w] EXCEPT !.at = "score"]
           d == [c EXCEPT !.look = n]
<1>1. /\ c \in WorkerState /\ c.at = "score" /\ (c.fenced <=> worker[w].fenced)
      /\ c.request = worker[w].request /\ c.artifact = worker[w].artifact /\ c.then = worker[w].then
  BY DEF WorkerState
<1>2. /\ d \in WorkerState /\ d.at = c.at /\ d.look = n /\ (d.fenced <=> c.fenced)
      /\ d.request = c.request /\ d.artifact = c.artifact /\ d.then = c.then
  <2> HIDE DEF c
  <2> QED
    BY <1>1, LifecycleAssumption DEF WorkerState
<1>3. [worker EXCEPT ![w].at = "score", ![w].look = n] = [worker EXCEPT ![w] = d]
  BY DEF WorkerState
<1> HIDE DEF d
<1> QED
  BY <1>1, <1>2, <1>3

\* A request is claimed.
LEMMA AtFitIs ==
  ASSUME NEW w \in Worker, worker \in [Worker -> WorkerState], NEW r \in Request
  PROVE  LET ws == [worker EXCEPT ![w].at = "fit", ![w].request = r]
             d == ws[w]
         IN  /\ ws \in [Worker -> WorkerState]
             /\ \A v \in Worker : v # w => ws[v] = worker[v]
             /\ d.at = "fit" /\ d.request = r /\ (d.fenced <=> worker[w].fenced)
             /\ d.artifact = worker[w].artifact /\ d.look = worker[w].look /\ d.then = worker[w].then
<1> DEFINE c == [worker[w] EXCEPT !.at = "fit"]
           d == [c EXCEPT !.request = r]
<1>1. /\ c \in WorkerState /\ c.at = "fit" /\ (c.fenced <=> worker[w].fenced)
      /\ c.artifact = worker[w].artifact /\ c.look = worker[w].look /\ c.then = worker[w].then
  BY DEF WorkerState
<1>2. /\ d \in WorkerState /\ d.at = c.at /\ d.request = r /\ (d.fenced <=> c.fenced)
      /\ d.artifact = c.artifact /\ d.look = c.look /\ d.then = c.then
  <2> HIDE DEF c
  <2> QED
    BY <1>1 DEF WorkerState
<1>3. [worker EXCEPT ![w].at = "fit", ![w].request = r] = [worker EXCEPT ![w] = d]
  BY DEF WorkerState
<1> HIDE DEF d
<1> QED
  BY <1>1, <1>2, <1>3

\* An artifact is fitted.
LEMMA AtSignIs ==
  ASSUME NEW w \in Worker, worker \in [Worker -> WorkerState], NEW a \in Artifact
  PROVE  LET ws == [worker EXCEPT ![w].at = "sign", ![w].artifact = a]
             d == ws[w]
         IN  /\ ws \in [Worker -> WorkerState]
             /\ \A v \in Worker : v # w => ws[v] = worker[v]
             /\ d.at = "sign" /\ d.artifact = a /\ (d.fenced <=> worker[w].fenced)
             /\ d.request = worker[w].request /\ d.look = worker[w].look /\ d.then = worker[w].then
<1> DEFINE c == [worker[w] EXCEPT !.at = "sign"]
           d == [c EXCEPT !.artifact = a]
<1>1. /\ c \in WorkerState /\ c.at = "sign" /\ (c.fenced <=> worker[w].fenced)
      /\ c.request = worker[w].request /\ c.look = worker[w].look /\ c.then = worker[w].then
  BY DEF WorkerState
<1>2. /\ d \in WorkerState /\ d.at = c.at /\ d.artifact = a /\ (d.fenced <=> c.fenced)
      /\ d.request = c.request /\ d.look = c.look /\ d.then = c.then
  <2> HIDE DEF c
  <2> QED
    BY <1>1 DEF WorkerState
<1>3. [worker EXCEPT ![w].at = "sign", ![w].artifact = a] = [worker EXCEPT ![w] = d]
  BY DEF WorkerState
<1> HIDE DEF d
<1> QED
  BY <1>1, <1>2, <1>3

\* The review after a publication found damage.
LEMMA AtFinishIs ==
  ASSUME NEW w \in Worker, worker \in [Worker -> WorkerState]
  PROVE  LET ws == [worker EXCEPT ![w].at = "finish", ![w].committed = FALSE]
             d == ws[w]
         IN  /\ ws \in [Worker -> WorkerState]
             /\ \A v \in Worker : v # w => ws[v] = worker[v]
             /\ d.at = "finish" /\ ~d.committed /\ (d.fenced <=> worker[w].fenced)
             /\ d.request = worker[w].request /\ d.artifact = worker[w].artifact
             /\ d.look = worker[w].look /\ d.then = worker[w].then
<1> DEFINE c == [worker[w] EXCEPT !.at = "finish"]
           d == [c EXCEPT !.committed = FALSE]
<1>1. /\ c \in WorkerState /\ c.at = "finish" /\ (c.fenced <=> worker[w].fenced)
      /\ c.request = worker[w].request /\ c.artifact = worker[w].artifact
      /\ c.look = worker[w].look /\ c.then = worker[w].then
  BY DEF WorkerState
<1>2. /\ d \in WorkerState /\ d.at = c.at /\ ~d.committed /\ (d.fenced <=> c.fenced)
      /\ d.request = c.request /\ d.artifact = c.artifact /\ d.look = c.look /\ d.then = c.then
  <2> HIDE DEF c
  <2> QED
    BY <1>1 DEF WorkerState
<1>3. [worker EXCEPT ![w].at = "finish", ![w].committed = FALSE] = [worker EXCEPT ![w] = d]
  BY DEF WorkerState
<1> HIDE DEF d
<1> QED
  BY <1>1, <1>2, <1>3

\* The commit was lost with the publication.
LEMMA NotCommittedIs ==
  ASSUME NEW w \in Worker, worker \in [Worker -> WorkerState]
  PROVE  LET ws == [worker EXCEPT ![w].at = "readback", ![w].unmoved = FALSE]
             d == ws[w]
         IN  /\ ws \in [Worker -> WorkerState]
             /\ \A v \in Worker : v # w => ws[v] = worker[v]
             /\ d.at = "readback" /\ ~d.unmoved /\ (d.fenced <=> worker[w].fenced)
             /\ d.request = worker[w].request /\ d.artifact = worker[w].artifact
             /\ d.look = worker[w].look /\ d.then = worker[w].then
<1> DEFINE c == [worker[w] EXCEPT !.at = "readback"]
           d == [c EXCEPT !.unmoved = FALSE]
<1>1. /\ c \in WorkerState /\ c.at = "readback" /\ (c.fenced <=> worker[w].fenced)
      /\ c.request = worker[w].request /\ c.artifact = worker[w].artifact
      /\ c.look = worker[w].look /\ c.then = worker[w].then
  BY DEF WorkerState
<1>2. /\ d \in WorkerState /\ d.at = c.at /\ ~d.unmoved /\ (d.fenced <=> c.fenced)
      /\ d.request = c.request /\ d.artifact = c.artifact /\ d.look = c.look /\ d.then = c.then
  <2> HIDE DEF c
  <2> QED
    BY <1>1 DEF WorkerState
<1>3. [worker EXCEPT ![w].at = "readback", ![w].unmoved = FALSE] = [worker EXCEPT ![w] = d]
  BY DEF WorkerState
<1> HIDE DEF d
<1> QED
  BY <1>1, <1>2, <1>3

\* One runner gets the new fence, or the new revision.
LEMMA GivenIs ==
  ASSUME NEW w \in Worker, NEW ws \in [Worker -> WorkerState]
  PROVE  /\ [ws EXCEPT ![w].fenced = TRUE] \in [Worker -> WorkerState]
         /\ [ws EXCEPT ![w].unmoved = TRUE] \in [Worker -> WorkerState]
         /\ Alike([ws EXCEPT ![w].fenced = TRUE][w], ws[w])
         /\ Alike([ws EXCEPT ![w].unmoved = TRUE][w], ws[w])
         /\ [ws EXCEPT ![w].unmoved = TRUE][w].fenced <=> ws[w].fenced
         /\ \A v \in Worker : v # w => /\ [ws EXCEPT ![w].fenced = TRUE][v] = ws[v]
                                       /\ [ws EXCEPT ![w].unmoved = TRUE][v] = ws[v]
<1>1. LET c == [ws[w] EXCEPT !.fenced = TRUE] IN c \in WorkerState /\ Alike(c, ws[w])
  BY DEF WorkerState, Alike
<1>2. LET c == [ws[w] EXCEPT !.unmoved = TRUE]
      IN  c \in WorkerState /\ Alike(c, ws[w]) /\ (c.fenced <=> ws[w].fenced)
  BY ZenonT(40) DEF WorkerState, Alike
<1> QED
  BY <1>1, <1>2

-----------------------------------------------------------------------------
(***************************************************************************)
(* Types.                                                                  *)
(***************************************************************************)

\* What a transaction makes of the artifacts and requests.
LEMMA InvalidatedIs ==
  ASSUME NEW b, artifact \in [Artifact -> ArtifactRow]
  PROVE  /\ Invalidated(b) \in [Artifact -> ArtifactRow]
         /\ \A a \in Artifact :
              /\ Invalidated(b)[a].comparator = artifact[a].comparator
              /\ \/ Invalidated(b)[a].role = artifact[a].role
                 \/ HasRole(a, "candidate") /\ Invalidated(b)[a].role = "retained"
<1>1. CASE b \notin Artifact
  BY <1>1 DEF Invalidated
<1>2. CASE b \in Artifact
  <2> DEFINE c == [artifact[b] EXCEPT !.role = IF HasRole(b, "candidate") THEN "retained" ELSE @]
  <2>1. /\ c \in ArtifactRow /\ c.comparator = artifact[b].comparator
        /\ c.role = artifact[b].role \/ (HasRole(b, "candidate") /\ c.role = "retained")
    <3>1. artifact[b] \in ArtifactRow
      BY <1>2
    <3>2. CASE HasRole(b, "candidate")
      <4>1. c = [artifact[b] EXCEPT !.role = "retained"]
        BY <3>2
      <4> QED
        BY <3>1, <3>2, <4>1 DEF ArtifactRow, Protected
    <3>3. CASE ~HasRole(b, "candidate")
      <4>1. c = artifact[b]
        BY <3>1, <3>3 DEF ArtifactRow
      <4> QED
        BY <3>1, <4>1
    <3> QED
      BY <3>2, <3>3
  <2>2. LET d == [c EXCEPT !.qualified = FALSE]
        IN  d \in ArtifactRow /\ d.comparator = c.comparator /\ d.role = c.role
    <3> HIDE DEF c
    <3> QED
      BY <2>1 DEF ArtifactRow
  <2>3. Invalidated(b) = [artifact EXCEPT ![b] = [c EXCEPT !.qualified = FALSE]]
    BY <1>2 DEF Invalidated, ArtifactRow
  <2> HIDE DEF c
  <2> QED
    BY <1>2, <2>1, <2>2, <2>3
<1> QED
  BY <1>1, <1>2

\* What a publication makes of the artifacts.
LEMMA PublishedIs ==
  ASSUME TypeOK, NEW w \in Worker, worker[w].artifact \in Artifact, Published(w)
  PROVE  LET a == worker[w].artifact IN
         /\ artifact' \in [Artifact -> ArtifactRow]
         /\ artifact'[a].role = IF Promotion(w) THEN "incumbent" ELSE "candidate"
         /\ Promotion(w) => artifact'[a].comparator = artifact[a].comparator
         /\ ~Promotion(w) =>
              artifact'[a].comparator \in {None} \cup {b \in Artifact : b = worker[w].incumbent}
         /\ \A b \in Artifact \ {a} :
              /\ artifact'[b].comparator = artifact[b].comparator
              /\ \/ artifact'[b].role = artifact[b].role
                 \/ HasRole(b, "incumbent") /\ artifact'[b].role = "rollback"
              /\ Promotion(w) /\ HasRole(b, "incumbent") /\ worker[w].incumbent # a =>
                   artifact'[b].role = "rollback"
<1> DEFINE a == worker[w].artifact
           old == worker[w].incumbent
<1>1. CASE Promotion(w)
  <2> DEFINE up == [artifact[a] EXCEPT !.role = "incumbent", !.qualified = TRUE]
  <2>1. up \in ArtifactRow /\ up.role = "incumbent" /\ up.comparator = artifact[a].comparator
    BY DEF TypeOK, ArtifactRow, Protected
  <2>2. ASSUME NEW b \in Artifact
        PROVE  LET down == [artifact[b] EXCEPT !.role = "rollback"]
               IN  down \in ArtifactRow /\ down.role = "rollback"
                   /\ down.comparator = artifact[b].comparator
    BY DEF TypeOK, ArtifactRow, Protected
  <2>3. artifact' = [b \in Artifact |->
            IF b = a THEN up
            ELSE IF HasRole(b, "incumbent") /\ old # a THEN [artifact[b] EXCEPT !.role = "rollback"]
            ELSE artifact[b]]
    BY <1>1 DEF Published
  <2> HIDE DEF up
  <2> QED
    BY <1>1, <2>1, <2>2, <2>3 DEF TypeOK
<1>2. CASE ~Promotion(w)
  <2>1. PICK c \in {None} \cup {b \in Artifact : b = old /\ artifact[b].qualified} :
          artifact' = [artifact EXCEPT ![a] =
                         [role |-> "candidate", qualified |-> FALSE, comparator |-> c]]
    BY <1>2 DEF Published
  <2> DEFINE row == [role |-> "candidate", qualified |-> FALSE, comparator |-> c]
  <2>2. row \in ArtifactRow /\ row.role = "candidate" /\ row.comparator = c
    BY <2>1 DEF ArtifactRow, Protected
  <2> HIDE DEF row
  <2> QED
    BY <1>2, <2>1, <2>2 DEF TypeOK, row
<1> QED
  BY <1>1, <1>2

\* The requests after one was finished, claimed or put in.
LEMMA StatusIs ==
  ASSUME request \in [Request -> RequestRow], NEW q,
         NEW status \in {"none", "queued", "running", "succeeded", "failed", "cancelled"},
         NEW fenced \in BOOLEAN
  PROVE  [request EXCEPT ![q] = [status |-> status, fenced |-> fenced]] \in [Request -> RequestRow]
<1>1. [status |-> status, fenced |-> fenced] \in RequestRow
  BY DEF RequestRow
<1> QED
  BY <1>1

\* The requests after one was put in.
LEMMA QueuedIs ==
  ASSUME request \in [Request -> RequestRow], NEW q \in Request
  PROVE  [request EXCEPT ![q].status = "queued"] \in [Request -> RequestRow]
<1>1. [request[q] EXCEPT !.status = "queued"] \in RequestRow
  BY DEF RequestRow
<1> QED
  BY <1>1

\* The requests after one was finished.
LEMMA FinishedIs ==
  ASSUME request \in [Request -> RequestRow], NEW w \in Worker,
         NEW status \in {"queued", "succeeded", "failed", "cancelled"}, Finished(w, status)
  PROVE  /\ request' \in [Request -> RequestRow]
         /\ \A r \in Request :
              /\ r # worker[w].request => request'[r] = request[r]
              /\ r = worker[w].request => request'[r].status = status
<1> DEFINE row == [status |-> status, fenced |-> status # "queued"]
<1>1. row \in RequestRow /\ row.status = status
  BY DEF RequestRow
<1>2. request' = [request EXCEPT ![worker[w].request] = row]
  BY DEF Finished
<1> HIDE DEF row
<1> QED
  BY <1>1, <1>2

\* Every step keeps the types.
LEMMA TypeStep ==
  ASSUME TypeOK, LeaseInv, NEW w \in Worker, Step(w) \/ Fault(w)
  PROVE  TypeOK'
<1> USE DEF TypeOK
<1>1. CASE Prepare(w)
  <2>1. Goto(w, "acquire") \in [Worker -> WorkerState]
    BY GotoIs DEF Place
  <2>2. Fenced(Goto(w, "acquire")) \in [Worker -> WorkerState]
    BY <2>1, FencedIs
  <2> QED
    BY <1>1, <2>1, <2>2, UnfencedIs DEF Prepare
<1>2. CASE Acquire(w)
  <2>1. Fenced(Goto(w, "begin")) \in [Worker -> WorkerState]
    BY GotoIs, FencedIs DEF Place
  <2>2. [Fenced(Goto(w, "begin")) EXCEPT ![w].fenced = TRUE] \in [Worker -> WorkerState]
    BY <2>1, GivenIs
  <2> QED
    BY <1>2, <2>2, IdleIs, UnfencedIs DEF Acquire
<1>3. CASE BeginCycle(w)
  <2>1. [status |-> "queued", fenced |-> FALSE] \in RequestRow
    BY DEF RequestRow
  <2>2. Goto(w, "enqueue") \in [Worker -> WorkerState] /\ Goto(w, "release") \in [Worker -> WorkerState]
    BY GotoIs DEF Place
  <2>3. worker' \in [Worker -> WorkerState]
    BY <1>3, <2>2 DEF BeginCycle
  <2>4. request' \in [Request -> RequestRow]
    BY <1>3, <2>1 DEF BeginCycle
  <2> QED
    BY <1>3, <2>3, <2>4 DEF BeginCycle
<1>4. CASE EnqueueScheduled(w)
  <2>1. Goto(w, "incumbent") \in [Worker -> WorkerState]
    BY GotoIs DEF Place
  <2>2. request' \in [Request -> RequestRow]
    BY <1>4, QueuedIs DEF EnqueueScheduled
  <2> QED
    BY <1>4, <2>1, <2>2 DEF EnqueueScheduled
<1>5. CASE ReadReferences(w)
  <2>1. Goto(w, "candidate") \in [Worker -> WorkerState] /\ Goto(w, "claim") \in [Worker -> WorkerState]
    BY GotoIs DEF Place
  <2>2. /\ TheOne("incumbent") # None =>
             Reviewing(w, TheOne("incumbent"), "candidate") \in [Worker -> WorkerState]
        /\ TheOne("candidate") # None =>
             Reviewing(w, TheOne("candidate"), "prune") \in [Worker -> WorkerState]
    BY TheOneIs, ReviewingIs
  <2>3. worker' \in [Worker -> WorkerState]
    BY <1>5, <2>1, <2>2 DEF ReadReferences
  <2> QED
    BY <1>5, <2>3 DEF ReadReferences, rows
<1>6. CASE EndReview(w)
  BY <1>6, ReturnIs, GotoIs DEF EndReview, Place, rows
<1>7. CASE ClaimDecision(w)
  <2>1. PICK n \in DueLooks(worker[w].artifact) :
          /\ look' = [look EXCEPT ![worker[w].artifact][n] = [status |-> "consumed", fenced |-> TRUE]]
          /\ scored' = [scored EXCEPT ![worker[w].artifact][n] = @ + 1]
          /\ worker' = [worker EXCEPT ![w].at = "score", ![w].look = n]
    BY <1>7 DEF ClaimDecision
  <2>2. n \in 1..Looks
    BY <2>1 DEF DueLooks
  <2>3. worker' \in [Worker -> WorkerState]
    BY <2>1, <2>2, AtScoreIs
  <2>4. look' \in [Artifact -> [1..Looks -> LookRow]]
    <3>1. [status |-> "consumed", fenced |-> TRUE] \in LookRow
      BY DEF LookRow
    <3> QED
      BY <2>1, <3>1
  <2>5. scored' \in [Artifact -> [1..Looks -> Nat]]
    <3> DEFINE a == worker[w].artifact
    <3>1. CASE a \in Artifact
      <4>0. scored[a] \in [1..Looks -> Nat]
        BY <3>1
      <4>1. scored[a][n] + 1 \in Nat
        <5>1. \A f \in [1..Looks -> Nat] : f[n] \in Nat
          BY <2>2
        <5>2. scored[a][n] \in Nat
          BY <4>0, <5>1
        <5> QED
          BY <5>2
      <4>2. [scored[a] EXCEPT ![n] = scored[a][n] + 1] \in [1..Looks -> Nat]
        BY <4>0, <4>1
      <4> QED
        BY <2>1, <3>1, <4>2
    <3>2. CASE a \notin Artifact
      BY <2>1, <3>2
    <3> QED
      BY <3>1, <3>2
  <2> QED
    BY <1>7, <2>3, <2>4, <2>5 DEF ClaimDecision
<1>8. CASE FinishDecision(w)
  <2>1. worker' \in [Worker -> WorkerState]
    BY <1>8, GotoIs, ReturnIs DEF FinishDecision, Place
  <2>2. look' \in [Artifact -> [1..Looks -> LookRow]]
    <3> DEFINE a == worker[w].artifact
               n == worker[w].look
    <3>1. look' = [look EXCEPT ![a][n].status = "evaluated"]
      BY <1>8 DEF FinishDecision
    <3>2. CASE a \in Artifact /\ n \in 1..Looks
      <4>1. look[a][n] \in LookRow
        BY <3>2
      <4>2. [look[a][n] EXCEPT !.status = "evaluated"] \in LookRow
        BY <4>1 DEF LookRow
      <4>3. [look[a] EXCEPT ![n].status = "evaluated"] \in [1..Looks -> LookRow]
        BY <3>2, <4>2
      <4> QED
        BY <3>1, <3>2, <4>3
    <3>3. CASE a \in Artifact /\ n \notin 1..Looks
      <4>1. [look[a] EXCEPT ![n].status = "evaluated"] \in [1..Looks -> LookRow]
        <5>1. look[a] \in [1..Looks -> LookRow]
          BY <3>3
        <5>2. [look[a] EXCEPT ![n].status = "evaluated"] = look[a]
          BY <3>3, <5>1
        <5> QED
          BY <5>1, <5>2
      <4> QED
        BY <3>1, <3>3, <4>1
    <3>4. CASE a \notin Artifact
      BY <3>1, <3>4
    <3> QED
      BY <3>2, <3>3, <3>4
  <2> QED
    BY <1>8, <2>1, <2>2 DEF FinishDecision
<1>9. CASE Retire(w)
  BY <1>9, InvalidatedIs, ReturnIs, MovedIs DEF Retire
<1>10. CASE ClaimRequest(w)
  <2>1. CASE worker' = Goto(w, "prune") /\ UNCHANGED request
    BY <1>10, <2>1, GotoIs DEF ClaimRequest, Place
  <2>2. ASSUME NEW r \in Request,
               request' = [request EXCEPT ![r] = [status |-> "running", fenced |-> TRUE]],
               worker' = [worker EXCEPT ![w].at = "fit", ![w].request = r]
        PROVE  TypeOK'
    <3>1. worker' \in [Worker -> WorkerState]
      BY <2>2, AtFitIs
    <3>2. request' \in [Request -> RequestRow]
      BY <2>2, StatusIs
    <3> QED
      BY <1>10, <3>1, <3>2 DEF ClaimRequest
  <2> QED
    BY <1>10, <2>1, <2>2 DEF ClaimRequest
<1>11. CASE Fit(w)
  <2>1. worker' \in [Worker -> WorkerState]
    <3>1. PICK a \in Artifact : worker' = [worker EXCEPT ![w].at = "sign", ![w].artifact = a]
      BY <1>11 DEF Fit
    <3> QED
      BY <3>1, AtSignIs
  <2> QED
    BY <1>11, <2>1 DEF Fit, rows
<1>12. CASE FitNothing(w)
  BY <1>12, FinishedIs, ForgetIs DEF FitNothing, Place
<1>13. CASE Sign(w)
  <2>1. worker' \in [Worker -> WorkerState]
    BY <1>13, AtPublishIs DEF Sign, AtPublish
  <2>2. worker[w].artifact \in Artifact
    <3>1. worker[w].artifact \in Artifact \cup {None}
      BY DEF WorkerState
    <3> QED
      BY <1>13, <3>1 DEF Sign, LeaseInv, Proper
  <2> QED
    BY <1>13, <2>1, <2>2 DEF Sign, rows
<1>14. CASE ReadState(w)
  <2>1. worker' \in [Worker -> WorkerState]
    BY <1>14, AtPublishIs DEF ReadState, AtPublish
  <2> QED
    BY <1>14, <2>1 DEF ReadState, rows
<1>15. AfterPublication(worker, w) \in [Worker -> WorkerState]
  BY AfterPublicationIs, ReturnIs DEF AfterPublication
<1>16. AfterRefusal(w) \in [Worker -> WorkerState]
  BY ReturnIs, GotoIs DEF AfterRefusal, Place
<1>17. CASE Publish(w)
  BY <1>15, <1>17, PublishedIs, MovedIs DEF Publish, CanPublish
<1>18. CASE RefusePublication(w)
  BY <1>16, <1>18 DEF RefusePublication, rows
<1>19. CASE ReadBack(w)
  BY <1>15, <1>16, <1>19 DEF ReadBack, rows
<1>20. CASE FinishRequest(w)
  BY <1>20, FinishedIs, ForgetIs DEF FinishRequest, Place
<1>21. CASE RetireWithComparator(w)
  <2>1. [worker EXCEPT ![w].at = "finish", ![w].committed = FALSE] \in [Worker -> WorkerState]
    BY AtFinishIs
  <2>2. Forget(worker, w, "prune") \in [Worker -> WorkerState]
    BY ForgetIs DEF Place
  <2>3. Moved(Forget(worker, w, "prune")) \in [Worker -> WorkerState]
    BY <2>2, MovedIs
  <2>4. artifact' \in [Artifact -> ArtifactRow] /\ worker' \in [Worker -> WorkerState]
    <3>1. Invalidated(TheOne("candidate")) \in [Artifact -> ArtifactRow]
      BY InvalidatedIs
    <3>2. /\ artifact' \in {artifact, Invalidated(TheOne("candidate"))}
          /\ worker' \in {Moved(Forget(worker, w, "prune")), Forget(worker, w, "prune"),
                          [worker EXCEPT ![w].at = "finish", ![w].committed = FALSE]}
      BY <1>21 DEF RetireWithComparator
    <3> QED
      BY <2>1, <2>2, <2>3, <3>1, <3>2
  <2> QED
    BY <1>21, <2>4 DEF RetireWithComparator
<1>22. CASE LoseRun(w)
  BY <1>22, ForgetIs DEF LoseRun, Place, rows
<1>23. CASE Prune(w)
  <2>1. NoRow \in ArtifactRow /\ NoRequest \in RequestRow /\ NoLooks \in [1..Looks -> LookRow]
        /\ NeverScored \in [1..Looks -> Nat] /\ 0 \in 0..(Looks + 1)
    BY LifecycleAssumption
    DEF NoRow, NoRequest, NoLooks, NeverScored, ArtifactRow, RequestRow, LookRow
  <2>2. Goto(w, "release") \in [Worker -> WorkerState]
    BY GotoIs DEF Place
  <2>3. worker' \in [Worker -> WorkerState] /\ request' \in [Request -> RequestRow]
    BY <1>23, <2>1, <2>2 DEF Prune
  <2>4. /\ artifact' \in [Artifact -> ArtifactRow] /\ look' \in [Artifact -> [1..Looks -> LookRow]]
        /\ files' \subseteq Artifact /\ age' \in [Artifact -> 0..(Looks + 1)]
        /\ scored' \in [Artifact -> [1..Looks -> Nat]]
    <3>1. CASE UNCHANGED <<artifact, look, files, age, scored>>
      BY <3>1
    <3>2. ASSUME NEW a \in Artifact,
                 /\ files' = files \ {a}
                 /\ artifact' = [artifact EXCEPT ![a] = NoRow]
                 /\ age' = [age EXCEPT ![a] = 0]
                 /\ look' = [look EXCEPT ![a] = NoLooks]
                 /\ scored' = [scored EXCEPT ![a] = NeverScored]
          PROVE  /\ artifact' \in [Artifact -> ArtifactRow]
                 /\ look' \in [Artifact -> [1..Looks -> LookRow]]
                 /\ files' \subseteq Artifact /\ age' \in [Artifact -> 0..(Looks + 1)]
                 /\ scored' \in [Artifact -> [1..Looks -> Nat]]
      BY <2>1, <3>2
    <3> QED
      BY <1>23, <3>1, <3>2 DEF Prune
  <2> QED
    BY <1>23, <2>3, <2>4 DEF Prune
<1>24. CASE Release(w)
  BY <1>24, FencedIs, IdleIs, UnfencedIs DEF Release
<1>25. CASE LoseCommit(w)
  <2>1. [Moved(Goto(w, "readback")) EXCEPT ![w].unmoved = TRUE] \in [Worker -> WorkerState]
    <3>1. Moved(Goto(w, "readback")) \in [Worker -> WorkerState]
      BY GotoIs, MovedIs DEF Place
    <3> QED
      BY <3>1, GivenIs
  <2>2. [worker EXCEPT ![w].at = "readback", ![w].unmoved = FALSE] \in [Worker -> WorkerState]
    BY NotCommittedIs
  <2>3. artifact' \in [Artifact -> ArtifactRow]
    BY <1>25, PublishedIs DEF LoseCommit, CanPublish
  <2>4. faults < MaxFaults => faults + 1 \in 0..MaxFaults
    BY LifecycleAssumption
  <2> QED
    BY <1>25, <2>1, <2>2, <2>3, <2>4 DEF LoseCommit
<1>26. CASE Fail(w)
  BY <1>26, FinishedIs, ForgetIs, LifecycleAssumption DEF Fail, Place
<1>27. CASE FindDamage(w)
  <2>1. Goto(w, "damaged") \in [Worker -> WorkerState]
    BY GotoIs DEF Place
  <2>2. Moved(Goto(w, "damaged")) \in [Worker -> WorkerState]
    BY <2>1, MovedIs
  <2>3. artifact' \in [Artifact -> ArtifactRow]
    BY <1>27, InvalidatedIs DEF FindDamage
  <2> QED
    BY <1>27, <2>2, <2>3, LifecycleAssumption DEF FindDamage
<1>28. CASE Cancel(w)
  BY <1>28, FinishedIs, ForgetIs, LifecycleAssumption DEF Cancel, Place
<1>29. CASE Crash(w)
  BY <1>29, IdleIs, LifecycleAssumption DEF Crash, rows
<1> QED
  BY <1>1, <1>2, <1>3, <1>4, <1>5, <1>6, <1>7, <1>8, <1>9, <1>10, <1>11, <1>12, <1>13, <1>14,
     <1>17, <1>18, <1>19, <1>20, <1>21, <1>22, <1>23, <1>24, <1>25, <1>26, <1>27, <1>28, <1>29
  DEF Step, Fault

\* So does everything around the runners.
LEMMA TypeEnvironment ==
  ASSUME TypeOK, Environment
  PROVE  TypeOK'
<1> USE DEF TypeOK
<1>1. ASSUME NEW r \in Request, QueueRequest(r)
      PROVE  TypeOK'
  BY <1>1, QueuedIs DEF QueueRequest
<1>2. ASSUME NEW enabled \in BOOLEAN, SetMaintenance(enabled)
      PROVE  TypeOK'
  <2>1. \A r \in Request :
          [status |-> IF ~enabled /\ request[r].status = "running" THEN "queued"
                      ELSE request[r].status,
           fenced |-> FALSE] \in RequestRow
    BY DEF RequestRow
  <2>2. faults < MaxFaults => faults + 1 \in 0..MaxFaults
    BY LifecycleAssumption
  <2> QED
    BY <1>2, <2>1, <2>2, FencedIs, UnfencedIs DEF SetMaintenance
<1>3. CASE Reset
  <2>1. \A r \in Request :
          [status |-> IF request[r].status \in {"queued", "running"} THEN "cancelled"
                      ELSE request[r].status,
           fenced |-> FALSE] \in RequestRow
    BY DEF RequestRow
  <2>2. \A a \in Artifact :
          [artifact[a] EXCEPT !.role = "unreferenced", !.qualified = FALSE] \in ArtifactRow
    BY DEF ArtifactRow
  <2>3. NoLooks \in [1..Looks -> LookRow]
    BY DEF NoLooks, LookRow
  <2>4. faults < MaxFaults => faults + 1 \in 0..MaxFaults
    BY LifecycleAssumption
  <2>5. /\ request' \in [Request -> RequestRow]
        /\ look' \in [Artifact -> [1..Looks -> LookRow]]
        /\ outdated' \subseteq Artifact
    BY <1>3, <2>1, <2>3 DEF Reset
  <2>6. artifact' \in [Artifact -> ArtifactRow]
    BY <1>3, <2>2 DEF Reset
  <2> QED
    BY <1>3, <2>4, <2>5, <2>6, FencedIs DEF Reset
<1>4. CASE Expire
  BY <1>4, LifecycleAssumption DEF Expire
<1>5. CASE CycleDue
  BY <1>5 DEF CycleDue
<1>6. ASSUME NEW a \in Artifact, Mature(a)
      PROVE  TypeOK'
  BY <1>6, LifecycleAssumption DEF Mature, rows
<1> QED
  BY <1>1, <1>2, <1>3, <1>4, <1>5, <1>6 DEF Environment

-----------------------------------------------------------------------------
(***************************************************************************)
(* A step of one runner.                                                   *)
(***************************************************************************)

\* The others lose numbers at most.
Others(w) ==
  \A v \in Worker \ {w} : /\ Alike(worker'[v], worker[v])
                          /\ worker'[v].fenced => worker[v].fenced
                          /\ worker'[v].unmoved => worker[v].unmoved

\* What the runner itself becomes is as the invariant says.
Kept(w) ==
  /\ Others(w)
  /\ Proper(worker'[w])
  /\ worker'[w].fenced =>
       worker[w].fenced /\ MyRequests(worker[w])' /\ MyArtifact(worker[w])'

\* Two runners that are alike but for what a new number takes away.
LEMMA AlikeIsKept ==
  ASSUME NEW c, NEW d, Alike(d, c)
  PROVE  /\ Proper(c) => Proper(d)
         /\ MyRequests(c) => MyRequests(d)
         /\ MyArtifact(c) /\ (d.unmoved => c.unmoved) => MyArtifact(d)
  BY DEF Alike, Proper, MyRequests, MyArtifact

\* Whoever holds the live lease is the only fenced runner.
LEMMA Alone ==
  ASSUME LeaseInv, NEW w \in Worker, Live(w), NEW v \in Worker, worker[v].fenced
  PROVE  v = w
  BY DEF LeaseInv, Live

\* The invariant, from the one runner of the step and from the rows.
LEMMA Turn ==
  ASSUME IInv, NEW w \in Worker, Kept(w), holder' = holder,
         Live(w) \/ (UNCHANGED <<request, artifact>> /\ outdated' \subseteq outdated),
         OneRunning', RoleInv', ResetIsFinal', \A a \in Artifact : LooksCounted(a)'
  PROVE  LeaseInv' /\ RequestInv' /\ RoleInv' /\ HistoryInv'
<1>1. ASSUME NEW v \in Worker
      PROVE  /\ Proper(worker'[v])
             /\ worker'[v].fenced => worker[v].fenced /\ holder' = v
             /\ worker'[v].fenced => MyRequests(worker[v])' /\ MyArtifact(worker[v])'
  <2>1. Proper(worker[v]) /\ (worker[v].fenced => holder = v)
    BY DEF IInv, LeaseInv
  <2>2. CASE v = w
    BY <2>1, <2>2 DEF Kept
  <2>3. CASE v # w
    <3>1. Alike(worker'[v], worker[v]) /\ (worker'[v].fenced => worker[v].fenced)
          /\ (worker'[v].unmoved => worker[v].unmoved)
      BY <2>3 DEF Kept, Others
    <3>2. Proper(worker'[v])
      BY <2>1, <3>1, AlikeIsKept
    <3>3. CASE Live(w)
      BY <2>1, <2>3, <3>1, <3>2, <3>3, Alone DEF IInv
    <3>4. CASE UNCHANGED <<request, artifact>> /\ outdated' \subseteq outdated
      <4>1. worker[v].fenced => MyRequests(worker[v]) /\ MyArtifact(worker[v])
        BY DEF IInv, RequestInv, HistoryInv
      <4>2. worker[v].fenced /\ worker'[v].fenced => MyRequests(worker[v])'
        BY <3>1, <3>4, <4>1 DEF MyRequests, Alike
      <4>3. worker[v].fenced /\ worker'[v].fenced => MyArtifact(worker[v])'
        BY <3>1, <3>4, <4>1 DEF MyArtifact, Alike, HasRole
      <4> QED
        BY <2>1, <3>1, <3>2, <4>2, <4>3
    <3> QED
      BY <3>3, <3>4
  <2> QED
    BY <2>2, <2>3
<1> QED
  BY <1>1 DEF LeaseInv, RequestInv, HistoryInv

\* Nothing about artifacts changes.
LEMMA SameRoles ==
  ASSUME IInv, UNCHANGED <<artifact, look, scored, outdated>>, files \subseteq files'
  PROVE  RoleInv' /\ ResetIsFinal' /\ \A a \in Artifact : LooksCounted(a)'
<1>1. RoleInv'
  BY DEF IInv, RoleInv, OneOfEachRole, HasRole, Supported
<1>2. ResetIsFinal' /\ \A a \in Artifact : LooksCounted(a)'
  BY DEF IInv, HistoryInv, ResetIsFinal, LooksCounted, HasRole
<1> QED
  BY <1>1, <1>2

\* A step that leaves the rows alone, at most adding a file.
LEMMA QuietTurn ==
  ASSUME IInv, NEW w \in Worker, Kept(w),
         UNCHANGED <<holder, request, artifact, look, scored, outdated>>, files \subseteq files'
  PROVE  LeaseInv' /\ RequestInv' /\ RoleInv' /\ HistoryInv'
<1>1. OneRunning'
  BY DEF IInv, RequestInv, OneRunning
<1> QED
  BY <1>1, SameRoles, Turn

\* A new fence takes away every other; the one that has it begins a cycle.
LEMMA NewFence ==
  ASSUME IInv, UNCHANGED <<artifact, files, scored, outdated>>,
         request' = Unfenced(request), look' = LooksUnfenced,
         \A v \in Worker : /\ Proper(worker'[v])
                           /\ worker'[v].fenced =>
                                /\ holder' = v
                                /\ worker'[v].at = "begin" /\ worker'[v].artifact = None
  PROVE  LeaseInv' /\ RequestInv' /\ RoleInv' /\ HistoryInv'
<1>1. /\ \A r \in Request : request'[r].status = request[r].status /\ ~request'[r].fenced
      /\ \A a \in Artifact : \A n \in 1..Looks : look'[a][n].status = look[a][n].status
  BY UnfencedIs DEF IInv, TypeOK
<1>2. OneRunning'
  BY <1>1 DEF IInv, RequestInv, OneRunning
<1>3. RoleInv'
  BY DEF IInv, RoleInv, OneOfEachRole, HasRole, Supported
<1>4. ResetIsFinal' /\ \A a \in Artifact : LooksCounted(a)'
  BY <1>1 DEF IInv, HistoryInv, ResetIsFinal, LooksCounted, HasRole
<1>5. None \notin outdated
  BY LifecycleAssumption DEF IInv, TypeOK
<1>6. ASSUME NEW v \in Worker, worker'[v].fenced
      PROVE  MyRequests(worker[v])' /\ MyArtifact(worker[v])'
  <2>1. worker'[v].at = "begin" /\ worker'[v].artifact = None
    BY <1>6
  <2>2. MyRequests(worker[v])'
    BY <1>1, <2>1 DEF MyRequests, UnderLease
  <2>3. MyArtifact(worker[v])'
    BY <1>5, <2>1 DEF MyArtifact
  <2> QED
    BY <2>2, <2>3
<1>7. LeaseInv'
  BY DEF LeaseInv
<1> QED
  BY <1>2, <1>3, <1>4, <1>6, <1>7 DEF RequestInv, HistoryInv

\* Going back to where a review was called.
LEMMA ReturnIsKept ==
  ASSUME IInv, NEW w \in Worker, Others(w), worker[w].at \in UnderLease,
         UNCHANGED <<request, outdated>>,
         LET d == worker'[w]
         IN  /\ d.at = worker[w].then /\ d.request = worker[w].request /\ d.artifact = None
             /\ d.look = 0 /\ d.then = "prune" /\ (d.fenced => worker[w].fenced)
  PROVE  Kept(w)
<1>1. worker[w].then \in {"candidate", "prune", "finish"}
  BY DEF IInv, TypeOK, WorkerState
<1>2. Proper(worker[w])
  BY DEF IInv, LeaseInv
<1>3. Proper(worker'[w])
  BY <1>1, <1>2 DEF Proper
<1>4. ASSUME worker'[w].fenced
      PROVE  MyRequests(worker[w])' /\ MyArtifact(worker[w])'
  <2>1. MyRequests(worker[w]) /\ None \notin outdated
    BY <1>4, LifecycleAssumption DEF IInv, RequestInv, TypeOK
  <2> QED
    BY <1>1, <2>1 DEF MyRequests, MyArtifact, UnderLease
<1> QED
  BY <1>3, <1>4 DEF Kept

\* Going on without a request, of which nothing runs then.
LEMMA ForgetIsKept ==
  ASSUME IInv, NEW w \in Worker, Others(w), outdated' = outdated,
         LET d == worker'[w]
         IN  /\ d.at \in {"idle", "prune", "release"} /\ d.request = None /\ d.artifact = None
             /\ d.look = 0 /\ d.then = "prune" /\ (d.fenced => worker[w].fenced),
         worker'[w].at = "prune" /\ worker[w].fenced =>
           \A r \in Request : request'[r].status # "running"
  PROVE  Kept(w)
<1>1. Proper(worker'[w])
  BY DEF Proper
<1>2. ASSUME worker'[w].fenced
      PROVE  MyRequests(worker[w])' /\ MyArtifact(worker[w])'
  <2>1. None \notin outdated
    BY LifecycleAssumption DEF IInv, TypeOK
  <2> QED
    BY <1>2, <2>1 DEF MyRequests, MyArtifact, UnderLease
<1> QED
  BY <1>1, <1>2 DEF Kept
\* A runner that was idle, or that waits for the lease.
LEMMA LeaseSteps ==
  ASSUME IInv, NEW w \in Worker, Prepare(w) \/ Acquire(w) \/ Release(w) \/ Crash(w)
  PROVE  LeaseInv' /\ RequestInv' /\ RoleInv' /\ HistoryInv'
<1>1. worker \in [Worker -> WorkerState] /\ None \notin outdated
  BY LifecycleAssumption DEF IInv, TypeOK
<1>2. \A v \in Worker : Proper(worker[v])
  BY DEF IInv, LeaseInv
<1>3. CASE Crash(w)
  <2>1. worker' = [worker EXCEPT ![w] = Idle]
    BY <1>3 DEF Crash
  <2>2. Others(w) /\ worker'[w] = Idle
    BY <1>1, <2>1 DEF Others, Alike
  <2>3. Kept(w)
    BY <1>3, <2>2, IdleIs, ForgetIsKept DEF Crash
  <2> QED
    BY <1>3, <2>3, QuietTurn DEF Crash, rows
<1>4. CASE Prepare(w)
  <2> DEFINE ws == Goto(w, "acquire")
  <2>1. /\ ws \in [Worker -> WorkerState] /\ ws[w].at = "acquire"
        /\ \A v \in Worker : v # w => ws[v] = worker[v]
        /\ ws[w].artifact = worker[w].artifact /\ ws[w].request = worker[w].request
        /\ ws[w].then = worker[w].then /\ (ws[w].fenced <=> worker[w].fenced)
        /\ ws[w].look = worker[w].look
    BY <1>1, GotoIs DEF Place
  <2>2. Proper(ws[w]) /\ ws[w].artifact = None
    BY <1>2, <1>4, <2>1 DEF Prepare, Proper
  <2> HIDE DEF ws
  <2>3. CASE gate
    <3>1. worker' = ws /\ UNCHANGED <<holder, request, artifact, look, scored, outdated, files>>
      BY <1>4, <2>3 DEF Prepare, ws
    <3>2. Others(w)
      BY <2>1, <3>1 DEF Others, Alike
    <3>3. MyRequests(worker[w])' /\ MyArtifact(worker[w])'
      BY <1>1, <2>1, <2>2, <3>1 DEF MyRequests, MyArtifact, UnderLease
    <3>4. Kept(w)
      BY <2>1, <2>2, <3>1, <3>2, <3>3 DEF Kept
    <3> QED
      BY <3>1, <3>4, QuietTurn
  <2>4. CASE ~gate
    <3>1. /\ worker' = Fenced(ws) /\ request' = Unfenced(request) /\ look' = LooksUnfenced
          /\ UNCHANGED <<artifact, files, scored, outdated>>
      BY <1>4, <2>4 DEF Prepare, ws
    <3>2. \A v \in Worker : Alike(worker'[v], ws[v]) /\ ~worker'[v].fenced
      BY <2>1, <3>1, FencedIs
    <3>3. \A v \in Worker : Proper(worker'[v])
      BY <1>2, <2>1, <2>2, <3>2, AlikeIsKept
    <3> QED
      BY <3>1, <3>2, <3>3, NewFence
  <2> QED
    BY <2>3, <2>4
<1>5. CASE Acquire(w)
  <2>1. CASE gate /\ (holder = None \/ expired)
    <3> DEFINE ws == Goto(w, "begin")
               fs == Fenced(ws)
    <3>1. /\ ws \in [Worker -> WorkerState] /\ ws[w].at = "begin"
          /\ \A v \in Worker : v # w => ws[v] = worker[v]
          /\ ws[w].artifact = worker[w].artifact /\ ws[w].request = worker[w].request
          /\ ws[w].then = worker[w].then /\ ws[w].look = worker[w].look
      BY <1>1, GotoIs DEF Place
    <3>2. Proper(ws[w]) /\ ws[w].artifact = None
      BY <1>2, <1>5, <3>1 DEF Acquire, Proper
    <3> HIDE DEF ws
    <3>3. /\ fs \in [Worker -> WorkerState]
          /\ \A v \in Worker : Alike(fs[v], ws[v]) /\ ~fs[v].fenced
      BY <3>1, FencedIs
    <3> HIDE DEF fs
    <3>4. /\ worker' = [fs EXCEPT ![w].fenced = TRUE] /\ holder' = w
          /\ request' = Unfenced(request) /\ look' = LooksUnfenced
          /\ UNCHANGED <<artifact, files, scored, outdated>>
      BY <1>5, <2>1 DEF Acquire, ws, fs
    <3>5. Alike(worker'[w], fs[w]) /\ \A v \in Worker : v # w => worker'[v] = fs[v]
      <4>1. fs \in [Worker -> WorkerState]
        BY <3>3
      <4>2. Alike([fs EXCEPT ![w].fenced = TRUE][w], fs[w])
        BY <4>1, GivenIs
      <4>3. \A v \in Worker : v # w => [fs EXCEPT ![w].fenced = TRUE][v] = fs[v]
        BY <4>1
      <4> QED
        BY <3>4, <4>2, <4>3
    <3>6. \A v \in Worker : Alike(worker'[v], ws[v]) /\ (worker'[v].fenced => v = w)
      BY <3>3, <3>5 DEF Alike
    <3>7. \A v \in Worker : Proper(worker'[v])
      BY <1>2, <3>1, <3>2, <3>6, AlikeIsKept
    <3>8. worker'[w].at = "begin" /\ worker'[w].artifact = None
      BY <3>1, <3>2, <3>6 DEF Alike
    <3> QED
      BY <3>4, <3>6, <3>7, <3>8, NewFence
  <2>2. CASE ~(gate /\ (holder = None \/ expired))
    <3>1. worker' = [worker EXCEPT ![w] = Idle]
          /\ UNCHANGED <<holder, request, artifact, look, scored, outdated, files>>
      BY <1>5, <2>2 DEF Acquire
    <3>2. Others(w) /\ worker'[w] = Idle
      BY <1>1, <3>1 DEF Others, Alike
    <3>3. Kept(w)
      BY <3>1, <3>2, IdleIs, ForgetIsKept
    <3> QED
      BY <3>1, <3>3, QuietTurn
  <2> QED
    BY <2>1, <2>2
<1>6. CASE Release(w)
  <2>1. CASE setting /\ holder = w /\ worker[w].fenced
    <3> DEFINE fs == Fenced(worker)
    <3>1. /\ fs \in [Worker -> WorkerState]
          /\ \A v \in Worker : Alike(fs[v], worker[v]) /\ ~fs[v].fenced
      BY <1>1, FencedIs
    <3> HIDE DEF fs
    <3>2. /\ worker' = [fs EXCEPT ![w] = Idle]
          /\ request' = Unfenced(request) /\ look' = LooksUnfenced
          /\ UNCHANGED <<artifact, files, scored, outdated>>
      BY <1>6, <2>1 DEF Release, fs
    <3>3. \A v \in Worker : /\ v = w => worker'[v] = Idle
                            /\ v # w => worker'[v] = fs[v]
      BY <3>1, <3>2
    <3>4. Proper(Idle)
      BY IdleIs DEF Proper
    <3>5. \A v \in Worker : Proper(worker'[v]) /\ ~worker'[v].fenced
      BY <1>2, <3>1, <3>3, <3>4, IdleIs, AlikeIsKept
    <3> QED
      BY <3>2, <3>5, NewFence
  <2>2. CASE ~(setting /\ holder = w /\ worker[w].fenced)
    <3>1. worker' = [worker EXCEPT ![w] = Idle]
          /\ UNCHANGED <<holder, request, artifact, look, scored, outdated, files>>
      BY <1>6, <2>2 DEF Release
    <3>2. Others(w) /\ worker'[w] = Idle
      BY <1>1, <3>1 DEF Others, Alike
    <3>3. Kept(w)
      BY <3>1, <3>2, IdleIs, ForgetIsKept
    <3> QED
      BY <3>1, <3>3, QuietTurn
  <2> QED
    BY <2>1, <2>2
<1> QED
  BY <1>3, <1>4, <1>5, <1>6

\* The beginning of a cycle.
LEMMA CycleSteps ==
  ASSUME IInv, NEW w \in Worker, BeginCycle(w) \/ EnqueueScheduled(w) \/ ReadReferences(w)
  PROVE  LeaseInv' /\ RequestInv' /\ RoleInv' /\ HistoryInv'
<1>1. worker \in [Worker -> WorkerState] /\ None \notin outdated
  BY LifecycleAssumption DEF IInv, TypeOK
<1>2. Proper(worker[w]) /\ (worker[w].fenced => MyRequests(worker[w]) /\ MyArtifact(worker[w]))
  BY DEF IInv, LeaseInv, RequestInv, HistoryInv
<1>3. ASSUME NEW at \in {"enqueue", "release", "incumbent", "candidate", "claim"},
             worker[w].at \in {"begin", "enqueue", "incumbent", "candidate"},
             worker' = Goto(w, at), UNCHANGED <<artifact, outdated>>,
             worker[w].fenced => MyRequests(worker[w])'
      PROVE  Kept(w)
  <2>1. LET d == worker'[w]
        IN  /\ d.at = at /\ d.artifact = worker[w].artifact /\ d.request = worker[w].request
            /\ d.then = worker[w].then /\ (d.fenced <=> worker[w].fenced)
            /\ d.look = worker[w].look
            /\ \A v \in Worker : v # w => worker'[v] = worker[v]
    BY <1>1, <1>3, GotoIs DEF Place
  <2>2. Others(w)
    BY <2>1 DEF Others, Alike
  <2>3. Proper(worker'[w])
    BY <1>2, <1>3, <2>1 DEF Proper
  <2>4. worker[w].fenced => MyArtifact(worker[w])'
    BY <1>2, <1>3, <2>1 DEF MyArtifact, HasRole
  <2> QED
    BY <1>3, <2>1, <2>2, <2>3, <2>4 DEF Kept
<1>4. CASE BeginCycle(w)
  <2>1. Live(w) /\ worker[w].fenced /\ worker[w].at = "begin"
        /\ UNCHANGED <<holder, artifact, look, scored, outdated, files>>
    BY <1>4 DEF BeginCycle, Live
  <2>2. \A r \in Request : request[r].status = "running" => ~request[r].fenced
    BY <1>2, <2>1 DEF MyRequests
  <2>3. CASE due
    <3>1. \A r \in Request : request'[r].status # "running"
      BY <1>4, <2>2, <2>3 DEF BeginCycle
    <3>2. worker' = Goto(w, "enqueue")
      BY <1>4, <2>3 DEF BeginCycle
    <3>3. Kept(w)
      BY <1>3, <2>1, <3>1, <3>2 DEF MyRequests
    <3>4. OneRunning'
      BY <3>1 DEF OneRunning
    <3> QED
      BY <2>1, <3>3, <3>4, SameRoles, Turn
  <2>4. CASE ~due
    <3>1. worker' = Goto(w, "release") /\ request' = request
      BY <1>4, <2>4 DEF BeginCycle
    <3>2. worker'[w].at = "release"
      BY <1>1, <3>1, GotoIs DEF Place
    <3>3. MyRequests(worker[w])'
      BY <3>2 DEF MyRequests, UnderLease
    <3>4. Kept(w)
      BY <1>3, <2>1, <3>1, <3>3
    <3> QED
      BY <2>1, <3>1, <3>4, QuietTurn
  <2> QED
    BY <2>3, <2>4
<1>5. CASE EnqueueScheduled(w)
  <2>1. Live(w) /\ worker[w].at = "enqueue" /\ worker' = Goto(w, "incumbent")
        /\ UNCHANGED <<holder, artifact, look, scored, outdated, files>>
    BY <1>5 DEF EnqueueScheduled
  <2>2. \A r \in Request : request'[r].status = "running" => request[r].status = "running"
    BY <1>5 DEF EnqueueScheduled, IInv, TypeOK, RequestRow
  <2>3. worker'[w].request = worker[w].request
    BY <1>1, <2>1, GotoIs DEF Place
  <2>4. worker[w].fenced => MyRequests(worker[w])'
    BY <1>1, <1>2, <2>1, <2>2, <2>3, GotoIs DEF MyRequests, UnderLease, Place
  <2>5. Kept(w)
    BY <1>3, <2>1, <2>4
  <2>6. OneRunning'
    BY <2>2 DEF IInv, RequestInv, OneRunning
  <2> QED
    BY <2>1, <2>5, <2>6, SameRoles, Turn
<1>6. CASE ReadReferences(w)
  <2>1. worker[w].at \in {"incumbent", "candidate"}
        /\ UNCHANGED <<holder, request, artifact, look, scored, outdated, files>>
    BY <1>6 DEF ReadReferences, rows
  <2>2. ASSUME NEW at \in {"candidate", "claim"}, worker' = Goto(w, at)
        PROVE  Kept(w)
    <3>1. worker'[w].request = worker[w].request /\ worker'[w].at = at
      BY <1>1, <2>2, GotoIs DEF Place
    <3>2. worker[w].fenced => MyRequests(worker[w])'
      BY <1>2, <2>1, <3>1 DEF MyRequests, UnderLease
    <3> QED
      BY <1>3, <2>1, <2>2, <3>2
  <2>3. ASSUME NEW role \in {"incumbent", "candidate"}, NEW then \in {"candidate", "prune"},
               TheOne(role) # None, worker' = Reviewing(w, TheOne(role), then)
        PROVE  Kept(w)
    <3> DEFINE a == TheOne(role)
    <3>1. a \in Artifact /\ HasRole(a, role)
      BY <2>3, TheOneIs
    <3>2. a \notin outdated
      BY <3>1 DEF IInv, HistoryInv, ResetIsFinal, HasRole, Protected
    <3> HIDE DEF a
    <3>3. LET d == worker'[w]
          IN  /\ d.at = "review" /\ d.artifact = a /\ d.request = worker[w].request
              /\ d.then = then /\ (d.fenced <=> worker[w].fenced)
              /\ \A v \in Worker : v # w => worker'[v] = worker[v]
      BY <1>1, <2>3, <3>1, ReviewingIs DEF a
    <3>4. Others(w)
      BY <3>3 DEF Others, Alike
    <3>5. Proper(worker'[w])
      BY <1>2, <2>1, <3>3 DEF Proper
    <3>6. worker[w].fenced => MyRequests(worker[w])'
      BY <1>2, <2>1, <3>3 DEF MyRequests, UnderLease
    <3>7. MyArtifact(worker[w])'
      BY <2>1, <3>1, <3>2, <3>3 DEF MyArtifact, HasRole
    <3> QED
      BY <3>3, <3>4, <3>5, <3>6, <3>7 DEF Kept
  <2>4. Kept(w)
    BY <1>6, <2>2, <2>3 DEF ReadReferences
  <2> QED
    BY <2>1, <2>4, QuietTurn
<1> QED
  BY <1>4, <1>5, <1>6
\* Roles and looks after a candidate was retired or an incumbent's qualification lost.
LEMMA InvalidatedKeeps ==
  ASSUME IInv, NEW b, artifact' = Invalidated(b), UNCHANGED <<look, files, scored, outdated>>
  PROVE  RoleInv' /\ ResetIsFinal' /\ \A a \in Artifact : LooksCounted(a)'
<1>1. \A a \in Artifact :
        /\ artifact'[a].comparator = artifact[a].comparator
        /\ \/ artifact'[a].role = artifact[a].role
           \/ artifact[a].role = "candidate" /\ artifact'[a].role = "retained"
  BY InvalidatedIs DEF IInv, TypeOK, HasRole
<1>2. OneOfEachRole'
  BY <1>1 DEF IInv, RoleInv, OneOfEachRole, HasRole
<1>3. ASSUME NEW a \in Artifact
      PROVE  Supported(a)'
  <2>1. Supported(a)
    BY DEF IInv, RoleInv
  <2>2. artifact[a].comparator \in Artifact \cup {None}
    BY DEF IInv, TypeOK, ArtifactRow
  <2> QED
    BY <1>1, <2>1, <2>2 DEF Supported, Protected
<1>4. ResetIsFinal'
  BY <1>1 DEF IInv, HistoryInv, TypeOK, ResetIsFinal, Protected
<1>5. ASSUME NEW a \in Artifact
      PROVE  LooksCounted(a)'
  <2>1. LooksCounted(a)
    BY DEF IInv, HistoryInv
  <2>2. HasRole(a, "none")' => HasRole(a, "none")
    BY <1>1 DEF HasRole
  <2> QED
    BY <2>1, <2>2 DEF LooksCounted
<1> QED
  BY <1>2, <1>3, <1>4, <1>5 DEF RoleInv

\* Reviews.
LEMMA ReviewSteps ==
  ASSUME IInv, NEW w \in Worker,
         \/ EndReview(w) \/ ClaimDecision(w) \/ FinishDecision(w) \/ ReadState(w) \/ Retire(w)
         \/ FindDamage(w) \/ RetireWithComparator(w)
  PROVE  LeaseInv' /\ RequestInv' /\ RoleInv' /\ HistoryInv'
<1>1. worker \in [Worker -> WorkerState] /\ None \notin outdated
  BY LifecycleAssumption DEF IInv, TypeOK
<1>2. Proper(worker[w]) /\ (worker[w].fenced => MyRequests(worker[w]) /\ MyArtifact(worker[w]))
  BY DEF IInv, LeaseInv, RequestInv, HistoryInv
<1>3. ASSUME NEW at \in {"score", "read", "retire", "publish"},
             worker[w].at \in {"review", "score", "read"},
             UNCHANGED <<request, artifact, outdated>>,
             LET d == worker'[w]
             IN  /\ d.at = at /\ d.artifact = worker[w].artifact /\ d.request = worker[w].request
                 /\ d.then = worker[w].then /\ (d.fenced => worker[w].fenced),
             \A v \in Worker : v # w => worker'[v] = worker[v]
      PROVE  Kept(w)
  <2>1. Others(w)
    BY <1>3 DEF Others, Alike
  <2>2. Proper(worker'[w])
    BY <1>2, <1>3 DEF Proper
  <2>3. worker'[w].fenced => MyRequests(worker[w])'
    BY <1>2, <1>3 DEF MyRequests, UnderLease
  <2>4. worker'[w].fenced => MyArtifact(worker[w])'
    BY <1>2, <1>3 DEF MyArtifact, HasRole
  <2> QED
    BY <1>3, <2>1, <2>2, <2>3, <2>4 DEF Kept
<1>4. ASSUME worker' = Return(worker, w), worker[w].at \in UnderLease,
             UNCHANGED <<request, artifact, outdated>>
      PROVE  Kept(w)
  <2>1. LET d == worker'[w]
        IN  /\ d.at = worker[w].then /\ d.request = worker[w].request /\ d.artifact = None
            /\ d.look = 0 /\ d.then = "prune" /\ (d.fenced <=> worker[w].fenced)
            /\ \A v \in Worker : v # w => worker'[v] = worker[v]
    BY <1>1, <1>4, ReturnIs
  <2>2. Others(w)
    BY <2>1 DEF Others, Alike
  <2> QED
    BY <1>4, <2>1, <2>2, ReturnIsKept
<1>5. ASSUME NEW at \in {"read", "retire"}, worker' = Goto(w, at),
             worker[w].at \in {"review", "score"}, UNCHANGED <<request, artifact, outdated>>
      PROVE  Kept(w)
  <2>1. LET d == worker'[w]
        IN  /\ d.at = at /\ d.artifact = worker[w].artifact /\ d.request = worker[w].request
            /\ d.then = worker[w].then /\ (d.fenced <=> worker[w].fenced)
            /\ \A v \in Worker : v # w => worker'[v] = worker[v]
    BY <1>1, <1>5, GotoIs DEF Place
  <2> QED
    BY <1>3, <1>5, <2>1
<1>6. CASE EndReview(w)
  <2>1. worker[w].at = "review"
        /\ UNCHANGED <<holder, request, artifact, look, scored, outdated, files>>
    BY <1>6 DEF EndReview, rows
  <2>2. Kept(w)
    BY <1>4, <1>5, <1>6, <2>1 DEF EndReview, UnderLease
  <2> QED
    BY <2>1, <2>2, QuietTurn
<1>7. CASE ReadState(w)
  <2>1. worker[w].at = "read" /\ worker' = AtPublish(w)
        /\ UNCHANGED <<holder, request, artifact, look, scored, outdated, files>>
    BY <1>7 DEF ReadState, rows, AtPublish
  <2>2. LET d == worker'[w]
        IN  /\ d.at = "publish" /\ d.artifact = worker[w].artifact /\ d.request = worker[w].request
            /\ d.then = worker[w].then /\ (d.fenced <=> worker[w].fenced)
            /\ \A v \in Worker : v # w => worker'[v] = worker[v]
    BY <1>1, <2>1, AtPublishIs
  <2>3. Kept(w)
    BY <1>3, <2>1, <2>2
  <2> QED
    BY <2>1, <2>3, QuietTurn
<1>8. CASE ClaimDecision(w)
  <2> DEFINE a == worker[w].artifact
  <2>1. Live(w) /\ worker[w].fenced /\ worker[w].at = "review"
        /\ UNCHANGED <<holder, request, artifact, outdated, files>>
    BY <1>8 DEF ClaimDecision, Live
  <2>2. PICK n \in DueLooks(a) :
          /\ look' = [look EXCEPT ![a][n] = [status |-> "consumed", fenced |-> TRUE]]
          /\ scored' = [scored EXCEPT ![a][n] = @ + 1]
          /\ worker' = [worker EXCEPT ![w].at = "score", ![w].look = n]
    BY <1>8 DEF ClaimDecision
  <2>3. n \in 1..Looks /\ look[a][n].status = "open"
    BY <2>2 DEF DueLooks
  <2>4. a \in Artifact /\ artifact[a].role \in {"candidate", "incumbent"} /\ a \notin outdated
    BY <1>2, <2>1 DEF MyArtifact
  <2> HIDE DEF a
  <2>5. LET d == worker'[w]
        IN  /\ d.at = "score" /\ d.artifact = worker[w].artifact /\ d.request = worker[w].request
            /\ d.then = worker[w].then /\ (d.fenced <=> worker[w].fenced)
            /\ \A v \in Worker : v # w => worker'[v] = worker[v]
    BY ZenonT(40), <1>1, <2>2, <2>3, AtScoreIs
  <2>6. Kept(w)
    BY <1>3, <2>1, <2>5
  <2>7. OneRunning'
    BY <2>1 DEF IInv, RequestInv, OneRunning
  <2>8. RoleInv' /\ ResetIsFinal'
    BY <2>1 DEF IInv, RoleInv, OneOfEachRole, HasRole, Supported, HistoryInv, ResetIsFinal
  <2>9. ASSUME NEW b \in Artifact, NEW m \in 1..Looks
        PROVE  /\ scored'[b][m] <= 1
               /\ HasRole(b, "none")' => scored'[b][m] = 0
               /\ b \notin outdated' /\ look'[b][m].status = "open" => scored'[b][m] = 0
    <3>1. /\ scored[b][m] <= 1 /\ (HasRole(b, "none") => scored[b][m] = 0)
          /\ b \notin outdated /\ look[b][m].status = "open" => scored[b][m] = 0
      BY DEF IInv, HistoryInv, LooksCounted
    <3>2. CASE b = a /\ m = n
      <4>1. scored[a][n] = 0
        BY <2>3, <2>4, <3>1, <3>2
      <4>2. scored'[a][n] = 1 /\ look'[a][n].status = "consumed"
        <5>1. scored \in [Artifact -> [1..Looks -> Nat]] /\ scored[a] \in [1..Looks -> Nat]
              /\ look \in [Artifact -> [1..Looks -> LookRow]] /\ look[a] \in [1..Looks -> LookRow]
          BY <2>4 DEF IInv, TypeOK
        <5>2. scored'[a] = [scored[a] EXCEPT ![n] = scored[a][n] + 1]
              /\ look'[a] = [look[a] EXCEPT ![n] = [status |-> "consumed", fenced |-> TRUE]]
          BY <2>2, <2>4, <5>1
        <5>3. scored'[a][n] = scored[a][n] + 1
          BY <2>3, <5>1, <5>2
        <5>4. look'[a][n] = [status |-> "consumed", fenced |-> TRUE]
          BY <2>3, <5>1, <5>2
        <5> QED
          BY <4>1, <5>3, <5>4
      <4> QED
        BY <2>1, <2>4, <3>2, <4>2 DEF HasRole
    <3>3. CASE ~(b = a /\ m = n)
      <4>1. scored'[b][m] = scored[b][m] /\ look'[b][m] = look[b][m]
        BY <2>2, <2>3, <2>4, <3>3 DEF IInv, TypeOK
      <4> QED
        BY <2>1, <3>1, <4>1 DEF HasRole
    <3> QED
      BY <3>2, <3>3
  <2>10. \A b \in Artifact : LooksCounted(b)'
    BY <2>9 DEF LooksCounted
  <2> QED
    BY <2>1, <2>6, <2>7, <2>8, <2>10, Turn
<1>9. CASE FinishDecision(w)
  <2> DEFINE a == worker[w].artifact
             n == worker[w].look
  <2>1. worker[w].at = "score"
        /\ UNCHANGED <<holder, request, artifact, scored, outdated, files>>
    BY <1>9 DEF FinishDecision
  <2>2. look' = [look EXCEPT ![a][n].status = "evaluated"]
    BY <1>9 DEF FinishDecision
  <2>3. Kept(w)
    BY <1>4, <1>5, <1>9, <2>1 DEF FinishDecision, UnderLease
  <2>4. OneRunning'
    BY <2>1 DEF IInv, RequestInv, OneRunning
  <2>5. RoleInv' /\ ResetIsFinal'
    BY <2>1 DEF IInv, RoleInv, OneOfEachRole, HasRole, Supported, HistoryInv, ResetIsFinal
  <2>6. ASSUME NEW b \in Artifact, NEW m \in 1..Looks, look'[b][m].status = "open"
        PROVE  look[b][m].status = "open"
    <3>1. look[b] \in [1..Looks -> LookRow] /\ look[b][m] \in LookRow
      BY DEF IInv, TypeOK
    <3>2. CASE b = a /\ m = n
      <4>1. look'[b][m] = [look[b][m] EXCEPT !.status = "evaluated"]
        BY <2>2, <3>1, <3>2 DEF IInv, TypeOK
      <4> QED
        BY <2>6, <3>1, <4>1 DEF LookRow
    <3>3. CASE ~(b = a /\ m = n)
      <4>1. look'[b][m] = look[b][m]
        BY <2>2, <3>1, <3>3 DEF IInv, TypeOK
      <4> QED
        BY <2>6, <4>1
    <3> QED
      BY <3>2, <3>3
  <2>7. \A b \in Artifact : LooksCounted(b)'
    BY <2>1, <2>6 DEF IInv, HistoryInv, LooksCounted, HasRole
  <2> QED
    BY <2>1, <2>3, <2>4, <2>5, <2>7, Turn
<1>10. CASE Retire(w)
  <2>1. /\ worker[w].at = "retire" /\ Live(w) /\ artifact' = Invalidated(worker[w].artifact)
        /\ worker' = Moved(Return(worker, w))
        /\ UNCHANGED <<holder, request, look, scored, outdated, files>>
    BY <1>10 DEF Retire
  <2> DEFINE ws == Return(worker, w)
  <2>2. LET d == ws[w]
        IN  /\ ws \in [Worker -> WorkerState]
            /\ d.at = worker[w].then /\ d.request = worker[w].request /\ d.artifact = None
            /\ d.look = 0 /\ d.then = "prune" /\ (d.fenced <=> worker[w].fenced)
            /\ \A v \in Worker : v # w => ws[v] = worker[v]
    BY <1>1, ReturnIs
  <2> HIDE DEF ws
  <2>3. \A v \in Worker : Alike(worker'[v], ws[v]) /\ (worker'[v].fenced <=> ws[v].fenced)
                          /\ ~worker'[v].unmoved
    BY <2>1, <2>2, MovedIs DEF ws
  <2>4. Others(w)
    BY <2>2, <2>3 DEF Others
  <2>5. Kept(w)
    BY <2>1, <2>2, <2>3, <2>4, ReturnIsKept DEF Alike, UnderLease
  <2>6. OneRunning'
    BY <2>1 DEF IInv, RequestInv, OneRunning
  <2> QED
    BY <2>1, <2>5, <2>6, InvalidatedKeeps, Turn
<1>11. CASE FindDamage(w)
  <2>1. /\ worker[w].at = "review" /\ Live(w) /\ worker' = Moved(Goto(w, "damaged"))
        /\ UNCHANGED <<holder, request, look, scored, outdated, files>>
    BY <1>11 DEF FindDamage
  <2>2. PICK b : artifact' = Invalidated(b)
    BY <1>11 DEF FindDamage
  <2> DEFINE ws == Goto(w, "damaged")
  <2>3. LET d == ws[w]
        IN  /\ ws \in [Worker -> WorkerState]
            /\ d.at = "damaged" /\ d.request = worker[w].request
            /\ d.artifact = worker[w].artifact
            /\ d.then = worker[w].then /\ (d.fenced <=> worker[w].fenced)
            /\ \A v \in Worker : v # w => ws[v] = worker[v]
    BY <1>1, GotoIs DEF Place
  <2> HIDE DEF ws
  <2>4. \A v \in Worker : Alike(worker'[v], ws[v]) /\ (worker'[v].fenced <=> ws[v].fenced)
                          /\ ~worker'[v].unmoved
    BY <2>1, <2>3, MovedIs DEF ws
  <2>5. Others(w)
    BY <2>3, <2>4 DEF Others
  <2>6. Proper(worker'[w])
    BY <1>2, <2>1, <2>3, <2>4 DEF Proper, Alike
  <2>7. worker[w].fenced => MyRequests(worker[w])' /\ MyArtifact(worker[w])'
    BY <1>2, <2>1, <2>3, <2>4 DEF MyRequests, MyArtifact, UnderLease, Alike
  <2>8. Kept(w)
    BY <2>3, <2>4, <2>5, <2>6, <2>7 DEF Kept
  <2>9. OneRunning'
    BY <2>1 DEF IInv, RequestInv, OneRunning
  <2> QED
    BY <2>1, <2>2, <2>8, <2>9, InvalidatedKeeps, Turn
<1>12. CASE RetireWithComparator(w)
  <2>1. /\ worker[w].at = "damaged" /\ Live(w) /\ worker[w].fenced
        /\ UNCHANGED <<holder, request, look, scored, outdated, files>>
    BY <1>12 DEF RetireWithComparator, Live
  <2>2. OneRunning'
    BY <2>1 DEF IInv, RequestInv, OneRunning
  <2>3. artifact' = artifact \/ \E b : artifact' = Invalidated(b)
    BY <1>12 DEF RetireWithComparator
  <2>4. RoleInv' /\ ResetIsFinal' /\ \A a \in Artifact : LooksCounted(a)'
    BY <2>1, <2>3, SameRoles, InvalidatedKeeps
  <2>5. CASE worker[w].then = "finish"
    <3>1. worker' = [worker EXCEPT ![w].at = "finish", ![w].committed = FALSE]
      BY <1>12, <2>5 DEF RetireWithComparator
    <3>2. LET d == worker'[w]
          IN  /\ d.at = "finish" /\ d.request = worker[w].request
              /\ d.artifact = worker[w].artifact
              /\ d.then = worker[w].then /\ (d.fenced <=> worker[w].fenced)
              /\ \A v \in Worker : v # w => worker'[v] = worker[v]
      BY <1>1, <3>1, AtFinishIs
    <3>3. Others(w)
      BY <3>2 DEF Others, Alike
    <3>4. Proper(worker'[w])
      BY <2>5, <3>2 DEF Proper
    <3>5. MyRequests(worker[w])' /\ MyArtifact(worker[w])'
      BY <1>2, <2>1, <3>2 DEF MyRequests, MyArtifact, UnderLease
    <3>6. Kept(w)
      BY <3>2, <3>3, <3>4, <3>5 DEF Kept
    <3> QED
      BY <2>1, <2>2, <2>4, <3>6, Turn
  <2>6. CASE worker[w].then # "finish"
    <3> DEFINE ws == Forget(worker, w, "prune")
    <3>1. LET d == ws[w]
          IN  /\ ws \in [Worker -> WorkerState]
              /\ d.at = "prune" /\ d.request = None /\ d.artifact = None
              /\ d.look = 0 /\ d.then = "prune" /\ (d.fenced <=> worker[w].fenced)
              /\ \A v \in Worker : v # w => ws[v] = worker[v]
      BY <1>1, ForgetIs DEF Place
    <3> HIDE DEF ws
    <3>2. worker' = ws \/ worker' = Moved(ws)
      BY <1>12, <2>6 DEF RetireWithComparator, ws
    <3>3. \A v \in Worker : Alike(worker'[v], ws[v]) /\ (worker'[v].fenced => ws[v].fenced)
                            /\ (worker'[v].unmoved => ws[v].unmoved)
      BY <3>1, <3>2, MovedIs DEF Alike
    <3>4. Others(w)
      BY <3>1, <3>3 DEF Others
    <3>5. \A r \in Request : request'[r].status # "running"
      BY <1>2, <2>1, <2>6, LifecycleAssumption DEF Proper, MyRequests, UnderLease
    <3>6. Kept(w)
      BY <2>1, <3>1, <3>3, <3>4, <3>5, ForgetIsKept DEF Alike
    <3> QED
      BY <2>1, <2>2, <2>4, <3>6, Turn
  <2> QED
    BY <2>5, <2>6
<1> QED
  BY <1>6, <1>7, <1>8, <1>9, <1>10, <1>11, <1>12
\* A run that gives up or finishes its request goes on without one.
LEMMA NothingRuns ==
  ASSUME IInv, NEW w \in Worker, worker[w].fenced, worker[w].at \in UnderLease,
         \/ worker[w].request = None /\ UNCHANGED request
         \/ \E status \in {"queued", "succeeded", "failed", "cancelled"} : Finished(w, status)
  PROVE  \A r \in Request : request'[r].status # "running"
<1>1. \A r \in Request : request[r].status = "running" => r = worker[w].request
  BY DEF IInv, RequestInv, MyRequests
<1>2. CASE worker[w].request = None /\ UNCHANGED request
  BY <1>1, <1>2, LifecycleAssumption
<1>3. ASSUME NEW status \in {"queued", "succeeded", "failed", "cancelled"}, Finished(w, status)
      PROVE  \A r \in Request : request'[r].status # "running"
  <2>1. \A r \in Request :
          /\ r # worker[w].request => request'[r] = request[r]
          /\ r = worker[w].request => request'[r].status = status
    BY <1>3, FinishedIs DEF IInv, TypeOK
  <2> QED
    BY <1>1, <2>1
<1> QED
  BY <1>2, <1>3

\* The steps after which a run has no request.
LEMMA ForgetSteps ==
  ASSUME IInv, NEW w \in Worker,
         FitNothing(w) \/ FinishRequest(w) \/ Fail(w) \/ Cancel(w) \/ LoseRun(w)
  PROVE  LeaseInv' /\ RequestInv' /\ RoleInv' /\ HistoryInv'
<1>1. worker \in [Worker -> WorkerState]
  BY DEF IInv, TypeOK
<1>2. UNCHANGED <<holder, artifact, look, scored, outdated, files>>
  BY DEF FitNothing, FinishRequest, Fail, Cancel, LoseRun, rows
<1>3. \/ worker' = Forget(worker, w, "prune") \/ worker' = Forget(worker, w, "release")
  BY DEF FitNothing, FinishRequest, Fail, Cancel, LoseRun
<1>4. LET d == worker'[w]
      IN  /\ d.at \in {"prune", "release"} /\ d.request = None /\ d.artifact = None
          /\ d.look = 0 /\ d.then = "prune" /\ (d.fenced <=> worker[w].fenced)
          /\ \A v \in Worker : v # w => worker'[v] = worker[v]
  BY <1>1, <1>3, ForgetIs DEF Place
<1>5. Others(w)
  BY <1>4 DEF Others, Alike
<1>6. CASE FitNothing(w) \/ FinishRequest(w) \/ Fail(w)
  <2>1. Live(w) /\ worker[w].fenced /\ worker[w].at \in UnderLease
    BY <1>6 DEF FitNothing, FinishRequest, Fail, Live, UnderLease
  <2>2. \/ worker[w].request = None /\ UNCHANGED request
        \/ \E status \in {"queued", "succeeded", "failed", "cancelled"} : Finished(w, status)
    BY <1>6 DEF FitNothing, FinishRequest, Fail
  <2>3. \A r \in Request : request'[r].status # "running"
    BY <2>1, <2>2, NothingRuns
  <2>4. Kept(w)
    BY <1>2, <1>4, <1>5, <2>3, ForgetIsKept
  <2>5. OneRunning'
    BY <2>3 DEF OneRunning
  <2> QED
    BY <1>2, <2>1, <2>4, <2>5, SameRoles, Turn
<1>7. CASE Cancel(w) \/ LoseRun(w)
  <2>1. worker' = Forget(worker, w, "release")
    BY <1>7 DEF Cancel, LoseRun
  <2>2. worker'[w].at = "release"
    BY <1>1, <2>1, ForgetIs DEF Place
  <2>3. Kept(w)
    BY <1>2, <1>4, <1>5, <2>2, ForgetIsKept
  <2>4. CASE UNCHANGED request
    BY <1>2, <2>3, <2>4, QuietTurn
  <2>5. CASE Live(w) /\ worker[w].at \in UnderLease /\ Finished(w, "cancelled")
    <3>1. \A r \in Request : request'[r].status # "running"
      BY <2>5, NothingRuns DEF Live
    <3>2. OneRunning'
      BY <3>1 DEF OneRunning
    <3> QED
      BY <1>2, <2>3, <2>5, <3>2, SameRoles, Turn
  <2> QED
    BY <1>7, <2>4, <2>5 DEF Cancel, LoseRun, rows
<1> QED
  BY <1>6, <1>7

\* Claiming a request, fitting and signing an artifact.
LEMMA TrainingSteps ==
  ASSUME IInv, NEW w \in Worker, ClaimRequest(w) \/ Fit(w) \/ Sign(w)
  PROVE  LeaseInv' /\ RequestInv' /\ RoleInv' /\ HistoryInv'
<1>1. worker \in [Worker -> WorkerState] /\ None \notin outdated
  BY LifecycleAssumption DEF IInv, TypeOK
<1>2. Proper(worker[w]) /\ (worker[w].fenced => MyRequests(worker[w]) /\ MyArtifact(worker[w]))
  BY DEF IInv, LeaseInv, RequestInv, HistoryInv
<1>3. CASE ClaimRequest(w)
  <2>1. Live(w) /\ worker[w].fenced /\ worker[w].at = "claim"
        /\ UNCHANGED <<holder, artifact, look, scored, outdated, files>>
    BY <1>3 DEF ClaimRequest, Live
  <2>2. CASE worker' = Goto(w, "prune") /\ UNCHANGED request
    <3>1. LET d == worker'[w]
          IN  /\ d.at = "prune" /\ d.artifact = worker[w].artifact /\ d.request = worker[w].request
              /\ d.then = worker[w].then /\ (d.fenced <=> worker[w].fenced)
              /\ \A v \in Worker : v # w => worker'[v] = worker[v]
      BY <1>1, <2>2, GotoIs DEF Place
    <3>2. Others(w)
      BY <3>1 DEF Others, Alike
    <3>3. Proper(worker'[w])
      BY <1>2, <2>1, <3>1 DEF Proper
    <3>4. MyRequests(worker[w])' /\ MyArtifact(worker[w])'
      BY <1>2, <2>1, <2>2, <3>1 DEF MyRequests, MyArtifact, UnderLease
    <3>5. Kept(w)
      BY <2>1, <3>2, <3>3, <3>4 DEF Kept
    <3> QED
      BY <2>1, <2>2, <3>5, QuietTurn
  <2>3. ASSUME NEW r \in Request,
               request' = [request EXCEPT ![r] = [status |-> "running", fenced |-> TRUE]],
               worker' = [worker EXCEPT ![w].at = "fit", ![w].request = r]
        PROVE  LeaseInv' /\ RequestInv' /\ RoleInv' /\ HistoryInv'
    <3>1. LET d == worker'[w]
          IN  /\ d.at = "fit" /\ d.artifact = worker[w].artifact /\ d.request = r
              /\ d.look = worker[w].look
              /\ d.then = worker[w].then /\ (d.fenced <=> worker[w].fenced)
              /\ \A v \in Worker : v # w => worker'[v] = worker[v]
      BY <1>1, <2>3, AtFitIs
    <3>2. Others(w)
      BY <3>1 DEF Others, Alike
    <3>3. Proper(worker'[w])
      BY <1>2, <2>1, <3>1 DEF Proper
    <3>4. \A q \in Request : request'[q].status = "running" => q = r
      BY <1>2, <2>1, <2>3, LifecycleAssumption
      DEF Proper, MyRequests, UnderLease, IInv, TypeOK
    <3>5. MyRequests(worker[w])' /\ MyArtifact(worker[w])'
      BY <1>2, <2>1, <3>1, <3>4 DEF MyRequests, MyArtifact, UnderLease
    <3>6. Kept(w)
      BY <2>1, <3>2, <3>3, <3>5 DEF Kept
    <3>7. OneRunning'
      BY <3>4 DEF OneRunning
    <3> QED
      BY <2>1, <3>6, <3>7, SameRoles, Turn
  <2> QED
    BY <1>3, <2>2, <2>3 DEF ClaimRequest
<1>4. CASE Fit(w)
  <2>1. worker[w].at = "fit" /\ UNCHANGED <<holder, request, artifact, look, scored, files>>
    BY <1>4 DEF Fit, rows
  <2>2. PICK a \in Artifact :
          /\ HasRole(a, "none")
          /\ worker' = [worker EXCEPT ![w].at = "sign", ![w].artifact = a]
          /\ outdated' = outdated \ {a}
    BY <1>4 DEF Fit
  <2>3. LET d == worker'[w]
        IN  /\ d.at = "sign" /\ d.artifact = a /\ d.request = worker[w].request
            /\ d.look = worker[w].look
            /\ d.then = worker[w].then /\ (d.fenced <=> worker[w].fenced)
            /\ \A v \in Worker : v # w => worker'[v] = worker[v]
    BY <1>1, <2>2, AtSignIs
  <2>4. Others(w)
    BY <2>3 DEF Others, Alike
  <2>5. Proper(worker'[w])
    BY <1>2, <2>1, <2>3, LifecycleAssumption DEF Proper
  <2>6. worker[w].fenced => MyRequests(worker[w])'
    BY <1>2, <2>1, <2>3 DEF MyRequests, UnderLease
  <2>7. MyArtifact(worker[w])'
    BY <2>2, <2>3 DEF MyArtifact
  <2>8. Kept(w)
    BY <2>3, <2>4, <2>5, <2>6, <2>7 DEF Kept
  <2>9. OneRunning'
    BY <2>1 DEF IInv, RequestInv, OneRunning
  <2>10. RoleInv' /\ ResetIsFinal'
    BY <2>1, <2>2 DEF IInv, RoleInv, OneOfEachRole, HasRole, Supported, HistoryInv, ResetIsFinal
  <2>11. \A b \in Artifact : LooksCounted(b)'
    BY <2>1, <2>2 DEF IInv, HistoryInv, LooksCounted, HasRole
  <2> QED
    BY <2>1, <2>2, <2>8, <2>9, <2>10, <2>11, Turn
<1>5. CASE Sign(w)
  <2>1. worker[w].at = "sign" /\ worker' = AtPublish(w) /\ files \subseteq files'
        /\ UNCHANGED <<holder, request, artifact, look, scored, outdated>>
    BY <1>5 DEF Sign, rows, AtPublish
  <2>2. LET d == worker'[w]
        IN  /\ d.at = "publish" /\ d.artifact = worker[w].artifact /\ d.request = worker[w].request
            /\ d.look = worker[w].look
            /\ d.then = worker[w].then /\ (d.fenced <=> worker[w].fenced)
            /\ \A v \in Worker : v # w => worker'[v] = worker[v]
    BY <1>1, <2>1, AtPublishIs
  <2>3. Others(w)
    BY <2>2 DEF Others, Alike
  <2>4. Proper(worker'[w])
    BY <1>2, <2>1, <2>2 DEF Proper
  <2>5. worker[w].fenced => MyRequests(worker[w])'
    BY <1>2, <2>1, <2>2 DEF MyRequests, UnderLease
  <2>6. worker[w].fenced => MyArtifact(worker[w])'
    BY <1>2, <2>1, <2>2 DEF Proper, MyArtifact
  <2>7. Kept(w)
    BY <2>2, <2>3, <2>4, <2>5, <2>6 DEF Kept
  <2> QED
    BY <2>1, <2>7, QuietTurn
<1> QED
  BY <1>3, <1>4, <1>5

\* What publish() makes of the roles.
LEMMA PublishedKeeps ==
  ASSUME IInv, NEW w \in Worker, worker[w].at = "publish", CanPublish(w), Published(w),
         UNCHANGED <<look, files, scored, outdated>>
  PROVE  RoleInv' /\ ResetIsFinal' /\ \A b \in Artifact : LooksCounted(b)'
<1> DEFINE a == worker[w].artifact
           old == worker[w].incumbent
<1>1. /\ a \in files /\ a \in Artifact /\ worker[w].fenced
      /\ TheOne("incumbent") = old
      /\ TheOne("candidate") \in {None, a} \/ (Promotion(w) /\ a = old)
  BY DEF IInv, TypeOK, CanPublish, Live
<1>2. a \notin outdated /\ (Promotion(w) => artifact[a].role \in {"candidate", "incumbent"})
  BY <1>1 DEF IInv, HistoryInv, MyArtifact, Promotion
<1>3. /\ artifact'[a].role = IF Promotion(w) THEN "incumbent" ELSE "candidate"
      /\ Promotion(w) => artifact'[a].comparator = artifact[a].comparator
      /\ ~Promotion(w) => artifact'[a].comparator \in {None} \cup {b \in Artifact : b = old}
      /\ \A b \in Artifact \ {a} :
           /\ artifact'[b].comparator = artifact[b].comparator
           /\ \/ artifact'[b].role = artifact[b].role
              \/ HasRole(b, "incumbent") /\ artifact'[b].role = "rollback"
           /\ Promotion(w) /\ HasRole(b, "incumbent") /\ old # a => artifact'[b].role = "rollback"
  BY <1>1, PublishedIs DEF IInv
<1> HIDE DEF a, old
<1>4. \A role \in {"candidate", "incumbent"} : \A b, c \in Artifact :
        HasRole(b, role) /\ HasRole(c, role) => b = c
  BY DEF IInv, RoleInv, OneOfEachRole
<1>5. OneOfEachRole'
  <2>1. ASSUME NEW b \in Artifact, b # a
        PROVE  ~(artifact'[b].role = artifact'[a].role)
    <3>1. CASE Promotion(w)
      <4>1. CASE old = a
        <5>1. HasRole(a, "incumbent")
          BY <1>1, <4>1, TheOneIs, LifecycleAssumption
        <5>2. ~HasRole(b, "incumbent")
          BY <1>1, <1>4, <2>1, <5>1
        <5> QED
          BY <1>3, <2>1, <3>1, <5>2 DEF HasRole
      <4>2. CASE old # a
        BY <1>3, <2>1, <3>1, <4>2 DEF HasRole
      <4> QED
        BY <4>1, <4>2
    <3>2. CASE ~Promotion(w)
      <4>1. ~HasRole(b, "candidate")
        <5>1. TheOne("candidate") \in {None, a}
          BY <1>1, <3>2
        <5>2. CASE TheOne("candidate") = None
          BY <5>2, TheOneIs, LifecycleAssumption
        <5>3. CASE TheOne("candidate") = a
          <6>1. HasRole(a, "candidate")
            BY <1>1, <5>3, TheOneIs, LifecycleAssumption
          <6> QED
            BY <1>1, <1>4, <2>1, <6>1
        <5> QED
          BY <5>1, <5>2, <5>3
      <4> QED
        BY <1>3, <2>1, <3>2, <4>1 DEF HasRole
    <3> QED
      BY <3>1, <3>2
  <2>2. ASSUME NEW b \in Artifact, NEW c \in Artifact, NEW role \in {"candidate", "incumbent"},
               artifact'[b].role = role, artifact'[c].role = role
        PROVE  b = c
    <3>1. CASE b = a \/ c = a
      BY <2>1, <2>2, <3>1
    <3>2. CASE b # a /\ c # a
      BY <1>3, <1>4, <2>2, <3>2 DEF HasRole
    <3> QED
      BY <3>1, <3>2
  <2> QED
    BY <2>2 DEF OneOfEachRole, HasRole
<1>6. ASSUME NEW b \in Artifact, artifact[b].role \in Protected
      PROVE  artifact'[b].role \in Protected
  BY <1>3, <1>6 DEF Protected
<1>7. ASSUME NEW b \in Artifact
      PROVE  Supported(b)'
  <2>1. Supported(b) /\ artifact[b].comparator \in Artifact \cup {None}
    BY DEF IInv, RoleInv, TypeOK, ArtifactRow
  <2>2. CASE b # a
    <3>1. /\ artifact'[b].role \in {"candidate", "incumbent"} =>
               artifact[b].role \in {"candidate", "incumbent"}
          /\ artifact'[b].comparator = artifact[b].comparator
      BY <1>3, <2>2
    <3> QED
      BY <1>6, <2>1, <3>1 DEF Supported
  <2>3. CASE b = a /\ Promotion(w)
    <3>1. artifact'[a].comparator = artifact[a].comparator
      BY <1>3, <2>3
    <3> QED
      BY <1>1, <1>2, <1>6, <2>1, <2>3, <3>1 DEF Supported
  <2>4. CASE b = a /\ ~Promotion(w)
    <3>1. ASSUME artifact'[a].comparator # None
          PROVE  /\ artifact'[a].comparator \in files
                 /\ artifact'[artifact'[a].comparator].role \in Protected
      <4>1. artifact'[a].comparator = old /\ old \in Artifact
        BY <1>3, <2>4, <3>1
      <4>2. HasRole(old, "incumbent") /\ old \in files
        BY <1>1, <4>1, TheOneIs, LifecycleAssumption DEF IInv, RoleInv, Supported, HasRole
      <4> QED
        BY <1>6, <4>1, <4>2 DEF HasRole, Protected
    <3> QED
      BY <1>1, <2>4, <3>1 DEF Supported
  <2> QED
    BY <2>2, <2>3, <2>4
<1>8. ResetIsFinal'
  BY <1>1, <1>2, <1>3 DEF IInv, HistoryInv, TypeOK, ResetIsFinal, Protected, HasRole
<1>9. ASSUME NEW b \in Artifact
      PROVE  LooksCounted(b)'
  <2>1. LooksCounted(b)
    BY DEF IInv, HistoryInv
  <2>2. HasRole(b, "none")' => HasRole(b, "none")
    BY <1>1, <1>3 DEF HasRole
  <2> QED
    BY <2>1, <2>2 DEF LooksCounted
<1> QED
  BY <1>5, <1>7, <1>8, <1>9 DEF RoleInv
\* Publishing, and finding out whether it was done.
LEMMA PublishSteps ==
  ASSUME IInv, NEW w \in Worker,
         Publish(w) \/ RefusePublication(w) \/ LoseCommit(w) \/ ReadBack(w)
  PROVE  LeaseInv' /\ RequestInv' /\ RoleInv' /\ HistoryInv'
<1>1. worker \in [Worker -> WorkerState] /\ None \notin outdated
  BY LifecycleAssumption DEF IInv, TypeOK
<1>2. Proper(worker[w]) /\ (worker[w].fenced => MyRequests(worker[w]) /\ MyArtifact(worker[w]))
  BY DEF IInv, LeaseInv, RequestInv, HistoryInv
<1>3. worker[w].at \in {"publish", "readback"}
      /\ UNCHANGED <<holder, request, look, scored, outdated, files>>
  BY DEF Publish, RefusePublication, LoseCommit, ReadBack, rows
<1>4. OneRunning'
  BY <1>3 DEF IInv, RequestInv, OneRunning
\* What a publication or a refusal makes of the runner, up to a new revision.
<1>5. ASSUME NEW ws, worker' = ws \/ worker' = Moved(ws),
             \/ ws = AfterPublication(worker, w) /\ Promotion(w)
             \/ ws = AfterRefusal(w) /\ Promotion(w)
      PROVE  Kept(w)
  <2>1. ws = Return(worker, w)
    BY <1>5 DEF AfterPublication, AfterRefusal
  <2>2. LET d == ws[w]
        IN  /\ ws \in [Worker -> WorkerState]
            /\ d.at = worker[w].then /\ d.request = worker[w].request /\ d.artifact = None
            /\ d.look = 0 /\ d.then = "prune" /\ (d.fenced <=> worker[w].fenced)
            /\ \A v \in Worker : v # w => ws[v] = worker[v]
    BY <1>1, <2>1, ReturnIs
  <2>3. \A v \in Worker : /\ Alike(worker'[v], ws[v])
                          /\ worker'[v].fenced => ws[v].fenced
                          /\ worker'[v].unmoved => ws[v].unmoved
    BY <1>5, <2>2, MovedIs DEF Alike
  <2>4. Others(w)
    BY <2>2, <2>3 DEF Others
  <2> QED
    BY <1>3, <2>2, <2>3, <2>4, ReturnIsKept DEF Alike, UnderLease
<1>6. ASSUME NEW ws, worker' = ws \/ worker' = Moved(ws),
             ws = AfterPublication(worker, w), ~Promotion(w),
             worker[w].fenced => /\ worker[w].artifact \in Artifact
                                 /\ artifact'[worker[w].artifact].role = "candidate"
      PROVE  Kept(w)
  <2>1. LET d == ws[w]
        IN  /\ ws \in [Worker -> WorkerState]
            /\ d.at = "review" /\ d.request = worker[w].request
            /\ d.artifact = worker[w].artifact
            /\ d.then = "finish" /\ (d.fenced <=> worker[w].fenced)
            /\ \A v \in Worker : v # w => ws[v] = worker[v]
    BY <1>1, <1>6, AfterPublicationIs
  <2>2. \A v \in Worker : /\ Alike(worker'[v], ws[v])
                          /\ worker'[v].fenced => ws[v].fenced
                          /\ worker'[v].unmoved => ws[v].unmoved
    BY <1>6, <2>1, MovedIs DEF Alike
  <2>3. Others(w)
    BY <2>1, <2>2 DEF Others
  <2>4. Proper(worker'[w])
    BY <2>1, <2>2 DEF Proper, Alike
  <2>5. worker[w].fenced => MyRequests(worker[w])'
    BY <1>2, <1>3, <2>1, <2>2 DEF MyRequests, UnderLease, Alike
  <2>6. worker[w].fenced => MyArtifact(worker[w])'
    BY <1>2, <1>3, <1>6, <2>1, <2>2 DEF MyArtifact, Alike, HasRole
  <2> QED
    BY <2>1, <2>2, <2>3, <2>4, <2>5, <2>6 DEF Kept
<1>7. ASSUME worker' = Goto(w, "finish"), UNCHANGED artifact
      PROVE  Kept(w)
  <2>1. LET d == worker'[w]
        IN  /\ d.at = "finish" /\ d.artifact = worker[w].artifact /\ d.request = worker[w].request
            /\ d.then = worker[w].then /\ (d.fenced <=> worker[w].fenced)
            /\ \A v \in Worker : v # w => worker'[v] = worker[v]
    BY <1>1, <1>7, GotoIs DEF Place
  <2>2. Others(w)
    BY <2>1 DEF Others, Alike
  <2>3. Proper(worker'[w])
    BY <1>2, <1>3, <2>1 DEF Proper
  <2>4. worker[w].fenced => MyRequests(worker[w])' /\ MyArtifact(worker[w])'
    BY <1>2, <1>3, <1>7, <2>1 DEF MyRequests, MyArtifact, UnderLease
  <2> QED
    BY <2>1, <2>2, <2>3, <2>4 DEF Kept
<1>8. CASE Publish(w)
  <2>1. /\ worker[w].at = "publish" /\ CanPublish(w) /\ Published(w) /\ Live(w)
        /\ worker' = Moved(AfterPublication(worker, w)) /\ worker[w].artifact \in Artifact
    BY <1>8 DEF Publish, CanPublish, IInv, TypeOK
  <2>2. RoleInv' /\ ResetIsFinal' /\ \A b \in Artifact : LooksCounted(b)'
    BY <1>3, <2>1, PublishedKeeps
  <2>3. ~Promotion(w) => artifact'[worker[w].artifact].role = "candidate"
    BY <2>1, PublishedIs DEF IInv
  <2>4. Kept(w)
    BY <1>5, <1>6, <2>1, <2>3
  <2> QED
    BY <1>3, <1>4, <2>1, <2>2, <2>4, Turn
<1>9. CASE RefusePublication(w)
  <2>1. worker' = AfterRefusal(w) /\ UNCHANGED artifact
    BY <1>9 DEF RefusePublication, rows
  <2>2. Kept(w)
    BY <1>5, <1>7, <2>1 DEF AfterRefusal
  <2> QED
    BY <1>3, <2>1, <2>2, QuietTurn
<1>10. CASE ReadBack(w)
  <2>1. UNCHANGED artifact /\ worker[w].at = "readback"
    BY <1>10 DEF ReadBack, rows
  <2>2. CASE worker[w].unmoved
    <3>1. worker' = AfterPublication(worker, w)
      BY <1>10, <2>2 DEF ReadBack
    <3>2. ~Promotion(w) /\ worker[w].fenced =>
            worker[w].artifact \in Artifact /\ artifact'[worker[w].artifact].role = "candidate"
      BY <1>2, <2>1, <2>2 DEF MyArtifact, Promotion, HasRole
    <3>3. Kept(w)
      BY <1>5, <1>6, <3>1, <3>2
    <3> QED
      BY <1>3, <2>1, <3>3, QuietTurn
  <2>3. CASE ~worker[w].unmoved
    <3>1. worker' = AfterRefusal(w)
      BY <1>10, <2>3 DEF ReadBack
    <3>2. Kept(w)
      BY <1>5, <1>7, <2>1, <3>1 DEF AfterRefusal
    <3> QED
      BY <1>3, <2>1, <3>2, QuietTurn
  <2> QED
    BY <2>2, <2>3
<1>11. CASE LoseCommit(w)
  <2>1. worker[w].at = "publish" /\ CanPublish(w) /\ Live(w) /\ worker[w].artifact \in Artifact
    BY <1>11 DEF LoseCommit, CanPublish, IInv, TypeOK
  <2>2. ASSUME LET d == worker'[w]
               IN  /\ d.at = "readback" /\ d.artifact = worker[w].artifact
                   /\ d.request = worker[w].request /\ d.look = worker[w].look
                   /\ d.then = worker[w].then /\ (d.fenced <=> worker[w].fenced),
               worker'[w].unmoved /\ ~Promotion(w) => artifact'[worker[w].artifact].role = "candidate",
               Others(w)
        PROVE  Kept(w)
    <3>1. Proper(worker'[w])
      BY <1>2, <2>1, <2>2 DEF Proper
    <3>2. worker[w].fenced => MyRequests(worker[w])'
      BY <1>2, <1>3, <2>1, <2>2 DEF MyRequests, UnderLease
    <3>3. worker[w].fenced => MyArtifact(worker[w])'
      BY <1>2, <1>3, <2>1, <2>2 DEF MyArtifact, Promotion, HasRole
    <3> QED
      BY <2>2, <3>1, <3>2, <3>3 DEF Kept
  <2>3. CASE Published(w) /\ worker' = [Moved(Goto(w, "readback")) EXCEPT ![w].unmoved = TRUE]
    <3> DEFINE gs == Goto(w, "readback")
               ms == Moved(gs)
    <3>1. LET d == gs[w]
          IN  /\ gs \in [Worker -> WorkerState]
              /\ d.at = "readback" /\ d.artifact = worker[w].artifact
              /\ d.request = worker[w].request /\ d.look = worker[w].look
              /\ d.then = worker[w].then /\ (d.fenced <=> worker[w].fenced)
              /\ \A v \in Worker : v # w => gs[v] = worker[v]
      BY <1>1, GotoIs DEF Place
    <3> HIDE DEF gs
    <3>2. /\ ms \in [Worker -> WorkerState]
          /\ \A v \in Worker : /\ Alike(ms[v], gs[v])
                               /\ ms[v].fenced <=> gs[v].fenced
                               /\ ~ms[v].unmoved
      BY <3>1, MovedIs
    <3> HIDE DEF ms
    <3>3. ms \in [Worker -> WorkerState] /\ worker' = [ms EXCEPT ![w].unmoved = TRUE]
      BY <2>3, <3>2 DEF ms, gs
    <3>4. Alike([ms EXCEPT ![w].unmoved = TRUE][w], ms[w])
          /\ ([ms EXCEPT ![w].unmoved = TRUE][w].fenced <=> ms[w].fenced)
      BY <3>3, GivenIs
    <3>5. \A v \in Worker : v # w => worker'[v] = ms[v]
      BY <3>3
    <3>6. Others(w)
      BY <3>1, <3>2, <3>5 DEF Others, Alike
    <3>7. ~Promotion(w) => artifact'[worker[w].artifact].role = "candidate"
      BY <2>1, <2>3, PublishedIs DEF IInv
    <3>8. Kept(w)
      BY <2>2, <3>1, <3>2, <3>3, <3>4, <3>6, <3>7 DEF Alike
    <3>9. RoleInv' /\ ResetIsFinal' /\ \A b \in Artifact : LooksCounted(b)'
      BY <1>3, <2>1, <2>3, PublishedKeeps
    <3> QED
      BY <1>3, <1>4, <2>1, <3>8, <3>9, Turn
  <2>4. CASE UNCHANGED artifact
             /\ worker' = [worker EXCEPT ![w].at = "readback", ![w].unmoved = FALSE]
    <3>1. LET d == worker'[w]
          IN  /\ d.at = "readback" /\ d.artifact = worker[w].artifact
              /\ d.request = worker[w].request /\ d.look = worker[w].look
              /\ d.then = worker[w].then /\ (d.fenced <=> worker[w].fenced) /\ ~d.unmoved
              /\ \A v \in Worker : v # w => worker'[v] = worker[v]
      BY <1>1, <2>4, NotCommittedIs
    <3>2. Others(w)
      BY <3>1 DEF Others, Alike
    <3>3. Kept(w)
      BY <2>2, <3>1, <3>2
    <3> QED
      BY <1>3, <2>4, <3>3, QuietTurn
  <2> QED
    BY <1>11, <2>3, <2>4 DEF LoseCommit
<1> QED
  BY <1>8, <1>9, <1>10, <1>11

\* Pruning takes only what nobody relies on.
LEMMA PruneStep ==
  ASSUME IInv, NEW w \in Worker, Prune(w)
  PROVE  LeaseInv' /\ RequestInv' /\ RoleInv' /\ HistoryInv'
<1>1. /\ worker \in [Worker -> WorkerState] /\ worker[w].at = "prune" /\ Live(w)
      /\ UNCHANGED <<holder, outdated>>
  BY DEF IInv, TypeOK, Prune
<1>2. Proper(worker[w]) /\ (worker[w].fenced => MyRequests(worker[w]) /\ MyArtifact(worker[w]))
  BY DEF IInv, LeaseInv, RequestInv, HistoryInv
<1>3. ASSUME NEW a \in Artifact,
             /\ artifact[a].role \notin Protected
             /\ files' = files \ {a}
             /\ artifact' = [artifact EXCEPT ![a] = NoRow]
             /\ look' = [look EXCEPT ![a] = NoLooks]
             /\ scored' = [scored EXCEPT ![a] = NeverScored]
             /\ UNCHANGED <<request, worker>>
      PROVE  LeaseInv' /\ RequestInv' /\ RoleInv' /\ HistoryInv'
  <2>1. /\ artifact'[a].role = "none" /\ artifact'[a].comparator = None
        /\ \A b \in Artifact : b # a => artifact'[b] = artifact[b] /\ look'[b] = look[b]
                                        /\ scored'[b] = scored[b]
        /\ scored'[a] = NeverScored
    BY <1>3 DEF IInv, TypeOK, NoRow
  <2>2. Kept(w)
    <3>1. Others(w)
      BY <1>3 DEF Others, Alike
    <3>2. MyRequests(worker[w])' /\ MyArtifact(worker[w])'
      BY <1>1, <1>2, <1>3 DEF MyRequests, MyArtifact, Live
    <3> QED
      BY <1>1, <1>2, <1>3, <3>1, <3>2 DEF Kept, Live
  <2>3. OneRunning'
    BY <1>3 DEF IInv, RequestInv, OneRunning
  <2>4. OneOfEachRole'
    BY <2>1 DEF IInv, RoleInv, OneOfEachRole, HasRole
  <2>5. ASSUME NEW b \in Artifact
        PROVE  Supported(b)'
    <3>1. Supported(b) /\ artifact[b].comparator \in Artifact \cup {None}
      BY DEF IInv, RoleInv, TypeOK, ArtifactRow
    <3>2. artifact'[b].role \in {"candidate", "incumbent"} => b # a /\ artifact'[b] = artifact[b]
      BY <2>1
    <3> QED
      BY <1>3, <2>1, <3>1, <3>2 DEF Supported
  <2>6. ResetIsFinal'
    BY <1>1, <2>1 DEF IInv, HistoryInv, TypeOK, ResetIsFinal, Protected
  <2>7. ASSUME NEW b \in Artifact
        PROVE  LooksCounted(b)'
    <3>1. LooksCounted(b)
      BY DEF IInv, HistoryInv
    <3>2. CASE b = a
      <4>1. \A n \in 1..Looks : scored'[a][n] = 0
        BY <2>1 DEF NeverScored
      <4> QED
        BY <3>2, <4>1 DEF LooksCounted
    <3>3. CASE b # a
      BY <1>1, <2>1, <3>1, <3>3 DEF LooksCounted, HasRole
    <3> QED
      BY <3>2, <3>3
  <2> QED
    BY <1>1, <2>2, <2>3, <2>4, <2>5, <2>6, <2>7, Turn DEF RoleInv
<1>4. ASSUME NEW r \in Request, request' = [request EXCEPT ![r] = NoRequest],
             UNCHANGED <<artifact, look, files, worker, scored>>
      PROVE  LeaseInv' /\ RequestInv' /\ RoleInv' /\ HistoryInv'
  <2>1. \A q \in Request : request'[q].status = "running" => request[q].status = "running"
    BY <1>4 DEF IInv, TypeOK, NoRequest
  <2>2. OneRunning'
    BY <2>1 DEF IInv, RequestInv, OneRunning
  <2>3. Kept(w)
    <3>1. Others(w)
      BY <1>4 DEF Others, Alike
    <3>2. MyRequests(worker[w])' /\ MyArtifact(worker[w])'
      BY <1>1, <1>2, <1>4, <2>1 DEF MyRequests, MyArtifact, Live
    <3> QED
      BY <1>1, <1>2, <1>4, <3>1, <3>2 DEF Kept, Live
  <2> QED
    BY <1>1, <1>4, <2>2, <2>3, SameRoles, Turn
<1>5. ASSUME worker' = Goto(w, "release"), UNCHANGED <<request, artifact, look, files, scored>>
      PROVE  LeaseInv' /\ RequestInv' /\ RoleInv' /\ HistoryInv'
  <2>1. LET d == worker'[w]
        IN  /\ d.at = "release" /\ d.artifact = worker[w].artifact /\ d.request = worker[w].request
            /\ d.then = worker[w].then /\ (d.fenced <=> worker[w].fenced)
            /\ \A v \in Worker : v # w => worker'[v] = worker[v]
    BY <1>1, <1>5, GotoIs DEF Place
  <2>2. Others(w)
    BY <2>1 DEF Others, Alike
  <2>3. Proper(worker'[w])
    BY <1>1, <1>2, <2>1 DEF Proper
  <2>4. worker[w].fenced => MyRequests(worker[w])' /\ MyArtifact(worker[w])'
    BY <1>1, <1>2, <2>1 DEF MyRequests, MyArtifact, UnderLease
  <2>5. Kept(w)
    BY <2>1, <2>2, <2>3, <2>4 DEF Kept
  <2> QED
    BY <1>1, <1>5, <2>5, QuietTurn
<1> QED
  BY <1>3, <1>4, <1>5 DEF Prune

-----------------------------------------------------------------------------
(***************************************************************************)
(* What happens around the runners.                                        *)
(***************************************************************************)

\* Nobody has a number any more.
LEMMA AllUnfenced ==
  ASSUME IInv, worker' = Fenced(worker)
  PROVE  /\ LeaseInv'
         /\ \A v \in Worker : ~worker'[v].fenced
<1>1. \A v \in Worker : Alike(worker'[v], worker[v]) /\ ~worker'[v].fenced
  BY FencedIs DEF IInv, TypeOK
<1>2. \A v \in Worker : Proper(worker'[v])
  BY <1>1, AlikeIsKept DEF IInv, LeaseInv
<1> QED
  BY <1>1, <1>2 DEF LeaseInv

\* The gate, resets, time and the routes.
LEMMA EnvironmentSteps ==
  ASSUME IInv, Environment
  PROVE  LeaseInv' /\ RequestInv' /\ RoleInv' /\ HistoryInv'
<1>1. CASE UNCHANGED <<worker, holder, request, artifact, look, files, scored, outdated>>
  <2>1. LeaseInv' /\ RequestInv'
    BY <1>1 DEF IInv, LeaseInv, RequestInv, OneRunning, MyRequests
  <2>2. \A w \in Worker : worker[w].fenced => MyArtifact(worker[w])'
    BY <1>1 DEF IInv, HistoryInv, MyArtifact, HasRole
  <2> QED
    BY <1>1, <2>1, <2>2, SameRoles DEF HistoryInv
<1>2. ASSUME NEW r \in Request, QueueRequest(r)
      PROVE  LeaseInv' /\ RequestInv' /\ RoleInv' /\ HistoryInv'
  <2>1. UNCHANGED <<worker, holder, artifact, look, files, scored, outdated>>
    BY <1>2 DEF QueueRequest
  <2>2. \A q \in Request : request'[q].status = "running" => request'[q] = request[q]
    <3>1. request[r] \in RequestRow
      BY DEF IInv, TypeOK
    <3>2. request'[r].status = "queued" /\ \A q \in Request : q # r => request'[q] = request[q]
      BY <1>2, <3>1 DEF QueueRequest, RequestRow, IInv, TypeOK
    <3> QED
      BY <3>2
  <2>3. LeaseInv'
    BY <2>1 DEF IInv, LeaseInv
  <2>4. RequestInv'
    BY <2>1, <2>2 DEF IInv, RequestInv, OneRunning, MyRequests
  <2>5. \A w \in Worker : worker[w].fenced => MyArtifact(worker[w])'
    BY <2>1 DEF IInv, HistoryInv, MyArtifact, HasRole
  <2> QED
    BY <2>1, <2>3, <2>4, <2>5, SameRoles DEF HistoryInv
<1>3. ASSUME NEW enabled \in BOOLEAN, SetMaintenance(enabled)
      PROVE  LeaseInv' /\ RequestInv' /\ RoleInv' /\ HistoryInv'
  <2>1. CASE gate = enabled
    BY <1>1, <1>3, <2>1 DEF SetMaintenance
  <2>2. CASE gate # enabled
    <3>1. /\ worker' = Fenced(worker) /\ look' = LooksUnfenced
          /\ UNCHANGED <<artifact, files, scored, outdated>>
      BY <1>3, <2>2 DEF SetMaintenance
    <3>2. \A r \in Request : request'[r].status = "running" => request[r].status = "running"
      BY <1>3, <2>2 DEF SetMaintenance
    <3>3. OneRunning'
      BY <3>2 DEF IInv, RequestInv, OneRunning
    <3>4. LeaseInv' /\ \A v \in Worker : ~worker'[v].fenced
      BY <3>1, AllUnfenced
    <3>5. RoleInv' /\ ResetIsFinal'
      BY <3>1 DEF IInv, RoleInv, OneOfEachRole, HasRole, Supported, HistoryInv, ResetIsFinal
    <3>6. \A a \in Artifact : \A n \in 1..Looks : look'[a][n].status = look[a][n].status
      BY <3>1, UnfencedIs DEF IInv, TypeOK
    <3>7. \A a \in Artifact : LooksCounted(a)'
      BY <3>1, <3>6 DEF IInv, HistoryInv, LooksCounted, HasRole
    <3> QED
      BY <3>3, <3>4, <3>5, <3>7 DEF RequestInv, HistoryInv
  <2> QED
    BY <2>1, <2>2
<1>4. CASE Reset
  <2>1. /\ worker' = Fenced(worker) /\ look' = [a \in Artifact |-> NoLooks]
        /\ outdated' = {a \in Artifact : ~HasRole(a, "none") \/ a \in files \/ InHand(a)}
        /\ UNCHANGED <<files, scored>>
    BY <1>4 DEF Reset
  <2>2. LeaseInv' /\ \A v \in Worker : ~worker'[v].fenced
    BY <2>1, AllUnfenced
  <2>3. \A r \in Request : request'[r].status # "running"
    BY <1>4 DEF Reset
  <2>4. \A a \in Artifact : /\ artifact'[a].role \in {"none", "unreferenced"}
                            /\ artifact'[a].role = "none" => HasRole(a, "none")
    <3>1. ASSUME NEW a \in Artifact, ~HasRole(a, "none")
          PROVE  artifact'[a].role = "unreferenced"
      <4>1. artifact'[a] = [artifact[a] EXCEPT !.role = "unreferenced", !.qualified = FALSE]
        BY <1>4, <3>1 DEF Reset
      <4>2. artifact[a] \in ArtifactRow
        BY DEF IInv, TypeOK
      <4> QED
        BY <4>1, <4>2 DEF ArtifactRow
    <3>2. ASSUME NEW a \in Artifact, HasRole(a, "none")
          PROVE  artifact'[a].role = "none"
      BY <1>4, <3>2 DEF Reset, HasRole
    <3> QED
      BY <3>1, <3>2
  <2>5. RequestInv'
    BY <2>2, <2>3 DEF RequestInv, OneRunning
  <2>6. RoleInv'
    BY <2>4 DEF RoleInv, OneOfEachRole, HasRole, Supported
  <2>7. ResetIsFinal'
    BY <2>1, <2>4 DEF ResetIsFinal, Protected
  <2>8. ASSUME NEW a \in Artifact
        PROVE  LooksCounted(a)'
    <3>1. LooksCounted(a)
      BY DEF IInv, HistoryInv
    <3>2. a \notin outdated' => HasRole(a, "none")
      BY <2>1
    <3>3. HasRole(a, "none")' => HasRole(a, "none")
      BY <2>4 DEF HasRole
    <3> QED
      BY <2>1, <3>1, <3>2, <3>3 DEF LooksCounted
  <2> QED
    BY <2>2, <2>5, <2>6, <2>7, <2>8 DEF HistoryInv
<1>5. CASE Expire
  BY <1>1, <1>5 DEF Expire
<1>6. CASE CycleDue
  BY <1>1, <1>6 DEF CycleDue
<1>7. ASSUME NEW a \in Artifact, Mature(a)
      PROVE  LeaseInv' /\ RequestInv' /\ RoleInv' /\ HistoryInv'
  BY <1>1, <1>7 DEF Mature, rows
<1> QED
  BY <1>2, <1>3, <1>4, <1>5, <1>6, <1>7 DEF Environment

-----------------------------------------------------------------------------
(***************************************************************************)
(* The invariant and what follows from it.                                 *)
(***************************************************************************)
\* The invariant holds when the poller is first started.
LEMMA InvariantInitially == Init => IInv
<1> SUFFICES ASSUME Init PROVE IInv
  OBVIOUS
<1>1. TypeOK
  <2>1. NoRow \in ArtifactRow /\ NoRequest \in RequestRow /\ NoLooks \in [1..Looks -> LookRow]
        /\ NeverScored \in [1..Looks -> Nat] /\ 0 \in 0..(Looks + 1) /\ 0 \in 0..MaxFaults
    BY LifecycleAssumption
    DEF NoRow, NoRequest, NoLooks, NeverScored, ArtifactRow, RequestRow, LookRow
  <2> QED
    BY <2>1, IdleIs DEF Init, TypeOK
<1>2. LeaseInv
  BY IdleIs DEF Init, LeaseInv, Proper
<1>3. RequestInv
  BY IdleIs DEF Init, RequestInv, OneRunning, NoRequest
<1>4. RoleInv
  BY DEF Init, RoleInv, OneOfEachRole, HasRole, NoRow, Supported
<1>5. HistoryInv
  BY IdleIs DEF Init, HistoryInv, ResetIsFinal, LooksCounted, NeverScored
<1> QED
  BY <1>1, <1>2, <1>3, <1>4, <1>5 DEF IInv

\* Every step of a runner, and everything around it, keeps the invariant.
LEMMA InvariantKept == IInv /\ [Next]_vars => IInv'
<1> SUFFICES ASSUME IInv, [Next]_vars PROVE IInv'
  OBVIOUS
<1>1. ASSUME NEW w \in Worker, Step(w) \/ Fault(w)
      PROVE  IInv'
  <2>1. TypeOK'
    BY <1>1, TypeStep DEF IInv
  <2>2. LeaseInv' /\ RequestInv' /\ RoleInv' /\ HistoryInv'
    BY <1>1, LeaseSteps, CycleSteps, ReviewSteps, ForgetSteps, TrainingSteps, PublishSteps, PruneStep
    DEF Step, Fault
  <2> QED
    BY <2>1, <2>2 DEF IInv
<1>2. CASE Environment
  BY <1>2, TypeEnvironment, EnvironmentSteps DEF IInv
<1>3. CASE UNCHANGED vars
  <2>1. TypeOK'
    BY <1>3 DEF vars, rows, IInv, TypeOK
  <2>2. LeaseInv' /\ RequestInv'
    BY <1>3 DEF vars, rows, IInv, LeaseInv, RequestInv, OneRunning, MyRequests
  <2>3. \A w \in Worker : worker[w].fenced => MyArtifact(worker[w])'
    BY <1>3 DEF vars, rows, IInv, HistoryInv, MyArtifact, HasRole
  <2>4. RoleInv' /\ ResetIsFinal' /\ \A a \in Artifact : LooksCounted(a)'
    BY <1>3, SameRoles DEF vars, rows
  <2> QED
    BY <1>3, <2>1, <2>2, <2>3, <2>4 DEF IInv, HistoryInv, vars
<1> QED
  BY <1>1, <1>2, <1>3 DEF Next

\* The inductive invariant holds always.
THEOREM Invariant == Spec => []IInv
<1> QED
  BY InvariantInitially, InvariantKept, PTL DEF Spec

\* The rows, files and runners are always as described (the schema and the
\* dataclasses of ml/lifecycle.py).
THEOREM TypeCorrect == Spec => []TypeOK
<1>1. IInv => TypeOK
  BY DEF IInv
<1> QED
  BY <1>1, Invariant, PTL

\* However many runners overlap, lose their leases and commits or die, publish()
\* leaves a component with one candidate and one incumbent at most.
THEOREM RolesAreUnique == Spec => []OneOfEachRole
<1>1. IInv => OneOfEachRole
  BY DEF IInv, RoleInv
<1> QED
  BY <1>1, Invariant, PTL

\* No model fitted to data from before a reset gets a role again.
THEOREM ResetsAreFinal == Spec => []ResetIsFinal
<1>1. IInv => ResetIsFinal
  BY DEF IInv, HistoryInv
<1> QED
  BY <1>1, Invariant, PTL

\* However often reviews are repeated, each checkpoint is scored once at most.
THEOREM LooksAreSingle == Spec => []OneLookEach
<1>1. IInv => OneLookEach
  BY DEF IInv, HistoryInv, LooksCounted, OneLookEach
<1> QED
  BY <1>1, Invariant, PTL

\* Pruning never takes a file that scoring a candidate or an incumbent needs.
THEOREM ComparatorsAreKept == Spec => []ComparatorsKept
<1>1. ASSUME IInv
      PROVE  ComparatorsKept
  BY <1>1 DEF IInv, RoleInv, Supported, ComparatorsKept
<1> QED
  BY <1>1, Invariant, PTL

\* The unique index on running requests never has to refuse a claim.
THEOREM RunsAreSingle == Spec => []OneRunning
<1>1. IInv => OneRunning
  BY DEF IInv, RequestInv
<1> QED
  BY <1>1, Invariant, PTL
=============================================================================
