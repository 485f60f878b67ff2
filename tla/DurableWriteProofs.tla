------------------------- MODULE DurableWriteProofs -------------------------
(***************************************************************************)
(* FirestoreWrites implements DurableWrite: a registration writes its      *)
(* document once, and what its callback is told is what became of the      *)
(* write. EveryWriteOnce is the invariant that needs, WritesAreDurable the *)
(* refinement.                                                             *)
(***************************************************************************)
EXTENDS FirestoreWritesProofs

(* The completion of r's createUser waits on the main queue or is being    *)
(* run, r's setData waits on the worker queue, r's batch in a mutation     *)
(* queue.                                                                  *)
Completions == {"created", "saving"}

Created(i, r) == mainQueue[i].kind \in Completions /\ mainQueue[i].reg = r

Writes(i, r) == tasks[i].kind = "write" /\ tasks[i].reg = r

Queued(r) == \E u \in Users : \E i \in DOMAIN queue[u] : queue[u][i].reg = r

(* r has no batch yet.                                                     *)
Fresh(r) == ~Queued(r) /\ outcome[r] = "none"

(* A registration calls setData once, and its batch is not there before.   *)
OneCall ==
  \A r \in Registrations :
    /\ \A i, j \in DOMAIN mainQueue : Created(i, r) /\ Created(j, r) => i = j
    /\ \A i, j \in DOMAIN tasks : Writes(i, r) /\ Writes(j, r) => i = j
    /\ \A i \in DOMAIN mainQueue, j \in DOMAIN tasks : ~(Created(i, r) /\ Writes(j, r))
    /\ \A i \in DOMAIN mainQueue : Created(i, r) => Fresh(r) /\ r \in accounts
    /\ \A i \in DOMAIN tasks : Writes(i, r) => Fresh(r) /\ r \in accounts
    /\ r \notin accounts => Fresh(r)

(* A write is one row of one queue until it leaves.                        *)
OneRow ==
  /\ \A u, v \in Users : \A i \in DOMAIN queue[u], j \in DOMAIN queue[v] :
       queue[u][i].reg = queue[v][j].reg => u = v /\ i = j
  /\ \A r \in Registrations : Queued(r) => outcome[r] = "none"

(* Nothing is said of a write before it has a batch.                       *)
Untouched ==
  \A r \in Registrations : Fresh(r) => told[r] = "none" /\ r \notin late /\ r \notin applied

(* A callback that waits has not been called, and an answer is of a write  *)
(* the server has applied.                                                 *)
Tells ==
  /\ \A u \in Users : \A c \in waiting[u] : told[c.reg] = "none"
  /\ \A i \in DOMAIN remote.call.answers :
       remote.call.answers[i] # Hello => remote.call.answers[i].reg \in applied

DInv == OneCall /\ OneRow /\ Untouched /\ Tells
-----------------------------------------------------------------------------
(* Blocks and tasks move on; none of these is a new call of setData.       *)
LEMMA CallsKept ==
  ASSUME OneCall, TypeOK, NEW d \in {0, 1}, NEW e \in {0, 1},
         \A i \in DOMAIN mainQueue' : mainQueue'[i].kind \in Completions =>
           i \in Nat /\ i + d \in DOMAIN mainQueue /\ mainQueue'[i] = mainQueue[i + d],
         \A i \in DOMAIN tasks' : tasks'[i].kind = "write" =>
           i \in Nat /\ i + e \in DOMAIN tasks /\ tasks'[i] = tasks[i + e],
         \A r \in Registrations : Fresh(r)' <=> Fresh(r),
         accounts' = accounts
  PROVE  OneCall'
<1> SUFFICES ASSUME NEW r \in Registrations
             PROVE  /\ \A i, j \in DOMAIN mainQueue' : Created(i, r)' /\ Created(j, r)' => i = j
                    /\ \A i, j \in DOMAIN tasks' : Writes(i, r)' /\ Writes(j, r)' => i = j
                    /\ \A i \in DOMAIN mainQueue', j \in DOMAIN tasks' : ~(Created(i, r)' /\ Writes(j, r)')
                    /\ \A i \in DOMAIN mainQueue' : Created(i, r)' => Fresh(r)' /\ r \in accounts'
                    /\ \A i \in DOMAIN tasks' : Writes(i, r)' => Fresh(r)' /\ r \in accounts'
                    /\ r \notin accounts' => Fresh(r)'
  BY DEF OneCall
<1>1. \A i \in DOMAIN mainQueue' : Created(i, r)' => i \in Nat /\ i + d \in DOMAIN mainQueue /\ Created(i + d, r)
  BY DEF Created
<1>2. \A i \in DOMAIN tasks' : Writes(i, r)' => i \in Nat /\ i + e \in DOMAIN tasks /\ Writes(i + e, r)
  BY DEF Writes
<1>3. /\ \A i, j \in DOMAIN mainQueue : Created(i, r) /\ Created(j, r) => i = j
      /\ \A i, j \in DOMAIN tasks : Writes(i, r) /\ Writes(j, r) => i = j
      /\ \A i \in DOMAIN mainQueue, j \in DOMAIN tasks : ~(Created(i, r) /\ Writes(j, r))
      /\ \A i \in DOMAIN mainQueue : Created(i, r) => Fresh(r) /\ r \in accounts
      /\ \A i \in DOMAIN tasks : Writes(i, r) => Fresh(r) /\ r \in accounts
      /\ r \notin accounts => Fresh(r)
  BY DEF OneCall
<1>4. \A i, j \in DOMAIN mainQueue' : Created(i, r)' /\ Created(j, r)' => i = j
  <2>1. SUFFICES ASSUME NEW i \in DOMAIN mainQueue', NEW j \in DOMAIN mainQueue', Created(i, r)', Created(j, r)'
                 PROVE  i = j
    OBVIOUS
  <2>2. i + d = j + d /\ i \in Nat /\ j \in Nat
    BY <1>1, <1>3, <2>1
  <2>3. QED
    BY <2>2
<1>5. \A i, j \in DOMAIN tasks' : Writes(i, r)' /\ Writes(j, r)' => i = j
  <2>1. SUFFICES ASSUME NEW i \in DOMAIN tasks', NEW j \in DOMAIN tasks', Writes(i, r)', Writes(j, r)'
                 PROVE  i = j
    OBVIOUS
  <2>2. i + e = j + e /\ i \in Nat /\ j \in Nat
    BY <1>2, <1>3, <2>1
  <2>3. QED
    BY <2>2
<1>6. Fresh(r)' <=> Fresh(r)
  OBVIOUS
<1>7. QED
  BY <1>1, <1>2, <1>3, <1>4, <1>5, <1>6

-----------------------------------------------------------------------------
(* What is sent is queued.                                                 *)
LEMMA ConcatElements ==
  ASSUME NEW S, NEW a \in Seq(S), NEW b \in Seq(S)
  PROVE  \A i \in DOMAIN b : Len(a) + i \in DOMAIN (a \o b) /\ (a \o b)[Len(a) + i] = b[i]
OBVIOUS

(* A batch of the pipeline is a row of a queue.                            *)
LEMMA PipelineQueued ==
  ASSUME IInv
  PROVE  \A k \in DOMAIN remote.pipeline :
           remote.pipeline[k] \in Batch /\ Queued(remote.pipeline[k].reg)
<1>1. /\ remote.pipeline \in Seq(Batch) /\ queue[syncUser] \in Seq(Batch) /\ syncUser \in Users
      /\ Prefix(remote.pipeline, queue[syncUser])
  BY DEF IInv, TypeOK, Stream, RemoteOK, Remotes
<1>2. ASSUME NEW k \in DOMAIN remote.pipeline
      PROVE  k \in DOMAIN queue[syncUser] /\ remote.pipeline[k] = queue[syncUser][k]
  BY <1>1 DEF Prefix
<1>3. \A k \in DOMAIN remote.pipeline : remote.pipeline[k] \in Batch
  BY <1>1, ElementOfSeq
<1>4. QED
  BY <1>1, <1>2, <1>3 DEF Queued

(* A request the server has not answered is the handshake or a row of a    *)
(* queue.                                                                  *)
LEMMA RequestQueued ==
  ASSUME IInv
  PROVE  \A i \in DOMAIN remote.call.requests : LET m == remote.call.requests[i]
           IN m = Hello \/ (m \in Batch /\ Queued(m.reg))
<1> SUFFICES ASSUME NEW i \in DOMAIN remote.call.requests, remote.call.requests[i] # Hello
             PROVE  remote.call.requests[i] \in Batch /\ Queued(remote.call.requests[i].reg)
  OBVIOUS
<1>1. remote \in Remotes /\ StreamOK(remote)
  BY DEF IInv, Stream, RemoteOK
<1>2. PICK a \in Seq(Messages) : a = remote.call.answers
  BY <1>1, CallParts
<1>3. PICK b \in Seq(Messages) : b = remote.call.requests
  BY <1>1, CallParts
<1>4. Len(a) + i \in DOMAIN (a \o b) /\ (a \o b)[Len(a) + i] = b[i]
  BY <1>3, ConcatElements
<1>5. remote.stream = "Open"
  <2>1. remote.call # NoCall
    BY DEF NoCall
  <2>2. QED
    BY <1>1, <2>1 DEF StreamOK
<1>6. a \o b = IF remote.handshake THEN remote.pipeline ELSE << Hello >>
  BY <1>1, <1>2, <1>3, <1>5 DEF StreamOK
<1>7. CASE remote.handshake
  BY <1>3, <1>4, <1>6, <1>7, PipelineQueued
<1>8. CASE ~remote.handshake
  <2> DEFINE k == Len(a) + i
  <2>1. k \in DOMAIN << Hello >> /\ << Hello >>[k] = b[i]
    BY <1>4, <1>6, <1>8
  <2> HIDE DEF k, Hello
  <2>2. k = 1
    BY <2>1
  <2>3. b[i] = Hello
    BY <2>1, <2>2
  <2>4. QED
    BY <1>3, <2>3
<1>9. QED
  BY <1>7, <1>8

(* What a broken call may still write is a row of a queue.                 *)
LEMMA FlightQueued ==
  ASSUME IInv
  PROVE  \A r \in InFlight(remote.call) : Queued(r)
<1>1. \A r \in InFlight(remote.call) :
        r # None /\ \E i \in DOMAIN remote.call.requests : r = remote.call.requests[i].reg
  BY DEF InFlight
<1>2. Hello.reg = None
  BY DEF Hello
<1> HIDE DEF Hello
<1>3. QED
  BY <1>1, <1>2, RequestQueued

(* A queue that loses no batch to a fresh state.                           *)
LEMMA SameDisk ==
  ASSUME UNCHANGED << queue, outcome >>
  PROVE  /\ \A r \in Registrations : Fresh(r)' <=> Fresh(r)
         /\ OneRow => OneRow'
<1>1. \A r : Queued(r)' <=> Queued(r)
  BY DEF Queued
<1>2. QED
  BY <1>1 DEF Fresh, OneRow

(* A step that leaves the queues, the callbacks and the server alone.      *)
LEMMA QuietStep ==
  ASSUME IInv, DInv, NEW d \in {0, 1}, NEW e \in {0, 1},
         \A i \in DOMAIN mainQueue' : mainQueue'[i].kind \in Completions =>
           i \in Nat /\ i + d \in DOMAIN mainQueue /\ mainQueue'[i] = mainQueue[i + d],
         \A i \in DOMAIN tasks' : tasks'[i].kind = "write" =>
           i \in Nat /\ i + e \in DOMAIN tasks /\ tasks'[i] = tasks[i + e],
         UNCHANGED << queue, outcome, told, accounts, applied >>,
         waiting' = waiting \/ (\A u \in Users : waiting'[u] = {}),
         late' \subseteq late \cup InFlight(remote.call),
         remote'.call.answers = remote.call.answers \/ remote'.call.answers = << >>
  PROVE  DInv'
<1>1. TypeOK
  BY DEF IInv
<1>2. /\ \A r \in Registrations : Fresh(r)' <=> Fresh(r)
      /\ OneRow'
  BY SameDisk DEF DInv
<1>3. OneCall'
  BY <1>1, <1>2, CallsKept DEF DInv
<1>4. Untouched'
  <2> SUFFICES ASSUME NEW r \in Registrations, Fresh(r)'
               PROVE  told'[r] = "none" /\ r \notin late' /\ r \notin applied'
    BY DEF Untouched
  <2>1. Fresh(r)
    BY <1>2
  <2>2. told[r] = "none" /\ r \notin late /\ r \notin applied
    BY <2>1 DEF DInv, Untouched
  <2>3. r \notin InFlight(remote.call)
    BY <2>1, FlightQueued DEF Fresh
  <2>4. QED
    BY <2>2, <2>3
<1>5. Tells'
  BY DEF DInv, Tells
<1>6. QED
  BY <1>2, <1>3, <1>4, <1>5 DEF DInv

(* A quiet step of the worker queue.                                       *)
LEMMA WorkerQuiet ==
  ASSUME IInv, DInv, mainQueue' = mainQueue,
         tasks' = tasks \/ (tasks # << >> /\ tasks' = Tail(tasks)),
         UNCHANGED << queue, outcome, told, accounts, applied >>, waiting' = waiting,
         late' \subseteq late \cup InFlight(remote.call),
         remote'.call.answers = remote.call.answers \/ remote'.call.answers = << >>
  PROVE  DInv'
<1>1. mainQueue \in Seq(Blocks) /\ tasks \in Seq(Tasks)
  BY DEF IInv, TypeOK
<1>2. \A i \in DOMAIN mainQueue' : i \in Nat /\ i + 0 \in DOMAIN mainQueue /\ mainQueue'[i] = mainQueue[i + 0]
  BY <1>1
<1>3. CASE tasks' = tasks
  <2>1. \A i \in DOMAIN tasks' : i \in Nat /\ i + 0 \in DOMAIN tasks /\ tasks'[i] = tasks[i + 0]
    BY <1>1, <1>3
  <2>2. QED
    BY <1>2, <2>1, QuietStep
<1>4. CASE tasks # << >> /\ tasks' = Tail(tasks)
  <2>1. \A i \in DOMAIN tasks' : i \in Nat /\ i + 1 \in DOMAIN tasks /\ tasks'[i] = tasks[i + 1]
    BY <1>1, <1>4, TailElements
  <2>2. QED
    BY <1>2, <2>1, QuietStep
<1>5. QED
  BY <1>3, <1>4

(* Becomes adds to the late writes at most those of the call it ends.      *)
LEMMA BecomesLate ==
  ASSUME NEW r, Becomes(r)
  PROVE  late' \subseteq late \cup InFlight(remote.call) /\ remote' = r
         /\ (r.call # NoCall => late' = late)
BY DEF Becomes

(* There is no answer without a call.                                      *)
LEMMA NoCallAnswers == NoCall.answers = << >>
BY DEF NoCall

(* Initialize adds and removes no row.                                     *)
LEMMA InitializeQuiet ==
  ASSUME IInv, DInv, Initialize
  PROVE  DInv'
<1> DEFINE u == Head(tasks).user
           r == FillWritePipeline(remote, queue[u])
<1>1. TypeOK /\ Boot /\ Rows
  BY DEF IInv
<1>2. /\ tasks # << >> /\ Head(tasks).kind = "init" /\ tasks' = Tail(tasks) /\ Becomes(r)
      /\ UNCHANGED << accounts, mainQueue, told, waiting, queue, outcome, applied >>
  BY DEF Initialize, RunTask, app, disk, auth, server
<1>3. Head(tasks) \in Tasks /\ nextId = 0
  BY <1>2, FirstTask
<1>4. remote = Idle /\ u \in Users
  BY <1>1, <1>2, <1>3 DEF Boot, Tasks
<1> HIDE DEF u
<1>5. queue[u] \in Seq(Batch) /\ Ascending(queue[u])
  BY <1>1, <1>4 DEF TypeOK, Rows
<1>6. RemoteOK(remote, queue[u])
  BY <1>4, <1>5, IdleOK
<1>7. r.call.answers = remote.call.answers
  BY <1>5, <1>6, FillOK
<1> HIDE DEF r
<1>8. late' \subseteq late \cup InFlight(remote.call) /\ remote' = r
  BY <1>2, BecomesLate
<1>9. QED
  BY <1>2, <1>7, <1>8, WorkerQuiet

(* HandleCredentialChange adds and removes no row.                         *)
LEMMA HandleCredentialChangeQuiet ==
  ASSUME IInv, DInv, HandleCredentialChange
  PROVE  DInv'
<1> DEFINE u == Head(tasks).user
           r == RestartNetwork(remote, queue[u])
<1>1. TypeOK /\ Rows /\ Stream
  BY DEF IInv
<1>2. /\ tasks # << >> /\ Head(tasks).kind = "user" /\ tasks' = Tail(tasks) /\ Becomes(r)
      /\ UNCHANGED << accounts, mainQueue, told, waiting, queue, outcome, applied >>
  BY DEF HandleCredentialChange, RunTask, app, disk, auth, server
<1>3. u \in Users
  BY <1>2, FirstTask DEF Tasks
<1> HIDE DEF u
<1>4. queue[u] \in Seq(Batch) /\ Ascending(queue[u]) /\ remote \in Remotes /\ StreamOK(remote)
  BY <1>1, <1>3 DEF TypeOK, Rows, Stream, RemoteOK
<1>5. r.call = NoCall
  BY <1>4, RestartOK
<1> HIDE DEF r
<1>6. late' \subseteq late \cup InFlight(remote.call) /\ remote' = r
  BY <1>2, BecomesLate
<1>7. remote'.call.answers = << >>
  BY <1>5, <1>6, NoCallAnswers
<1>8. QED
  BY <1>2, <1>6, <1>7, WorkerQuiet

(* ResumeStartWithCredentials adds and removes no row.                     *)
LEMMA ResumeQuiet ==
  ASSUME IInv, DInv, ResumeStartWithCredentials
  PROVE  DInv'
<1> DEFINE t == Head(tasks)
           call == [user |-> t.user, requests |-> << Hello >>, answers |-> << >>, status |-> "open"]
           open == [remote EXCEPT !.stream = "Open", !.call = call]
<1>1. TypeOK /\ Stream
  BY DEF IInv
<1>2. /\ tasks # << >> /\ tasks' = Tail(tasks)
      /\ UNCHANGED << accounts, mainQueue, told, waiting, queue, outcome, applied >>
      /\ \/ UNCHANGED << remote, tokenRequests, late >>
         \/ Becomes(Retry(remote))
         \/ Becomes(open)
  BY DEF ResumeStartWithCredentials, RunTask, app, disk, auth, memory, server
<1>3. CASE UNCHANGED << remote, tokenRequests, late >>
  BY <1>2, <1>3, WorkerQuiet
<1>4. CASE Becomes(Retry(remote))
  <2> DEFINE r == Retry(remote)
  <2>1. r.call = NoCall
    BY <1>1, RetryOK DEF Stream
  <2> HIDE DEF r
  <2>2. late' \subseteq late \cup InFlight(remote.call) /\ remote' = r
    BY <1>4, BecomesLate DEF r
  <2>3. remote'.call.answers = << >>
    BY <2>1, <2>2, NoCallAnswers
  <2>4. QED
    BY <1>2, <2>2, <2>3, WorkerQuiet
<1>5. CASE Becomes(open)
  <2>1. open.call.answers = << >>
    BY <1>1 DEF TypeOK, Remotes
  <2> HIDE DEF open
  <2>2. late' \subseteq late \cup InFlight(remote.call) /\ remote' = open
    BY <1>5, BecomesLate
  <2>3. remote'.call.answers = << >>
    BY <2>1, <2>2
  <2>4. QED
    BY <1>2, <2>2, <2>3, WorkerQuiet
<1>6. QED
  BY <1>2, <1>3, <1>4, <1>5

(* The timers, the connectivity monitor, the handshake, a call that fails. *)
LEMMA TimerQuiet ==
  ASSUME IInv, DInv,
         BackoffElapsed \/ IdleTimeout \/ ConnectivityChanged \/ HandshakeComplete \/ CallFailed
  PROVE  DInv'
<1>1. TypeOK /\ Rows /\ Stream /\ Boot
  BY DEF IInv
<1>2. UNCHANGED << worker, told, waiting, disk, server >>
  BY DEF BackoffElapsed, IdleTimeout, ConnectivityChanged, Timer, HandshakeComplete, CallFailed
<1>3. UNCHANGED << accounts, mainQueue, tasks, told, waiting, queue, outcome, applied >>
  BY <1>2 DEF worker, auth, disk, server
<1>4. remote \in Remotes /\ StreamOK(remote) /\ RemoteOK(remote, queue[syncUser])
      /\ queue[syncUser] \in Seq(Batch) /\ Ascending(queue[syncUser])
  BY <1>1 DEF TypeOK, Rows, Stream, RemoteOK
<1>5. PICK r : Becomes(r) /\ (r.call.answers = remote.call.answers \/ r.call.answers = << >>)
  <2>1. CASE BackoffElapsed
    <3> DEFINE r == [remote EXCEPT !.stream = "Starting"]
    <3>1. Becomes(r)
      BY <2>1 DEF BackoffElapsed, Timer
    <3>2. r.call = remote.call
      BY <1>4 DEF Remotes
    <3> HIDE DEF r
    <3>3. QED
      BY <3>1, <3>2
  <2>2. CASE IdleTimeout
    <3> DEFINE r == Stop(remote)
    <3>1. Becomes(r)
      BY <2>2 DEF IdleTimeout, Timer
    <3>2. r.call = NoCall
      BY <1>4, StopFields
    <3> HIDE DEF r
    <3>3. QED
      BY <3>1, <3>2, NoCallAnswers
  <2>3. CASE ConnectivityChanged
    <3> DEFINE r == RestartNetwork(remote, queue[syncUser])
    <3>1. Becomes(r)
      BY <2>3 DEF ConnectivityChanged, Timer
    <3>2. r.call = NoCall
      BY <1>4, RestartOK
    <3> HIDE DEF r
    <3>3. QED
      BY <3>1, <3>2, NoCallAnswers
  <2>4. CASE HandshakeComplete
    <3> DEFINE r == [Write(remote, remote.pipeline) EXCEPT !.handshake = TRUE, !.call.answers = Tail(@)]
    <3>1. Becomes(r) /\ remote.call.answers # << >> /\ ~remote.handshake
      BY <2>4 DEF HandshakeComplete
    <3>2. r.call.answers = << >>
      BY <1>4, <3>1, HandshakeOK
    <3> HIDE DEF r
    <3>3. QED
      BY <3>1, <3>2
  <2>5. CASE CallFailed
    <3> DEFINE r == Retry(remote)
    <3>1. Becomes(r)
      BY <2>5 DEF CallFailed
    <3>2. r.call = NoCall
      BY <1>4, RetryOK
    <3> HIDE DEF r
    <3>3. QED
      BY <3>1, <3>2, NoCallAnswers
  <2>6. QED
    BY <2>1, <2>2, <2>3, <2>4, <2>5
<1>6. late' \subseteq late \cup InFlight(remote.call) /\ remote' = r
  BY <1>5, BecomesLate
<1>7. QED
  BY <1>3, <1>5, <1>6, WorkerQuiet

(* The death of the process forgets the calls that have no row yet and     *)
(* keeps the rows.                                                         *)
LEMMA DieQuiet ==
  ASSUME IInv, DInv, Die, told' = told
  PROVE  DInv'
<1>1. mainQueue' = << >> /\ tasks' = << >>
  BY DEF Die
<1>2. /\ UNCHANGED << queue, outcome, accounts, applied >> /\ late' = late \cup InFlight(remote.call)
      /\ remote' = Idle /\ waiting' = [u \in Users |-> {}]
  BY DEF Die, disk, auth, server
<1>3. Idle.call.answers = << >>
  BY IdleOK, NoCallAnswers
<1>4. \A i \in DOMAIN mainQueue' : i \in Nat /\ i + 0 \in DOMAIN mainQueue /\ mainQueue'[i] = mainQueue[i + 0]
  BY <1>1
<1>5. \A i \in DOMAIN tasks' : i \in Nat /\ i + 0 \in DOMAIN tasks /\ tasks'[i] = tasks[i + 0]
  BY <1>1
<1>6. \A u \in Users : waiting'[u] = {}
  BY <1>2
<1>7. QED
  BY <1>2, <1>3, <1>4, <1>5, <1>6, QuietStep

-----------------------------------------------------------------------------
(* FirebaseAuth and the main queue: the calls of setData.                  *)
LEMMA SameWrites ==
  ASSUME DInv, UNCHANGED << queue, outcome, told, applied, waiting, late, remote >>
  PROVE  /\ \A r \in Registrations : Fresh(r)' <=> Fresh(r)
         /\ OneRow' /\ Untouched' /\ Tells'
<1>1. /\ \A r \in Registrations : Fresh(r)' <=> Fresh(r)
      /\ OneRow'
  BY SameDisk DEF DInv
<1>2. Untouched'
  BY <1>1 DEF DInv, Untouched
<1>3. Tells'
  BY DEF DInv, Tells
<1>4. QED
  BY <1>1, <1>2, <1>3

(* CreateUser dispatches the one completion of r.                          *)
LEMMA CreateUserCalls ==
  ASSUME IInv, DInv, NEW r \in Registrations, CreateUser(r)
  PROVE  DInv'
<1> DEFINE a == Notice(r)
           b == [kind |-> "created", reg |-> r]
           one == Append(mainQueue, a)
           two == Append(one, b)
           n == Len(mainQueue) + 2
<1>1. mainQueue \in Seq(Blocks) /\ tasks \in Seq(Tasks)
  BY DEF IInv, TypeOK
<1>2. /\ a \in Blocks /\ a.kind = "notice" /\ b \in Blocks /\ b.reg = r
  BY BlockTypes DEF Users
<1>3. mainQueue' = two
  BY <1>1, <1>2, TwoAppended DEF CreateUser
<1> HIDE DEF a, b
<1>4. /\ one \in Seq(Blocks) /\ Len(one) = Len(mainQueue) + 1
      /\ \A i \in DOMAIN one : \/ i \in DOMAIN mainQueue /\ one[i] = mainQueue[i]
                               \/ one[i] = a
  BY <1>1, <1>2, AppendElements
<1> HIDE DEF one
<1>5. \A i \in DOMAIN two : \/ i \in DOMAIN one /\ two[i] = one[i]
                            \/ i = Len(one) + 1 /\ two[i] = b
  BY <1>2, <1>4, AppendElements
<1> HIDE DEF two, n
<1>6. \A i \in DOMAIN mainQueue' : mainQueue'[i].kind \in Completions =>
        \/ i \in DOMAIN mainQueue /\ mainQueue'[i] = mainQueue[i]
        \/ i = Len(one) + 1 /\ mainQueue'[i] = b
  BY <1>2, <1>3, <1>4, <1>5 DEF Completions
<1>7. r \notin accounts /\ accounts' = accounts \cup {r} /\ tasks' = tasks
      /\ UNCHANGED << queue, outcome, told, applied, waiting, late, remote >>
  BY DEF CreateUser, app, memory, disk, server
<1>8. /\ \A s \in Registrations : Fresh(s)' <=> Fresh(s)
      /\ OneRow' /\ Untouched' /\ Tells'
  BY <1>7, SameWrites
<1>9. Fresh(r) /\ (\A i \in DOMAIN mainQueue : ~Created(i, r)) /\ (\A i \in DOMAIN tasks : ~Writes(i, r))
  BY <1>7 DEF DInv, OneCall
<1>10. OneCall'
  <2> SUFFICES ASSUME NEW s \in Registrations
               PROVE  /\ \A i, j \in DOMAIN mainQueue' : Created(i, s)' /\ Created(j, s)' => i = j
                      /\ \A i, j \in DOMAIN tasks' : Writes(i, s)' /\ Writes(j, s)' => i = j
                      /\ \A i \in DOMAIN mainQueue', j \in DOMAIN tasks' : ~(Created(i, s)' /\ Writes(j, s)')
                      /\ \A i \in DOMAIN mainQueue' : Created(i, s)' => Fresh(s)' /\ s \in accounts'
                      /\ \A i \in DOMAIN tasks' : Writes(i, s)' => Fresh(s)' /\ s \in accounts'
                      /\ s \notin accounts' => Fresh(s)'
    BY DEF OneCall
  <2>1. /\ \A i, j \in DOMAIN mainQueue : Created(i, s) /\ Created(j, s) => i = j
        /\ \A i, j \in DOMAIN tasks : Writes(i, s) /\ Writes(j, s) => i = j
        /\ \A i \in DOMAIN mainQueue, j \in DOMAIN tasks : ~(Created(i, s) /\ Writes(j, s))
        /\ \A i \in DOMAIN mainQueue : Created(i, s) => Fresh(s) /\ s \in accounts
        /\ \A i \in DOMAIN tasks : Writes(i, s) => Fresh(s) /\ s \in accounts
        /\ s \notin accounts => Fresh(s)
    BY DEF DInv, OneCall
  <2>2. \A i \in DOMAIN tasks' : Writes(i, s)' <=> Writes(i, s)
    BY <1>7 DEF Writes
  <2>3. Fresh(s)' <=> Fresh(s)
    BY <1>8
  <2>4. CASE s = r
    <3>1. \A i \in DOMAIN mainQueue' : Created(i, s)' => i = Len(one) + 1
      BY <1>6, <1>9, <2>4 DEF Created
    <3>2. QED
      BY <1>7, <1>9, <2>1, <2>2, <2>3, <2>4, <3>1
  <2>5. CASE s # r
    <3>1. \A i \in DOMAIN mainQueue' : Created(i, s)' => i \in DOMAIN mainQueue /\ Created(i, s)
      BY <1>2, <1>6, <2>5 DEF Created
    <3>2. QED
      BY <1>7, <2>1, <2>2, <2>3, <3>1
  <2>6. QED
    BY <2>4, <2>5
<1>11. QED
  BY <1>8, <1>10 DEF DInv

(* The other steps of FirebaseAuth dispatch no completion.                 *)
LEMMA FirebaseQuiet ==
  ASSUME IInv, DInv,
         \/ \E u \in Users : ChangeSession(u)
         \/ \E i \in DOMAIN tokenRequests : Token(i)
  PROVE  DInv'
<1>1. mainQueue \in Seq(Blocks) /\ tasks \in Seq(Tasks) /\ tokenRequests \in Seq(TokenRequest)
  BY DEF IInv, TypeOK
<1>2. /\ UNCHANGED << accounts, tasks, queue, outcome, told, applied, waiting, late, remote >>
      /\ mainQueue' = mainQueue \/ \E b \in Blocks : b.kind \notin Completions /\ mainQueue' = Append(mainQueue, b)
  <2>1. ASSUME NEW u \in Users, ChangeSession(u)
        PROVE  /\ UNCHANGED << accounts, tasks, queue, outcome, told, applied, waiting, late, remote >>
               /\ \E b \in Blocks : b.kind \notin Completions /\ mainQueue' = Append(mainQueue, b)
    BY <2>1, BlockTypes DEF Completions, ChangeSession, app, memory, disk, server
  <2>2. ASSUME NEW i \in DOMAIN tokenRequests, ReadUser(i)
        PROVE  UNCHANGED << accounts, tasks, queue, outcome, told, applied, waiting, late, remote, mainQueue >>
    BY <2>2 DEF ReadUser, auth, app, memory, disk, server
  <2>3. ASSUME NEW i \in DOMAIN tokenRequests, NEW ok \in BOOLEAN, AnswerToken(i, ok)
        PROVE  /\ UNCHANGED << accounts, tasks, queue, outcome, told, applied, waiting, late, remote >>
               /\ \E b \in Blocks : b.kind \notin Completions /\ mainQueue' = Append(mainQueue, b)
    <3> DEFINE b == [kind |-> "token", ok |-> ok, to |-> tokenRequests[i]]
    <3>1. b \in Blocks /\ b.kind = "token"
      BY <1>1, ElementOfSeq, BlockTypes
    <3>2. mainQueue' = Append(mainQueue, b)
      BY <2>3 DEF AnswerToken
    <3> HIDE DEF b
    <3>3. UNCHANGED << accounts, tasks, queue, outcome, told, applied, waiting, late, remote >>
      BY <2>3 DEF AnswerToken, auth, app, memory, disk, server
    <3>4. QED
      BY <3>1, <3>2, <3>3 DEF Completions
  <2>4. QED
    BY <2>1, <2>2, <2>3 DEF Token
<1>3. \A i \in DOMAIN mainQueue' : mainQueue'[i].kind \in Completions =>
        i \in Nat /\ i + 0 \in DOMAIN mainQueue /\ mainQueue'[i] = mainQueue[i + 0]
  <2>1. CASE mainQueue' = mainQueue
    BY <1>1, <2>1
  <2>2. ASSUME NEW b \in Blocks, b.kind \notin Completions, mainQueue' = Append(mainQueue, b)
        PROVE  \A i \in DOMAIN mainQueue' : mainQueue'[i].kind \in Completions =>
                 i \in DOMAIN mainQueue /\ mainQueue'[i] = mainQueue[i]
    BY <1>1, <2>2, AppendElements
  <2>3. \A i \in DOMAIN mainQueue : i \in Nat /\ i + 0 = i
    BY <1>1
  <2>4. QED
    BY <1>2, <2>1, <2>2, <2>3
<1>4. \A i \in DOMAIN tasks' : i \in Nat /\ i + 0 \in DOMAIN tasks /\ tasks'[i] = tasks[i + 0]
  BY <1>1, <1>2
<1>5. QED
  BY <1>2, <1>3, <1>4, QuietStep

(* A notice or an answer leaves the main queue.                            *)
LEMMA BlockQuiet ==
  ASSUME IInv, DInv, CredentialChange \/ TokenCallback
  PROVE  DInv'
<1>1. mainQueue \in Seq(Blocks) /\ tasks \in Seq(Tasks)
  BY DEF IInv, TypeOK
<1>2. mainQueue # << >> /\ mainQueue' = Tail(mainQueue)
      /\ UNCHANGED << accounts, queue, outcome, told, applied, waiting, late, remote >>
  BY DEF CredentialChange, TokenCallback, RunBlock, auth, app, memory, disk, server
<1>3. Head(mainQueue) \in Blocks
  BY <1>1, <1>2, TailElements
<1>4. tasks' = tasks \/ \E t \in Tasks : t.kind # "write" /\ tasks' = Append(tasks, t)
  <2>1. CASE CredentialChange
    <3> DEFINE t == [kind |-> "user", user |-> Head(mainQueue).user]
    <3>1. t \in Tasks /\ t.kind = "user"
      BY <1>3, <2>1, TaskTypes DEF CredentialChange, RunBlock, Blocks
    <3>2. tasks' = tasks \/ tasks' = Append(tasks, t)
      BY <2>1 DEF CredentialChange
    <3> HIDE DEF t
    <3>3. QED
      BY <3>1, <3>2
  <2>2. CASE TokenCallback
    <3> DEFINE b == Head(mainQueue)
               t == [kind |-> "resume", user |-> b.to.user, ok |-> b.ok, closes |-> b.to.closes]
    <3>1. b.to \in TokenRequest /\ b.ok \in BOOLEAN
      BY <1>3, <2>2 DEF TokenCallback, RunBlock, Blocks
    <3>2. tasks' = tasks \/ tasks' = Append(tasks, t)
      BY <2>2 DEF TokenCallback
    <3> HIDE DEF b
    <3>3. t \in Tasks /\ t.kind = "resume"
      BY <3>1, TaskTypes DEF TokenRequest
    <3> HIDE DEF t
    <3>4. QED
      BY <3>2, <3>3
  <2>3. QED
    BY <2>1, <2>2
<1>5. \A i \in DOMAIN mainQueue' : i \in Nat /\ i + 1 \in DOMAIN mainQueue /\ mainQueue'[i] = mainQueue[i + 1]
  BY <1>1, <1>2, TailElements
<1>6. \A i \in DOMAIN tasks' : tasks'[i].kind = "write" =>
        i \in Nat /\ i + 0 \in DOMAIN tasks /\ tasks'[i] = tasks[i + 0]
  <2>1. CASE tasks' = tasks
    BY <1>1, <2>1
  <2>2. ASSUME NEW t \in Tasks, t.kind # "write", tasks' = Append(tasks, t)
        PROVE  \A i \in DOMAIN tasks' : tasks'[i].kind = "write" =>
                 i \in DOMAIN tasks /\ tasks'[i] = tasks[i]
    BY <1>1, <2>2, AppendElements
  <2>3. \A i \in DOMAIN tasks : i \in Nat /\ i + 0 = i
    BY <1>1
  <2>4. QED
    BY <1>4, <2>1, <2>2, <2>3
<1>7. QED
  BY <1>2, <1>5, <1>6, QuietStep

(* saveInfoToFirestore leaves the completion of r where it is.             *)
LEMMA SaveInfoCalls ==
  ASSUME IInv, DInv, NEW r \in Registrations, saveInfoToFirestore(r)
  PROVE  DInv'
<1> DEFINE b == [kind |-> "saving", reg |-> r]
<1>1. mainQueue \in Seq(Blocks) /\ b \in Blocks
  BY BlockTypes DEF IInv, TypeOK
<1>2. /\ mainQueue # << >> /\ Head(mainQueue) = [kind |-> "created", reg |-> r]
      /\ mainQueue' = << b >> \o Tail(mainQueue)
      /\ UNCHANGED << accounts, tasks, queue, outcome, told, applied, waiting, late, remote >>
  BY DEF saveInfoToFirestore, auth, memory, disk, server
<1>3. b.kind = "saving" /\ b.reg = r
  OBVIOUS
<1> HIDE DEF b
<1>4. /\ DOMAIN mainQueue' = DOMAIN mainQueue /\ mainQueue'[1] = b /\ Head(mainQueue) = mainQueue[1]
      /\ \A i \in DOMAIN mainQueue' : i # 1 => mainQueue'[i] = mainQueue[i]
  BY <1>1, <1>2, HeadReplaced
<1>5. ASSUME NEW s \in Registrations
      PROVE  /\ \A i \in DOMAIN mainQueue' : Created(i, s)' <=> Created(i, s)
             /\ \A i \in DOMAIN tasks' : Writes(i, s)' <=> Writes(i, s)
  <2>1. ASSUME NEW i \in DOMAIN mainQueue' PROVE Created(i, s)' <=> Created(i, s)
    <3>1. CASE i = 1
      BY <1>2, <1>3, <1>4, <3>1 DEF Created, Completions
    <3>2. CASE i # 1
      BY <1>4, <2>1, <3>2 DEF Created
    <3>3. QED
      BY <3>1, <3>2
  <2>2. QED
    BY <1>2, <2>1 DEF Writes
<1>6. /\ \A s \in Registrations : Fresh(s)' <=> Fresh(s)
      /\ OneRow' /\ Untouched' /\ Tells'
  BY <1>2, SameWrites
<1>7. OneCall'
  <2> SUFFICES ASSUME NEW s \in Registrations
               PROVE  /\ \A i, j \in DOMAIN mainQueue' : Created(i, s)' /\ Created(j, s)' => i = j
                      /\ \A i, j \in DOMAIN tasks' : Writes(i, s)' /\ Writes(j, s)' => i = j
                      /\ \A i \in DOMAIN mainQueue', j \in DOMAIN tasks' : ~(Created(i, s)' /\ Writes(j, s)')
                      /\ \A i \in DOMAIN mainQueue' : Created(i, s)' => Fresh(s)' /\ s \in accounts'
                      /\ \A i \in DOMAIN tasks' : Writes(i, s)' => Fresh(s)' /\ s \in accounts'
                      /\ s \notin accounts' => Fresh(s)'
    BY DEF OneCall
  <2>1. /\ \A i, j \in DOMAIN mainQueue : Created(i, s) /\ Created(j, s) => i = j
        /\ \A i, j \in DOMAIN tasks : Writes(i, s) /\ Writes(j, s) => i = j
        /\ \A i \in DOMAIN mainQueue, j \in DOMAIN tasks : ~(Created(i, s) /\ Writes(j, s))
        /\ \A i \in DOMAIN mainQueue : Created(i, s) => Fresh(s) /\ s \in accounts
        /\ \A i \in DOMAIN tasks : Writes(i, s) => Fresh(s) /\ s \in accounts
        /\ s \notin accounts => Fresh(s)
    BY DEF DInv, OneCall
  <2>2. /\ Fresh(s)' <=> Fresh(s)
        /\ DOMAIN mainQueue' = DOMAIN mainQueue /\ DOMAIN tasks' = DOMAIN tasks /\ accounts' = accounts
    BY <1>2, <1>4, <1>6
  <2>3. QED
    BY <1>5, <2>1, <2>2
<1>8. QED
  BY <1>6, <1>7 DEF DInv

(* SetData turns the completion of r into its one task.                    *)
LEMMA SetDataCalls ==
  ASSUME IInv, DInv, NEW r \in Registrations, SetData(r)
  PROVE  DInv'
<1> DEFINE w == [kind |-> "write", reg |-> r]
           i0 == [kind |-> "init", user |-> session]
           e == EnsureClientConfigured
           n == Len(e) + 1
<1>1. mainQueue \in Seq(Blocks) /\ tasks \in Seq(Tasks) /\ session \in Users /\ Boot
  BY DEF IInv, TypeOK, Users
<1>2. /\ mainQueue # << >> /\ Head(mainQueue).kind = "saving" /\ Head(mainQueue).reg = r
      /\ mainQueue' = Tail(mainQueue) /\ tasks' = Append(e, w)
      /\ UNCHANGED << accounts, queue, outcome, told, applied, waiting, late, remote >>
  BY DEF SetData, RunBlock, auth, memory, disk, server
<1>3. w \in Tasks /\ w.kind = "write" /\ w.reg = r /\ i0 \in Tasks /\ i0.kind = "init"
  BY <1>1, TaskTypes
<1> HIDE DEF w, i0
<1>4. e = (IF running THEN tasks ELSE << i0 >>) /\ (~running => tasks = << >>)
  BY <1>1 DEF EnsureClientConfigured, i0, Boot
<1> HIDE DEF e
<1>5. e \in Seq(Tasks) /\ \A i \in DOMAIN e : e[i].kind = "write" => i \in DOMAIN tasks /\ e[i] = tasks[i]
  <2>1. CASE running
    BY <1>1, <1>4, <2>1
  <2>2. CASE ~running
    <3>1. e = << i0 >> /\ e \in Seq(Tasks) /\ DOMAIN e = {1} /\ e[1] = i0
      BY <1>3, <1>4, <2>2
    <3>2. QED
      BY <3>1, <1>3
  <2>3. QED
    BY <2>1, <2>2
<1>6. \A i \in DOMAIN tasks' : \/ i \in DOMAIN e /\ tasks'[i] = e[i]
                               \/ i = n /\ tasks'[i] = w
  BY <1>2, <1>3, <1>5, AppendElements
<1> HIDE DEF n
<1>7. \A i \in DOMAIN tasks' : tasks'[i].kind = "write" =>
        \/ i \in DOMAIN tasks /\ tasks'[i] = tasks[i]
        \/ i = n /\ tasks'[i] = w
  BY <1>5, <1>6
<1>8. /\ 1 \in DOMAIN mainQueue /\ Created(1, r)
      /\ \A i \in DOMAIN mainQueue' : i \in Nat \ {0} /\ i + 1 \in DOMAIN mainQueue /\ mainQueue'[i] = mainQueue[i + 1]
  BY <1>1, <1>2, TailElements DEF Created, Completions
<1>9. /\ \A s \in Registrations : Fresh(s)' <=> Fresh(s)
      /\ OneRow' /\ Untouched' /\ Tells'
  BY <1>2, SameWrites
<1>10. OneCall'
  <2> SUFFICES ASSUME NEW s \in Registrations
               PROVE  /\ \A i, j \in DOMAIN mainQueue' : Created(i, s)' /\ Created(j, s)' => i = j
                      /\ \A i, j \in DOMAIN tasks' : Writes(i, s)' /\ Writes(j, s)' => i = j
                      /\ \A i \in DOMAIN mainQueue', j \in DOMAIN tasks' : ~(Created(i, s)' /\ Writes(j, s)')
                      /\ \A i \in DOMAIN mainQueue' : Created(i, s)' => Fresh(s)' /\ s \in accounts'
                      /\ \A i \in DOMAIN tasks' : Writes(i, s)' => Fresh(s)' /\ s \in accounts'
                      /\ s \notin accounts' => Fresh(s)'
    BY DEF OneCall
  <2>1. /\ \A i, j \in DOMAIN mainQueue : Created(i, s) /\ Created(j, s) => i = j
        /\ \A i, j \in DOMAIN tasks : Writes(i, s) /\ Writes(j, s) => i = j
        /\ \A i \in DOMAIN mainQueue, j \in DOMAIN tasks : ~(Created(i, s) /\ Writes(j, s))
        /\ \A i \in DOMAIN mainQueue : Created(i, s) => Fresh(s) /\ s \in accounts
        /\ \A i \in DOMAIN tasks : Writes(i, s) => Fresh(s) /\ s \in accounts
        /\ s \notin accounts => Fresh(s)
    BY DEF DInv, OneCall
  <2>2. Fresh(s)' <=> Fresh(s)
    BY <1>9
  <2>3. \A i \in DOMAIN mainQueue' : Created(i, s)' => i + 1 \in DOMAIN mainQueue /\ Created(i + 1, s)
    BY <1>8 DEF Created
  <2>4. CASE s = r
    <3>1. \A i \in DOMAIN mainQueue' : ~Created(i, s)'
      <4>1. SUFFICES ASSUME NEW i \in DOMAIN mainQueue', Created(i, s)' PROVE FALSE
        OBVIOUS
      <4>2. i + 1 = 1 /\ i \in Nat \ {0}
        BY <1>8, <2>1, <2>3, <2>4, <4>1
      <4>3. QED
        BY <4>2
    <3>2. \A i \in DOMAIN tasks : ~Writes(i, s)
      BY <1>8, <2>1, <2>4
    <3>3. \A i \in DOMAIN tasks' : Writes(i, s)' => i = n
      BY <1>7, <3>2 DEF Writes
    <3>4. Fresh(s) /\ s \in accounts
      BY <1>8, <2>1, <2>4
    <3>5. QED
      BY <1>2, <2>2, <3>1, <3>3, <3>4
  <2>5. CASE s # r
    <3>1. \A i \in DOMAIN tasks' : Writes(i, s)' => i \in DOMAIN tasks /\ Writes(i, s)
      BY <1>3, <1>7, <2>5 DEF Writes
    <3>2. \A i, j \in DOMAIN mainQueue' : Created(i, s)' /\ Created(j, s)' => i = j
      <4>1. SUFFICES ASSUME NEW i \in DOMAIN mainQueue', NEW j \in DOMAIN mainQueue', Created(i, s)', Created(j, s)'
                     PROVE  i = j
        OBVIOUS
      <4>2. i + 1 = j + 1 /\ i \in Nat /\ j \in Nat
        BY <1>8, <2>1, <2>3, <4>1
      <4>3. QED
        BY <4>2
    <3>3. QED
      BY <1>2, <2>1, <2>2, <2>3, <3>1, <3>2
  <2>6. QED
    BY <2>4, <2>5
<1>11. QED
  BY <1>9, <1>10 DEF DInv
-----------------------------------------------------------------------------
(* A write gets its batch.                                                 *)
LEMMA WriteAdded ==
  ASSUME IInv, DInv, WriteMutations
  PROVE  LET r == Head(tasks).reg
         IN /\ r \in Registrations /\ Writes(1, r) /\ 1 \in DOMAIN tasks
            /\ Fresh(r) /\ r \in accounts /\ nextId # 0
            /\ \A s \in Registrations : Queued(s)' <=> (Queued(s) \/ s = r)
            /\ \A u \in Users : \A i \in DOMAIN queue'[u] :
                 \/ i \in DOMAIN queue[u] /\ queue'[u][i] = queue[u][i]
                 \/ u = syncUser /\ i = Len(queue[syncUser]) + 1 /\ queue'[u][i].reg = r
            /\ \A u \in Users : \A c \in waiting'[u] : c \in waiting[u] \/ c.reg = r
<1> DEFINE r == Head(tasks).reg
           q == queue[syncUser]
           b == [id |-> nextId, reg |-> r]
           q1 == Append(q, b)
<1>1. TypeOK /\ Boot /\ Rows /\ Stream
  BY DEF IInv
<1>2. /\ tasks # << >> /\ Head(tasks).kind = "write" /\ AddMutationBatch(r)
      /\ waiting' = [waiting EXCEPT ![syncUser] = @ \cup {Last(queue'[syncUser])}]
      /\ outcome' = outcome
  BY DEF WriteMutations, RunTask
<1>3. Head(tasks) = tasks[1] /\ 1 \in DOMAIN tasks /\ Head(tasks) \in Tasks /\ nextId # 0
  BY <1>2, FirstTask
<1>4. r \in Registrations /\ Writes(1, r)
  BY <1>2, <1>3 DEF Tasks, Writes
<1>5. Fresh(r) /\ r \in accounts
  BY <1>3, <1>4 DEF DInv, OneCall
<1> HIDE DEF r
<1>6. b \in Batch /\ b.reg = r /\ q \in Seq(Batch) /\ syncUser \in Users
  BY <1>1, <1>3, <1>4 DEF TypeOK, Batch
<1>7. queue' = [queue EXCEPT ![syncUser] = q1]
  BY <1>2 DEF AddMutationBatch
<1> HIDE DEF b, q
<1>8. /\ q1 \in Seq(Batch) /\ Len(q1) = Len(q) + 1
      /\ \A i \in DOMAIN q1 : (i \in DOMAIN q /\ q1[i] = q[i]) \/ (i = Len(q) + 1 /\ q1[i] = b)
      /\ \A i \in DOMAIN q : i \in DOMAIN q1 /\ q1[i] = q[i]
      /\ Len(q) + 1 \in DOMAIN q1 /\ q1[Len(q) + 1] = b
  BY <1>6, AppendElements
<1> HIDE DEF q1
<1>9. queue'[syncUser] = q1 /\ \A u \in Users : u # syncUser => queue'[u] = queue[u]
  BY <1>1, <1>6, <1>7 DEF TypeOK
<1>10. \A u \in Users : \A i \in DOMAIN queue'[u] :
         \/ i \in DOMAIN queue[u] /\ queue'[u][i] = queue[u][i]
         \/ u = syncUser /\ i = Len(queue[syncUser]) + 1 /\ queue'[u][i] = b
  BY <1>8, <1>9 DEF q
<1>11. \A u \in Users : \A i \in DOMAIN queue[u] : i \in DOMAIN queue'[u] /\ queue'[u][i] = queue[u][i]
  BY <1>8, <1>9 DEF q
<1>12. \A s \in Registrations : Queued(s)' <=> (Queued(s) \/ s = r)
  <2>1. ASSUME NEW s \in Registrations, Queued(s)'
        PROVE  Queued(s) \/ s = r
    BY <1>6, <1>10, <2>1 DEF Queued
  <2>2. ASSUME NEW s \in Registrations, Queued(s)
        PROVE  Queued(s)'
    BY <1>11, <2>2 DEF Queued
  <2>3. ASSUME NEW s \in Registrations, s = r
        PROVE  Queued(s)'
    BY <1>6, <1>8, <1>9, <2>3 DEF Queued
  <2>4. QED
    BY <2>1, <2>2, <2>3
<1>13. \A u \in Users : \A c \in waiting'[u] : c \in waiting[u] \/ c.reg = r
  <2>1. Last(queue'[syncUser]) = b
    BY <1>8, <1>9 DEF Last
  <2>2. QED
    BY <1>1, <1>2, <1>6, <2>1 DEF TypeOK
<1>14. QED
  BY <1>3, <1>4, <1>5, <1>6, <1>10, <1>12, <1>13 DEF r

(* Untouched, when nobody is told, nothing is applied and no registration  *)
(* becomes fresh.                                                          *)
LEMMA FreshUntouched ==
  ASSUME IInv, DInv, UNCHANGED << told, applied >>, late' \subseteq late \cup InFlight(remote.call),
         \A r \in Registrations : Fresh(r)' => Fresh(r)
  PROVE  Untouched'
<1> SUFFICES ASSUME NEW r \in Registrations, Fresh(r)'
             PROVE  told'[r] = "none" /\ r \notin late' /\ r \notin applied'
  BY DEF Untouched
<1>1. Fresh(r)
  OBVIOUS
<1>2. told[r] = "none" /\ r \notin late /\ r \notin applied
  BY <1>1 DEF DInv, Untouched
<1>3. r \notin InFlight(remote.call)
  BY <1>1, FlightQueued DEF Fresh
<1>4. QED
  BY <1>2, <1>3

(* WriteMutations turns the task of r into its one row.                    *)
LEMMA WriteMutationsCalls ==
  ASSUME IInv, DInv, WriteMutations
  PROVE  DInv'
<1>1. PICK r \in Registrations :
         /\ r = Head(tasks).reg /\ Writes(1, r) /\ 1 \in DOMAIN tasks
         /\ Fresh(r) /\ r \in accounts /\ nextId # 0
         /\ \A s \in Registrations : Queued(s)' <=> (Queued(s) \/ s = r)
         /\ \A u \in Users : \A i \in DOMAIN queue'[u] :
              \/ i \in DOMAIN queue[u] /\ queue'[u][i] = queue[u][i]
              \/ u = syncUser /\ i = Len(queue[syncUser]) + 1 /\ queue'[u][i].reg = r
         /\ \A u \in Users : \A c \in waiting'[u] : c \in waiting[u] \/ c.reg = r
  <2> DEFINE r == Head(tasks).reg
  <2> HIDE DEF r
  <2>1. QED
    BY WriteAdded DEF r
<1>2. /\ tasks # << >> /\ tasks' = Tail(tasks)
      /\ UNCHANGED << accounts, mainQueue, told, syncUser, outcome, applied >>
      /\ Becomes(FillWritePipeline(remote, queue'[syncUser])) /\ AddMutationBatch(Head(tasks).reg)
      /\ waiting' = [waiting EXCEPT ![syncUser] = @ \cup {Last(queue'[syncUser])}]
  BY DEF WriteMutations, RunTask, app, auth, server
<1>3. /\ mainQueue \in Seq(Blocks) /\ tasks \in Seq(Tasks) /\ TypeOK /\ Rows /\ Stream
      /\ syncUser \in Users
  BY DEF IInv, TypeOK
<1>4. \A s \in Registrations : Fresh(s)' <=> (Fresh(s) /\ s # r)
  <2>1. \A s \in Registrations : Queued(s)' <=> (Queued(s) \/ s = r)
    BY <1>1
  <2>2. outcome' = outcome
    BY <1>2
  <2>3. QED
    BY <2>1, <2>2 DEF Fresh
<1>5. \A i \in DOMAIN tasks' : i \in Nat \ {0} /\ i + 1 \in DOMAIN tasks /\ tasks'[i] = tasks[i + 1]
  BY <1>2, <1>3, TailElements
<1>6. OneCall'
  <2> SUFFICES ASSUME NEW s \in Registrations
               PROVE  /\ \A i, j \in DOMAIN mainQueue' : Created(i, s)' /\ Created(j, s)' => i = j
                      /\ \A i, j \in DOMAIN tasks' : Writes(i, s)' /\ Writes(j, s)' => i = j
                      /\ \A i \in DOMAIN mainQueue', j \in DOMAIN tasks' : ~(Created(i, s)' /\ Writes(j, s)')
                      /\ \A i \in DOMAIN mainQueue' : Created(i, s)' => Fresh(s)' /\ s \in accounts'
                      /\ \A i \in DOMAIN tasks' : Writes(i, s)' => Fresh(s)' /\ s \in accounts'
                      /\ s \notin accounts' => Fresh(s)'
    BY DEF OneCall
  <2>1. /\ \A i, j \in DOMAIN mainQueue : Created(i, s) /\ Created(j, s) => i = j
        /\ \A i, j \in DOMAIN tasks : Writes(i, s) /\ Writes(j, s) => i = j
        /\ \A i \in DOMAIN mainQueue, j \in DOMAIN tasks : ~(Created(i, s) /\ Writes(j, s))
        /\ \A i \in DOMAIN mainQueue : Created(i, s) => Fresh(s) /\ s \in accounts
        /\ \A i \in DOMAIN tasks : Writes(i, s) => Fresh(s) /\ s \in accounts
        /\ s \notin accounts => Fresh(s)
    BY DEF DInv, OneCall
  <2>2. \A i \in DOMAIN mainQueue' : Created(i, s)' <=> Created(i, s)
    BY <1>2 DEF Created
  <2>3. \A i \in DOMAIN tasks' : Writes(i, s)' => i + 1 \in DOMAIN tasks /\ Writes(i + 1, s)
    BY <1>5 DEF Writes
  <2>4. s = r => (\A i \in DOMAIN mainQueue' : ~Created(i, s)') /\ (\A i \in DOMAIN tasks' : ~Writes(i, s)')
    <3> SUFFICES ASSUME s = r
                 PROVE  (\A i \in DOMAIN mainQueue' : ~Created(i, s)') /\ (\A i \in DOMAIN tasks' : ~Writes(i, s)')
      OBVIOUS
    <3>1. \A i \in DOMAIN mainQueue' : ~Created(i, s)'
      BY <1>1, <1>2, <2>1, <2>2
    <3>2. \A i \in DOMAIN tasks' : ~Writes(i, s)'
      <4>1. SUFFICES ASSUME NEW i \in DOMAIN tasks', Writes(i, s)' PROVE FALSE
        OBVIOUS
      <4>2. i + 1 = 1 /\ i \in Nat \ {0}
        BY <1>1, <1>5, <2>1, <2>3, <4>1
      <4>3. QED
        BY <4>2
    <3>3. QED
      BY <3>1, <3>2
  <2>5. \A i, j \in DOMAIN tasks' : Writes(i, s)' /\ Writes(j, s)' => i = j
    <3>1. SUFFICES ASSUME NEW i \in DOMAIN tasks', NEW j \in DOMAIN tasks', Writes(i, s)', Writes(j, s)'
                   PROVE  i = j
      OBVIOUS
    <3>2. i + 1 = j + 1 /\ i \in Nat /\ j \in Nat
      BY <1>5, <2>1, <2>3, <3>1
    <3>3. QED
      BY <3>2
  <2>6. Fresh(s)' <=> (Fresh(s) /\ s # r)
    BY <1>4
  <2>7. accounts' = accounts /\ mainQueue' = mainQueue /\ r \in accounts
    BY <1>1, <1>2
  <2>8. QED
    BY <2>1, <2>2, <2>3, <2>4, <2>5, <2>6, <2>7
<1>7. OneRow'
  <2>1. ASSUME NEW u \in Users, NEW v \in Users, NEW i \in DOMAIN queue'[u], NEW j \in DOMAIN queue'[v],
               queue'[u][i].reg = queue'[v][j].reg
        PROVE  u = v /\ i = j
    <3>1. ~Queued(r)
      BY <1>1 DEF Fresh
    <3>2. \/ i \in DOMAIN queue[u] /\ queue'[u][i] = queue[u][i]
          \/ u = syncUser /\ i = Len(queue[syncUser]) + 1 /\ queue'[u][i].reg = r
      BY <1>1
    <3>3. \/ j \in DOMAIN queue[v] /\ queue'[v][j] = queue[v][j]
          \/ v = syncUser /\ j = Len(queue[syncUser]) + 1 /\ queue'[v][j].reg = r
      BY <1>1
    <3>4. QED
      BY <2>1, <3>1, <3>2, <3>3 DEF DInv, OneRow, Queued
  <2>2. \A s \in Registrations : Queued(s)' => outcome'[s] = "none"
    BY <1>1, <1>2 DEF DInv, OneRow, Fresh
  <2>3. QED
    BY <2>1, <2>2 DEF OneRow
<1> DEFINE f == FillWritePipeline(remote, queue'[syncUser])
<1>8. f.call.answers = remote.call.answers
  <2> DEFINE q == queue'[syncUser]
  <2>1. /\ Rows' /\ RemoteOK(remote, q) /\ queue' \in [Users -> Seq(Batch)]
    BY <1>1, <1>2, <1>3, RowAdded
  <2>2. q \in Seq(Batch) /\ Ascending(q)
    BY <1>3, <2>1 DEF Rows
  <2> HIDE DEF q
  <2>3. FillWritePipeline(remote, q).call.answers = remote.call.answers
    BY <2>1, <2>2, FillOK
  <2>4. QED
    BY <2>3 DEF q
<1> HIDE DEF f
<1>9. late' \subseteq late \cup InFlight(remote.call) /\ remote' = f
  BY <1>2, BecomesLate DEF f
<1>10. Untouched'
  BY <1>2, <1>4, <1>9, FreshUntouched
<1>11. Tells'
  <2>1. told[r] = "none"
    BY <1>1 DEF DInv, Untouched
  <2>2. \A u \in Users : \A c \in waiting'[u] : told'[c.reg] = "none"
    BY <1>1, <1>2, <2>1 DEF DInv, Tells
  <2>3. \A i \in DOMAIN remote'.call.answers :
          remote'.call.answers[i] # Hello => remote'.call.answers[i].reg \in applied'
    BY <1>2, <1>8, <1>9 DEF DInv, Tells
  <2>4. QED
    BY <2>2, <2>3 DEF Tells
<1>12. QED
  BY <1>6, <1>7, <1>10, <1>11 DEF DInv
-----------------------------------------------------------------------------
(* A batch leaves the front of the queue, and its callback is called.      *)
LEMMA FrontLeaves ==
  ASSUME IInv, DInv, remote.pipeline # << >>, NEW how, RemoveBatch(Head(remote.pipeline), how)
  PROVE  LET b == Head(remote.pipeline)
         IN /\ b \in Batch /\ b.reg \in Registrations /\ Queued(b.reg) /\ outcome[b.reg] = "none"
            /\ outcome' = [outcome EXCEPT ![b.reg] = how]
            /\ \A s : Queued(s)' <=> Queued(s) /\ s # b.reg
            /\ \A u \in Users : \A i \in DOMAIN queue'[u] : LET j == IF u = syncUser THEN i + 1 ELSE i
                 IN i \in Nat /\ j \in DOMAIN queue[u] /\ queue'[u][i] = queue[u][j]
<1> DEFINE q == queue[syncUser]
           b == Head(remote.pipeline)
           q1 == RemoveAt(q, 1)
<1>1. TypeOK /\ Rows /\ Stream
  BY DEF IInv
<1>2. b \in Batch /\ 1 \in DOMAIN q /\ q[1] = b /\ Row(q, b) = 1
  BY <1>1, FrontRow
<1>3. q \in Seq(Batch) /\ syncUser \in Users
  BY <1>1 DEF TypeOK
<1>4. queue' = [queue EXCEPT ![syncUser] = q1] /\ outcome' = [outcome EXCEPT ![b.reg] = how]
  BY <1>2 DEF RemoveBatch
<1> HIDE DEF q, b
<1>5. /\ Len(q1) = Len(q) - 1 /\ Len(q) \in Nat /\ DOMAIN q = 1 .. Len(q) /\ DOMAIN q1 = 1 .. Len(q) - 1
      /\ \A i \in 1 .. Len(q) - 1 : q1[i] = q[i + 1]
  <2>1. q1 \in Seq(Batch) /\ Dropped(q, 1, q1)
    BY <1>2, <1>3, RemoveAtDropped
  <2> HIDE DEF q1
  <2>2. Len(q1) = Len(q) - 1 /\ \A i \in 1 .. Len(q1) : q1[i] = IF i < 1 THEN q[i] ELSE q[i + 1]
    BY <2>1 DEF Dropped
  <2>3. Len(q) \in Nat /\ DOMAIN q = 1 .. Len(q) /\ DOMAIN q1 = 1 .. Len(q1)
    BY <1>3, <2>1
  <2>4. QED
    BY <2>1, <2>2, <2>3
<1> HIDE DEF q1
<1>6. queue'[syncUser] = q1 /\ \A u \in Users : u # syncUser => queue'[u] = queue[u]
  BY <1>1, <1>3, <1>4 DEF TypeOK
<1>7. \A i \in DOMAIN q1 : i \in Nat /\ i + 1 \in DOMAIN q /\ q1[i] = q[i + 1] /\ i + 1 # 1
  BY <1>5
<1>8. \A u \in Users : \A i \in DOMAIN queue[u] : i \in Nat
  BY <1>1 DEF TypeOK
<1>9. \A u \in Users : \A i \in DOMAIN queue'[u] :
         IF u = syncUser THEN i \in Nat /\ i + 1 \in DOMAIN queue[u] /\ queue'[u][i] = queue[u][i + 1]
         ELSE i \in Nat /\ i \in DOMAIN queue[u] /\ queue'[u][i] = queue[u][i]
  BY <1>6, <1>7, <1>8 DEF q
<1>10. b.reg \in Registrations /\ Queued(b.reg)
  BY <1>2, <1>3 DEF Batch, Queued, q
<1>11. outcome[b.reg] = "none"
  BY <1>10 DEF DInv, OneRow
<1>12. \A u \in Users : \A i \in DOMAIN queue[u] : queue[u][i].reg = b.reg => u = syncUser /\ i = 1
  BY <1>2, <1>3 DEF DInv, OneRow, q
<1>13. \A s : Queued(s)' <=> Queued(s) /\ s # b.reg
  <2>1. ASSUME NEW s, Queued(s)'
        PROVE  Queued(s) /\ s # b.reg
    <3>1. PICK u \in Users : \E i \in DOMAIN queue'[u] : queue'[u][i].reg = s
      BY <2>1 DEF Queued
    <3>2. PICK i \in DOMAIN queue'[u] : queue'[u][i].reg = s
      BY <3>1
    <3>3. CASE u = syncUser
      <4>1. i + 1 \in DOMAIN queue[u] /\ queue[u][i + 1].reg = s /\ i + 1 # 1
        BY <1>6, <1>7, <3>2, <3>3 DEF q
      <4>2. QED
        BY <1>12, <4>1 DEF Queued
    <3>4. CASE u # syncUser
      <4>1. i \in DOMAIN queue[u] /\ queue[u][i].reg = s
        BY <1>6, <3>2, <3>4
      <4>2. QED
        BY <1>12, <3>4, <4>1 DEF Queued
    <3>5. QED
      BY <3>3, <3>4
  <2>2. ASSUME NEW s, Queued(s), s # b.reg
        PROVE  Queued(s)'
    <3>1. PICK u \in Users : \E i \in DOMAIN queue[u] : queue[u][i].reg = s
      BY <2>2 DEF Queued
    <3>2. PICK i \in DOMAIN queue[u] : queue[u][i].reg = s
      BY <3>1
    <3>3. CASE u = syncUser
      <4>1. i \in 1 .. Len(q) /\ i # 1 /\ q[i].reg = s
        BY <1>2, <1>5, <2>2, <3>2, <3>3 DEF q
      <4>2. i - 1 \in 1 .. Len(q) - 1 /\ (i - 1) + 1 = i
        BY <1>5, <4>1
      <4>3. i - 1 \in DOMAIN q1 /\ q1[i - 1].reg = s
        BY <1>5, <4>1, <4>2
      <4>4. QED
        BY <1>3, <1>6, <4>3 DEF Queued
    <3>4. CASE u # syncUser
      <4>1. i \in DOMAIN queue'[u] /\ queue'[u][i].reg = s
        BY <1>6, <3>2, <3>4
      <4>2. QED
        BY <4>1 DEF Queued
    <3>5. QED
      BY <3>3, <3>4
  <2>3. QED
    BY <2>1, <2>2
<1>14. QED
  BY <1>2, <1>4, <1>9, <1>10, <1>11, <1>13 DEF b

(* NotifyUser for the first batch of the pipeline tells the registration   *)
(* of that batch or nobody, and never a second time.                       *)
LEMMA WaiterTold ==
  ASSUME IInv, DInv, remote.pipeline # << >>, NEW answer, NotifyUser(Head(remote.pipeline).id, answer)
  PROVE  LET w == Head(remote.pipeline).reg
         IN /\ told' = told \/ (told[w] = "none" /\ told' = [told EXCEPT ![w] = answer])
            /\ \A u \in Users : \A c \in waiting'[u] : c \in waiting[u] /\ c.reg # w
<1> DEFINE q == queue[syncUser]
           b == Head(remote.pipeline)
           w == b.reg
           found == {c \in waiting[syncUser] : c.id = b.id}
<1>1. TypeOK /\ Rows /\ Stream
  BY DEF IInv
<1>2. /\ b \in Batch /\ 1 \in DOMAIN q /\ q[1] = b
      /\ \A i \in DOMAIN q : q[i].id = b.id => i = 1
  BY <1>1, FrontRow
<1>3. w \in Registrations /\ syncUser \in Users /\ told \in [Registrations -> {"none", "ok", "error"}]
  BY <1>1, <1>2 DEF TypeOK, Batch
<1>4. /\ told' = [r \in Registrations |-> IF \E c \in found : c.reg = r THEN answer ELSE told[r]]
      /\ waiting' = [waiting EXCEPT ![syncUser] = waiting[syncUser] \ found]
  BY DEF NotifyUser
<1>5. \A u \in Users : \A c \in waiting[u] : \E i \in DOMAIN queue[u] : c = queue[u][i]
  BY <1>1 DEF Rows, ToSet
<1> HIDE DEF b
<1>6. \A c \in found : c = b
  BY <1>2, <1>3, <1>5 DEF q
<1>7. \A u \in Users : \A i \in DOMAIN queue[u] : queue[u][i].reg = b.reg => u = syncUser /\ i = 1
  BY <1>2, <1>3 DEF DInv, OneRow, q
<1>8. \A u \in Users : \A c \in waiting[u] : c.reg = w => u = syncUser /\ c = b
  BY <1>2, <1>5, <1>7 DEF q
<1>9. /\ waiting'[syncUser] = waiting[syncUser] \ found
      /\ \A u \in Users : u # syncUser => waiting'[u] = waiting[u]
  BY <1>1, <1>3, <1>4 DEF TypeOK
<1>10. \A u \in Users : \A c \in waiting'[u] : c \in waiting[u] /\ c.reg # w
  BY <1>8, <1>9
<1>11. CASE b \in waiting[syncUser]
  <2>1. told[w] = "none"
    BY <1>3, <1>11 DEF DInv, Tells
  <2>2. b \in found
    BY <1>11
  <2> HIDE DEF found
  <2>3. \A r \in Registrations : (\E c \in found : c.reg = r) <=> r = w
    BY <1>6, <2>2
  <2> HIDE DEF w
  <2>4. told' = [told EXCEPT ![w] = answer]
    BY <1>3, <1>4, <2>3
  <2>5. QED
    BY <1>10, <2>1, <2>4 DEF w, b
<1>12. CASE b \notin waiting[syncUser]
  <2>1. found = {}
    BY <1>6, <1>12
  <2> HIDE DEF found
  <2>2. told' = told
    BY <1>3, <1>4, <2>1
  <2>3. QED
    BY <1>10, <2>2 DEF w, b
<1>13. QED
  BY <1>11, <1>12

(* A row leaves its queue with an outcome, and its callback with it.       *)
LEMMA LeaveCalls ==
  ASSUME IInv, DInv, remote.pipeline # << >>, NEW how \in {"acked", "rejected"},
         RemoveBatch(Head(remote.pipeline), how),
         NEW answer \in {"ok", "error"}, NotifyUser(Head(remote.pipeline).id, answer),
         late' \subseteq late \cup InFlight(remote.call),
         \A i \in DOMAIN remote'.call.answers :
           \E j \in DOMAIN remote.call.answers : remote'.call.answers[i] = remote.call.answers[j],
         UNCHANGED << worker, server, faults >>
  PROVE  DInv'
<1>1. PICK w \in Registrations : w = Head(remote.pipeline).reg
  BY FrontLeaves
<1>2. /\ Queued(w) /\ outcome[w] = "none"
      /\ outcome' = [outcome EXCEPT ![w] = how]
      /\ \A s : Queued(s)' <=> Queued(s) /\ s # w
      /\ \A u \in Users : \A i \in DOMAIN queue'[u] : LET j == IF u = syncUser THEN i + 1 ELSE i
           IN i \in Nat /\ j \in DOMAIN queue[u] /\ queue'[u][i] = queue[u][j]
  BY <1>1, FrontLeaves
<1>3. /\ told' = told \/ (told[w] = "none" /\ told' = [told EXCEPT ![w] = answer])
      /\ \A u \in Users : \A c \in waiting'[u] : c \in waiting[u] /\ c.reg # w
  BY <1>1, WaiterTold
<1>4. /\ mainQueue \in Seq(Blocks) /\ tasks \in Seq(Tasks) /\ TypeOK
      /\ outcome \in [Registrations -> {"none", "acked", "rejected"}]
      /\ told \in [Registrations -> {"none", "ok", "error"}]
  BY DEF IInv, TypeOK
<1>5. UNCHANGED << accounts, mainQueue, tasks, syncUser, applied >>
  BY DEF worker, auth, server
<1>6. \A s \in Registrations : (s # w => outcome'[s] = outcome[s]) /\ (s = w => outcome'[s] # "none")
  BY <1>2, <1>4
<1>7. \A s \in Registrations : Fresh(s)' <=> Fresh(s)
  BY <1>2, <1>6 DEF Fresh
<1>8. OneCall'
  <2>1. \A i \in DOMAIN mainQueue' : i \in Nat /\ i + 0 \in DOMAIN mainQueue /\ mainQueue'[i] = mainQueue[i + 0]
    BY <1>4, <1>5
  <2>2. \A i \in DOMAIN tasks' : i \in Nat /\ i + 0 \in DOMAIN tasks /\ tasks'[i] = tasks[i + 0]
    BY <1>4, <1>5
  <2>3. QED
    BY <1>4, <1>5, <1>7, <2>1, <2>2, CallsKept DEF DInv
<1>9. OneRow'
  <2>1. ASSUME NEW u \in Users, NEW v \in Users, NEW i \in DOMAIN queue'[u], NEW j \in DOMAIN queue'[v],
               queue'[u][i].reg = queue'[v][j].reg
        PROVE  u = v /\ i = j
    <3> DEFINE k == IF u = syncUser THEN i + 1 ELSE i
               l == IF v = syncUser THEN j + 1 ELSE j
    <3>1. /\ i \in Nat /\ k \in DOMAIN queue[u] /\ queue'[u][i] = queue[u][k]
          /\ j \in Nat /\ l \in DOMAIN queue[v] /\ queue'[v][j] = queue[v][l]
      BY <1>2
    <3> HIDE DEF k, l
    <3>2. u = v /\ k = l
      BY <2>1, <3>1 DEF DInv, OneRow
    <3>3. QED
      BY <3>1, <3>2 DEF k, l
  <2>2. \A s \in Registrations : Queued(s)' => outcome'[s] = "none"
    BY <1>2, <1>6 DEF DInv, OneRow
  <2>3. QED
    BY <2>1, <2>2 DEF OneRow
<1>10. Untouched'
  <2> SUFFICES ASSUME NEW s \in Registrations, Fresh(s)'
               PROVE  told'[s] = "none" /\ s \notin late' /\ s \notin applied'
    BY DEF Untouched
  <2>1. Fresh(s) /\ s # w
    BY <1>2, <1>7 DEF Fresh
  <2>2. told[s] = "none" /\ s \notin late /\ s \notin applied
    BY <2>1 DEF DInv, Untouched
  <2>3. s \notin InFlight(remote.call)
    BY <2>1, FlightQueued DEF Fresh
  <2>4. told'[s] = told[s]
    BY <1>3, <1>4, <2>1
  <2>5. QED
    BY <1>5, <2>2, <2>3, <2>4
<1>11. Tells'
  <2>1. ASSUME NEW u \in Users, NEW c \in waiting'[u]
        PROVE  told'[c.reg] = "none"
    <3>1. c \in waiting[u] /\ c.reg # w
      BY <1>3
    <3>2. told[c.reg] = "none"
      BY <3>1 DEF DInv, Tells
    <3>3. c.reg \in Registrations
      BY <1>4, <3>1 DEF TypeOK, Batch
    <3>4. told'[c.reg] = told[c.reg]
      BY <1>3, <1>4, <3>1, <3>3
    <3>5. QED
      BY <3>2, <3>4
  <2>2. \A i \in DOMAIN remote'.call.answers :
          remote'.call.answers[i] # Hello => remote'.call.answers[i].reg \in applied'
    BY <1>5 DEF DInv, Tells
  <2>3. QED
    BY <2>1, <2>2 DEF Tells
<1>12. QED
  BY <1>8, <1>9, <1>10, <1>11 DEF DInv

(* MutationResult: the answer read is that of the batch that leaves.       *)
LEMMA MutationResultCalls ==
  ASSUME IInv, DInv, MutationResult
  PROVE  DInv'
<1> DEFINE p == [remote EXCEPT !.pipeline = Tail(@), !.call.answers = Tail(@)]
           q == queue'[syncUser]
           r == FillWritePipeline(p, q)
<1>1. TypeOK /\ Rows /\ Stream
  BY DEF IInv
<1>2. /\ remote.call.answers # << >> /\ remote.handshake
      /\ NotifyUser(Head(remote.pipeline).id, "ok") /\ RemoveBatch(Head(remote.pipeline), "acked")
      /\ Becomes(r) /\ UNCHANGED << worker, server, faults >>
  BY DEF MutationResult
<1>3. /\ remote.pipeline # << >> /\ p \in Remotes /\ StreamOK(p) /\ p.pipeline = Tail(remote.pipeline)
      /\ p.call.answers = Tail(remote.call.answers)
  BY <1>1, <1>2, PoppedOK DEF Stream
<1>4. nextId' = nextId /\ syncUser' = syncUser
  BY <1>2 DEF worker
<1>5. /\ Rows' /\ Prefix(Tail(remote.pipeline), q) /\ queue' \in [Users -> Seq(Batch)]
  BY <1>1, <1>2, <1>3, <1>4, RowRemoved
<1>6. q \in Seq(Batch) /\ Ascending(q) /\ Len(Tail(remote.pipeline)) <= MaxPendingWrites
  BY <1>1, <1>3, <1>5, FrontRow DEF TypeOK, Rows
<1> HIDE DEF p, q
<1>7. RemoteOK(p, q)
  BY <1>3, <1>5, <1>6 DEF RemoteOK
<1>8. r.call.answers = Tail(remote.call.answers)
  BY <1>3, <1>6, <1>7, FillOK
<1> HIDE DEF r
<1>9. late' \subseteq late \cup InFlight(remote.call) /\ remote' = r
  BY <1>2, BecomesLate
<1>10. remote.call.answers \in Seq(Messages)
  BY <1>1, CallParts DEF TypeOK
<1>11. \A i \in DOMAIN Tail(remote.call.answers) :
         i + 1 \in DOMAIN remote.call.answers /\ Tail(remote.call.answers)[i] = remote.call.answers[i + 1]
  BY <1>2, <1>10, TailElements
<1>12. \A i \in DOMAIN remote'.call.answers :
         \E j \in DOMAIN remote.call.answers : remote'.call.answers[i] = remote.call.answers[j]
  BY <1>8, <1>9, <1>11
<1>13. QED
  BY <1>2, <1>3, <1>9, <1>12, LeaveCalls

(* HandleWriteError: the batch refused leaves.                             *)
LEMMA HandleWriteErrorCalls ==
  ASSUME IInv, DInv, HandleWriteError
  PROVE  DInv'
<1> DEFINE p == [Close(remote, "Initial") EXCEPT !.pipeline = Tail(@)]
           q == queue'[syncUser]
           r == FillWritePipeline(p, q)
<1>1. TypeOK /\ Rows /\ Stream
  BY DEF IInv
<1>2. /\ remote.call.status = "permanent"
      /\ NotifyUser(Head(remote.pipeline).id, "error") /\ RemoveBatch(Head(remote.pipeline), "rejected")
      /\ Becomes(r) /\ UNCHANGED << worker, server, faults >>
  BY DEF HandleWriteError
<1>3. /\ remote.pipeline # << >> /\ p \in Remotes /\ StreamOK(p) /\ p.pipeline = Tail(remote.pipeline)
      /\ p.call = NoCall
  BY <1>1, <1>2, ClosedOK DEF Stream
<1>4. nextId' = nextId /\ syncUser' = syncUser
  BY <1>2 DEF worker
<1>5. /\ Rows' /\ Prefix(Tail(remote.pipeline), q) /\ queue' \in [Users -> Seq(Batch)]
  BY <1>1, <1>2, <1>3, <1>4, RowRemoved
<1>6. q \in Seq(Batch) /\ Ascending(q) /\ Len(Tail(remote.pipeline)) <= MaxPendingWrites
  BY <1>1, <1>3, <1>5, FrontRow DEF TypeOK, Rows
<1> HIDE DEF p, q
<1>7. RemoteOK(p, q)
  BY <1>3, <1>5, <1>6 DEF RemoteOK
<1>8. r.call.answers = << >>
  BY <1>3, <1>6, <1>7, FillOK, NoCallAnswers
<1> HIDE DEF r
<1>9. late' \subseteq late \cup InFlight(remote.call) /\ remote' = r
  BY <1>2, BecomesLate
<1>10. \A i \in DOMAIN remote'.call.answers :
         \E j \in DOMAIN remote.call.answers : remote'.call.answers[i] = remote.call.answers[j]
  BY <1>8, <1>9
<1>11. QED
  BY <1>2, <1>3, <1>9, <1>10, LeaveCalls

(* The process dies after the callback.                                    *)
LEMMA KillAfterNotifyTells ==
  ASSUME IInv, DInv, KillAfterNotify
  PROVE  LET w == Head(remote.pipeline).reg
         IN /\ remote.pipeline # << >> /\ Head(remote.call.answers) = Head(remote.pipeline)
            /\ w \in Registrations /\ Queued(w)
            /\ told' = told \/ (told[w] = "none" /\ told' = [told EXCEPT ![w] = "ok"])
<1> DEFINE b == Head(remote.pipeline)
           w == b.reg
<1>1. TypeOK /\ Rows /\ Stream
  BY DEF IInv
<1>2. /\ remote.call.answers # << >> /\ remote.handshake
      /\ told' = [r \in Registrations |->
                    IF \E c \in waiting[syncUser] : c = b /\ c.reg = r THEN "ok" ELSE told[r]]
  BY DEF KillAfterNotify
<1>3. remote.pipeline # << >> /\ Head(remote.call.answers) = Head(remote.pipeline)
  BY <1>1, <1>2, PoppedOK DEF Stream
<1>4. b \in Batch /\ 1 \in DOMAIN queue[syncUser] /\ queue[syncUser][1] = b
  BY <1>1, <1>3, FrontRow
<1> HIDE DEF b
<1>5. /\ w \in Registrations /\ syncUser \in Users /\ Queued(w)
      /\ told \in [Registrations -> {"none", "ok", "error"}]
  BY <1>1, <1>4 DEF TypeOK, Batch, Queued
<1>6. CASE b \in waiting[syncUser]
  <2>1. told[w] = "none"
    BY <1>5, <1>6 DEF DInv, Tells
  <2>2. told' = [told EXCEPT ![w] = "ok"]
    BY <1>2, <1>5, <1>6
  <2>3. QED
    BY <1>3, <1>5, <2>1, <2>2 DEF b
<1>7. CASE b \notin waiting[syncUser]
  <2>1. told' = told
    BY <1>2, <1>5, <1>7
  <2>2. QED
    BY <1>3, <1>5, <2>1 DEF b
<1>8. QED
  BY <1>6, <1>7

(* KillAfterNotify tells the waiter of a batch the server has applied, and *)
(* the row stays.                                                          *)
LEMMA KillAfterNotifyCalls ==
  ASSUME IInv, DInv, KillAfterNotify
  PROVE  DInv'
<1>1. PICK w \in Registrations : w = Head(remote.pipeline).reg
  BY KillAfterNotifyTells
<1>2. Queued(w) /\ (told' = told \/ told' = [told EXCEPT ![w] = "ok"])
  BY <1>1, KillAfterNotifyTells
<1>3. Die
  BY DEF KillAfterNotify
<1>4. /\ mainQueue' = << >> /\ tasks' = << >>
      /\ UNCHANGED << queue, outcome, accounts, applied >> /\ late' = late \cup InFlight(remote.call)
      /\ remote' = Idle /\ waiting' = [u \in Users |-> {}]
  BY <1>3 DEF Die, disk, auth, server
<1>5. TypeOK /\ told \in [Registrations -> {"none", "ok", "error"}]
  BY DEF IInv, TypeOK
<1>6. /\ \A r \in Registrations : Fresh(r)' <=> Fresh(r)
      /\ OneRow'
  BY <1>4, SameDisk DEF DInv
<1>7. OneCall'
  <2>1. \A i \in DOMAIN mainQueue' : i \in Nat /\ i + 0 \in DOMAIN mainQueue /\ mainQueue'[i] = mainQueue[i + 0]
    BY <1>4
  <2>2. \A i \in DOMAIN tasks' : i \in Nat /\ i + 0 \in DOMAIN tasks /\ tasks'[i] = tasks[i + 0]
    BY <1>4
  <2>3. QED
    BY <1>4, <1>5, <1>6, <2>1, <2>2, CallsKept DEF DInv
<1>8. Untouched'
  <2> SUFFICES ASSUME NEW s \in Registrations, Fresh(s)'
               PROVE  told'[s] = "none" /\ s \notin late' /\ s \notin applied'
    BY DEF Untouched
  <2>1. Fresh(s) /\ s # w
    BY <1>2, <1>6 DEF Fresh
  <2>2. told[s] = "none" /\ s \notin late /\ s \notin applied
    BY <2>1 DEF DInv, Untouched
  <2>3. s \notin InFlight(remote.call)
    BY <2>1, FlightQueued DEF Fresh
  <2>4. told'[s] = told[s]
    BY <1>2, <1>5, <2>1
  <2>5. QED
    BY <1>4, <2>2, <2>3, <2>4
<1>9. Tells'
  <2>1. \A i \in DOMAIN remote'.call.answers : FALSE
    BY <1>4, IdleOK, NoCallAnswers
  <2>2. \A u \in Users : \A c \in waiting'[u] : FALSE
    BY <1>4
  <2>3. QED
    BY <2>1, <2>2 DEF Tells
<1>10. QED
  BY <1>6, <1>7, <1>8, <1>9 DEF DInv
-----------------------------------------------------------------------------
(* The server.                                                             *)
LEMMA ServerCalls ==
  ASSUME IInv, DInv, AcceptHandshake \/ Commit
  PROVE  DInv'
<1>1. TypeOK /\ Stream /\ mainQueue \in Seq(Blocks) /\ tasks \in Seq(Tasks)
  BY DEF IInv, TypeOK
<1>2. /\ remote.call.requests # << >> /\ remote' = [remote EXCEPT !.call = Answered]
      /\ UNCHANGED << worker, told, tokenRequests, waiting, disk, late, faults >>
  BY DEF AcceptHandshake, Commit, Serve
<1>3. UNCHANGED << accounts, mainQueue, tasks, queue, outcome >>
  BY <1>2 DEF worker, auth, disk
<1>4. PICK h : h = Head(remote.call.requests)
  OBVIOUS
<1>5. remote.call.answers \in Seq(Messages) /\ remote.call.requests \in Seq(Messages) /\ remote \in Remotes
  BY <1>1, CallParts DEF TypeOK
<1>6. 1 \in DOMAIN remote.call.requests /\ h = remote.call.requests[1] /\ h \in Messages
  BY <1>2, <1>4, <1>5, TailElements
<1>7. h = Hello \/ Queued(h.reg)
  BY <1>6, RequestQueued
<1>8. \/ h = Hello /\ applied' = applied
      \/ h # Hello /\ applied' = applied \cup {h.reg}
  BY <1>4 DEF AcceptHandshake, Commit, server
<1>9. /\ \A r \in Registrations : Fresh(r)' <=> Fresh(r)
      /\ OneRow'
  BY <1>3, SameDisk DEF DInv
<1>10. OneCall'
  <2>1. \A i \in DOMAIN mainQueue' : i \in Nat /\ i + 0 \in DOMAIN mainQueue /\ mainQueue'[i] = mainQueue[i + 0]
    BY <1>1, <1>3
  <2>2. \A i \in DOMAIN tasks' : i \in Nat /\ i + 0 \in DOMAIN tasks /\ tasks'[i] = tasks[i + 0]
    BY <1>1, <1>3
  <2>3. QED
    BY <1>1, <1>3, <1>9, <2>1, <2>2, CallsKept DEF DInv
<1>11. Untouched'
  <2> SUFFICES ASSUME NEW s \in Registrations, Fresh(s)'
               PROVE  told'[s] = "none" /\ s \notin late' /\ s \notin applied'
    BY DEF Untouched
  <2>1. Fresh(s)
    BY <1>9
  <2>2. told[s] = "none" /\ s \notin late /\ s \notin applied
    BY <2>1 DEF DInv, Untouched
  <2>3. h # Hello => s # h.reg
    BY <1>7, <2>1 DEF Fresh
  <2>4. QED
    BY <1>2, <1>8, <2>2, <2>3
<1>12. Tells'
  <2>1. remote'.call.answers = Append(remote.call.answers, h)
    BY <1>1, <1>2, <1>4, <1>5, AnsweredCall DEF Remotes
  <2>2. \A i \in DOMAIN remote'.call.answers :
          \/ i \in DOMAIN remote.call.answers /\ remote'.call.answers[i] = remote.call.answers[i]
          \/ remote'.call.answers[i] = h
    BY <1>5, <1>6, <2>1, AppendElements
  <2>3. \A i \in DOMAIN remote'.call.answers :
          remote'.call.answers[i] # Hello => remote'.call.answers[i].reg \in applied'
    BY <1>8, <2>2 DEF DInv, Tells
  <2>4. QED
    BY <1>2, <2>3 DEF DInv, Tells
<1>13. QED
  BY <1>9, <1>10, <1>11, <1>12 DEF DInv

(* A call that ends on the server's side moves no row.                     *)
LEMMA CallEndsQuiet ==
  ASSUME IInv, DInv, Refuse \/ Break
  PROVE  DInv'
<1>1. TypeOK /\ remote \in Remotes /\ remote.call \in Calls
  BY DEF IInv, TypeOK, Remotes
<1>2. /\ UNCHANGED << worker, told, waiting, disk, late, applied >>
      /\ \/ remote' = [remote EXCEPT !.call = [remote.call EXCEPT !.status = "permanent"]]
         \/ remote' = [remote EXCEPT !.call.status = "transient"]
  BY DEF Refuse, Serve, Break, server
<1>3. UNCHANGED << accounts, mainQueue, tasks, queue, outcome, told, waiting, applied, late >>
  BY <1>2 DEF worker, auth, disk
<1>4. remote'.call.answers = remote.call.answers
  BY <1>1, <1>2 DEF Remotes, Calls
<1>5. QED
  BY <1>3, <1>4, WorkerQuiet

(* LateCommit applies a write that had a row, hence none that is fresh.    *)
LEMMA LateCommitCalls ==
  ASSUME IInv, DInv, NEW r \in Registrations, LateCommit(r)
  PROVE  DInv'
<1>1. TypeOK /\ mainQueue \in Seq(Blocks) /\ tasks \in Seq(Tasks)
  BY DEF IInv, TypeOK
<1>2. /\ r \in late /\ late' = late \ {r} /\ applied' = applied \cup {r}
      /\ UNCHANGED << accounts, mainQueue, tasks, queue, outcome, told, waiting, remote >>
  BY DEF LateCommit, worker, auth, disk
<1>3. /\ \A s \in Registrations : Fresh(s)' <=> Fresh(s)
      /\ OneRow'
  BY <1>2, SameDisk DEF DInv
<1>4. OneCall'
  <2>1. \A i \in DOMAIN mainQueue' : i \in Nat /\ i + 0 \in DOMAIN mainQueue /\ mainQueue'[i] = mainQueue[i + 0]
    BY <1>1, <1>2
  <2>2. \A i \in DOMAIN tasks' : i \in Nat /\ i + 0 \in DOMAIN tasks /\ tasks'[i] = tasks[i + 0]
    BY <1>1, <1>2
  <2>3. QED
    BY <1>1, <1>2, <1>3, <2>1, <2>2, CallsKept DEF DInv
<1>5. Untouched'
  BY <1>2, <1>3 DEF DInv, Untouched
<1>6. Tells'
  BY <1>2 DEF DInv, Tells
<1>7. QED
  BY <1>3, <1>4, <1>5, <1>6 DEF DInv
-----------------------------------------------------------------------------
(* The initial states.                                                     *)
LEMMA InitCalls == Init => DInv
<1> SUFFICES ASSUME Init
             PROVE  DInv
  OBVIOUS
<1>1. /\ mainQueue = << >> /\ tasks = << >> /\ remote = Idle
      /\ told = [r \in Registrations |-> "none"] /\ outcome = [r \in Registrations |-> "none"]
      /\ queue = [u \in Users |-> << >>] /\ waiting = [u \in Users |-> {}]
      /\ applied = {} /\ late = {}
  BY DEF Init
<1>2. \A r : ~Queued(r)
  BY <1>1 DEF Queued
<1>3. \A r \in Registrations : Fresh(r)
  BY <1>1, <1>2 DEF Fresh
<1>4. OneCall
  BY <1>1, <1>3 DEF OneCall
<1>5. OneRow
  BY <1>1, <1>2 DEF OneRow
<1>6. Untouched
  BY <1>1 DEF Untouched
<1>7. Tells
  <2>1. \A i \in DOMAIN remote.call.answers : FALSE
    BY <1>1, IdleOK, NoCallAnswers
  <2>2. QED
    BY <1>1, <2>1 DEF Tells
<1>8. QED
  BY <1>4, <1>5, <1>6, <1>7 DEF DInv

(* A step that changes nothing.                                            *)
LEMMA StutterCalls ==
  ASSUME IInv, DInv, UNCHANGED vars
  PROVE  DInv'
BY WorkerQuiet DEF vars, auth, app, memory, disk, server

(* Every step keeps DInv.                                                  *)
LEMMA NextCalls == IInv /\ DInv /\ [Next]_vars => DInv'
<1> SUFFICES ASSUME IInv, DInv, [Next]_vars
             PROVE  DInv'
  OBVIOUS
<1>1. ASSUME NEW r \in Registrations, CreateUser(r) PROVE DInv'
  BY <1>1, CreateUserCalls
<1>2. CASE \E u \in Users : ChangeSession(u)
  BY <1>2, FirebaseQuiet
<1>3. CASE \E i \in DOMAIN tokenRequests : Token(i)
  BY <1>3, FirebaseQuiet
<1>4. CASE CredentialChange \/ TokenCallback
  BY <1>4, BlockQuiet
<1>5. ASSUME NEW r \in Registrations, saveInfoToFirestore(r) \/ SetData(r) PROVE DInv'
  BY <1>5, SaveInfoCalls, SetDataCalls
<1>6. CASE EmptyUidCrash
  <2>1. Die /\ told' = told
    BY <1>6 DEF EmptyUidCrash
  <2>2. QED
    BY <2>1, DieQuiet
<1>7. CASE Kill
  <2>1. Die /\ told' = told
    BY <1>7 DEF Kill
  <2>2. QED
    BY <2>1, DieQuiet
<1>8. CASE Initialize
  BY <1>8, InitializeQuiet
<1>9. CASE HandleCredentialChange
  BY <1>9, HandleCredentialChangeQuiet
<1>10. CASE WriteMutations
  BY <1>10, WriteMutationsCalls
<1>11. CASE ResumeStartWithCredentials
  BY <1>11, ResumeQuiet
<1>12. CASE BackoffElapsed \/ IdleTimeout \/ ConnectivityChanged \/ HandshakeComplete \/ CallFailed
  BY <1>12, TimerQuiet
<1>13. CASE MutationResult
  BY <1>13, MutationResultCalls
<1>14. CASE HandleWriteError
  BY <1>14, HandleWriteErrorCalls
<1>15. CASE AcceptHandshake \/ Commit
  BY <1>15, ServerCalls
<1>16. CASE Refuse \/ Break
  BY <1>16, CallEndsQuiet
<1>17. ASSUME NEW r \in Registrations, LateCommit(r) PROVE DInv'
  BY <1>17, LateCommitCalls
<1>18. CASE KillAfterNotify
  BY <1>18, KillAfterNotifyCalls
<1>19. CASE UNCHANGED vars
  BY <1>19, StutterCalls
<1>20. QED
  BY <1>1, <1>2, <1>3, <1>4, <1>5, <1>6, <1>7, <1>8, <1>9, <1>10, <1>11, <1>12, <1>13, <1>14,
     <1>15, <1>16, <1>17, <1>18, <1>19
     DEF Next, FirebaseAuth, Main, Worker, Reads, Server

(* Every write is one call, one row and one answer.                        *)
THEOREM EveryWriteOnce == Spec => []DInv
<1>1. Init => IInv /\ DInv
  BY InitInv, InitCalls
<1>2. (IInv /\ DInv) /\ [Next]_vars => (IInv /\ DInv)'
  BY NextInv, NextCalls
<1>3. QED
  BY <1>1, <1>2, PTL DEF Spec
-----------------------------------------------------------------------------
(* The client keeps the promise of DurableWrite.                           *)
State == [r \in Registrations |-> IF Queued(r) THEN "pending" ELSE outcome[r]]

(* A step of the promise, seen through the states of the writes.           *)
LEMMA PromiseStep ==
  ASSUME \/ UNCHANGED << State, applied, told >>
         \/ \E w \in Registrations :
              \/ /\ State[w] = "none" /\ State' = [State EXCEPT ![w] = "pending"]
                 /\ UNCHANGED << applied, told >>
              \/ /\ State[w] # "none" /\ applied' = applied \cup {w}
                 /\ UNCHANGED << State, told >>
              \/ /\ State[w] = "pending" /\ w \in applied /\ State' = [State EXCEPT ![w] = "acked"]
                 /\ told' = told \/ (told[w] = "none" /\ told' = [told EXCEPT ![w] = "ok"])
                 /\ applied' = applied
              \/ /\ State[w] = "pending" /\ w \in applied
                 /\ told[w] = "none" /\ told' = [told EXCEPT ![w] = "ok"]
                 /\ UNCHANGED << State, applied >>
              \/ /\ State[w] = "pending" /\ State' = [State EXCEPT ![w] = "rejected"]
                 /\ told' = told \/ (told[w] = "none" /\ told' = [told EXCEPT ![w] = "error"])
                 /\ applied' = applied
  PROVE  [Promise!Next]_(Promise!vars)
<1>1. CASE UNCHANGED << State, applied, told >>
  BY <1>1 DEF Promise!vars, State, Queued
<1>2. ASSUME NEW w \in Registrations,
             State[w] = "none", State' = [State EXCEPT ![w] = "pending"], UNCHANGED << applied, told >>
      PROVE  Promise!Accept(w)
  BY <1>2 DEF Promise!Accept, State, Queued
<1>3. ASSUME NEW w \in Registrations,
             State[w] # "none", applied' = applied \cup {w}, UNCHANGED << State, told >>
      PROVE  Promise!Apply(w)
  BY <1>3 DEF Promise!Apply, State, Queued
<1>4. ASSUME NEW w \in Registrations,
             State[w] = "pending", w \in applied, State' = [State EXCEPT ![w] = "acked"],
             told' = told \/ (told[w] = "none" /\ told' = [told EXCEPT ![w] = "ok"]),
             applied' = applied
      PROVE  Promise!Acknowledge(w)
  BY <1>4 DEF Promise!Acknowledge, Promise!Tell, State, Queued
<1>5. ASSUME NEW w \in Registrations,
             State[w] = "pending", w \in applied,
             told[w] = "none", told' = [told EXCEPT ![w] = "ok"], UNCHANGED << State, applied >>
      PROVE  Promise!TellTooEarly(w)
  BY <1>5 DEF Promise!TellTooEarly, Promise!Tell, State, Queued
<1>6. ASSUME NEW w \in Registrations,
             State[w] = "pending", State' = [State EXCEPT ![w] = "rejected"],
             told' = told \/ (told[w] = "none" /\ told' = [told EXCEPT ![w] = "error"]),
             applied' = applied
      PROVE  Promise!Reject(w)
  BY <1>6 DEF Promise!Reject, Promise!Tell, State, Queued
<1>7. QED
  BY <1>1, <1>2, <1>3, <1>4, <1>5, <1>6 DEF Promise!Next

(* The state of the writes in DurableWrite is a function of the queues and *)
(* the outcomes.                                                           *)
LEMMA SameState ==
  ASSUME UNCHANGED << queue, outcome >>
  PROVE  State' = State
BY DEF State, Queued

(* A step that changes neither of them, tells nobody and applies nothing   *)
(* is a stutter of DurableWrite.                                           *)
LEMMA QuietPromise ==
  ASSUME UNCHANGED << queue, outcome, applied, told >>
  PROVE  [Promise!Next]_(Promise!vars)
BY SameState, PromiseStep

(* WriteMutations accepts the write of its task.                           *)
LEMMA WriteMutationsPromise ==
  ASSUME IInv, DInv, WriteMutations
  PROVE  [Promise!Next]_(Promise!vars)
<1>1. PICK r \in Registrations :
        Fresh(r) /\ \A s \in Registrations : Queued(s)' <=> (Queued(s) \/ s = r)
  <2> DEFINE r == Head(tasks).reg
  <2> HIDE DEF r
  <2>1. QED
    BY WriteAdded DEF r
<1>2. UNCHANGED << told, outcome, applied >>
  BY DEF WriteMutations, app, server
<1>3. State[r] = "none"
  BY <1>1 DEF State, Fresh
<1>4. State' = [State EXCEPT ![r] = "pending"]
  <2>1. \A s \in Registrations : State'[s] = IF s = r THEN "pending" ELSE State[s]
    BY <1>1, <1>2 DEF State
  <2>2. State' = [s \in Registrations |-> IF s = r THEN "pending" ELSE State[s]]
    BY <2>1 DEF State
  <2>3. State = [s \in Registrations |-> State[s]]
    BY DEF State
  <2> HIDE DEF State
  <2>4. QED
    BY <2>2, <2>3
<1>5. QED
  BY <1>2, <1>3, <1>4, PromiseStep

(* A batch that leaves its queue settles its write.                        *)
LEMMA LeavesState ==
  ASSUME IInv, DInv, remote.pipeline # << >>, NEW how, RemoveBatch(Head(remote.pipeline), how)
  PROVE  LET w == Head(remote.pipeline).reg
         IN State[w] = "pending" /\ State' = [State EXCEPT ![w] = how]
<1>1. PICK w \in Registrations : w = Head(remote.pipeline).reg
  BY FrontLeaves
<1>2. /\ Queued(w) /\ outcome' = [outcome EXCEPT ![w] = how]
      /\ \A s : Queued(s)' <=> Queued(s) /\ s # w
  BY <1>1, FrontLeaves
<1>3. outcome \in [Registrations -> {"none", "acked", "rejected"}]
  BY DEF IInv, TypeOK
<1>4. State[w] = "pending"
  BY <1>2 DEF State
<1>5. \A s \in Registrations : State'[s] = IF s = w THEN how ELSE State[s]
  BY <1>2, <1>3 DEF State
<1>6. State' = [s \in Registrations |-> IF s = w THEN how ELSE State[s]]
  BY <1>5 DEF State
<1>7. State = [s \in Registrations |-> State[s]]
  BY DEF State
<1> HIDE DEF State
<1>8. State' = [State EXCEPT ![w] = how]
  BY <1>6, <1>7
<1>9. QED
  BY <1>1, <1>4, <1>8

(* The answer at the front is of a write that is applied.                  *)
LEMMA FrontApplied ==
  ASSUME IInv, DInv, remote.call.answers # << >>, remote.handshake
  PROVE  remote.pipeline # << >> /\ Head(remote.pipeline).reg \in applied
<1>1. TypeOK /\ Rows /\ Stream
  BY DEF IInv
<1>2. remote.pipeline # << >> /\ Head(remote.call.answers) = Head(remote.pipeline)
  BY <1>1, PoppedOK DEF Stream
<1>3. Head(remote.pipeline) \in Batch
  BY <1>1, <1>2, FrontRow
<1>4. Head(remote.pipeline) # Hello
  BY <1>3 DEF Batch, Hello
<1>5. remote.call.answers \in Seq(Messages)
  BY <1>1, CallParts DEF TypeOK
<1>6. 1 \in DOMAIN remote.call.answers /\ Head(remote.call.answers) = remote.call.answers[1]
  BY <1>5, TailElements
<1>7. QED
  BY <1>2, <1>4, <1>6 DEF DInv, Tells

(* MutationResult is Acknowledge of the batch that leaves.                 *)
LEMMA MutationResultPromise ==
  ASSUME IInv, DInv, MutationResult
  PROVE  [Promise!Next]_(Promise!vars)
<1>1. /\ remote.call.answers # << >> /\ remote.handshake
      /\ NotifyUser(Head(remote.pipeline).id, "ok") /\ RemoveBatch(Head(remote.pipeline), "acked")
      /\ applied' = applied
  BY DEF MutationResult, server
<1>2. remote.pipeline # << >> /\ Head(remote.pipeline).reg \in applied
  BY <1>1, FrontApplied
<1>3. PICK w \in Registrations : w = Head(remote.pipeline).reg
  BY <1>1, <1>2, FrontLeaves
<1>4. State[w] = "pending" /\ State' = [State EXCEPT ![w] = "acked"]
  BY <1>1, <1>2, <1>3, LeavesState
<1>5. told' = told \/ (told[w] = "none" /\ told' = [told EXCEPT ![w] = "ok"])
  BY <1>1, <1>2, <1>3, WaiterTold
<1>6. QED
  BY <1>1, <1>2, <1>3, <1>4, <1>5, PromiseStep

(* HandleWriteError is Reject of the batch that leaves.                    *)
LEMMA HandleWriteErrorPromise ==
  ASSUME IInv, DInv, HandleWriteError
  PROVE  [Promise!Next]_(Promise!vars)
<1>1. /\ remote.call.status = "permanent"
      /\ NotifyUser(Head(remote.pipeline).id, "error") /\ RemoveBatch(Head(remote.pipeline), "rejected")
      /\ applied' = applied
  BY DEF HandleWriteError, server
<1>2. remote.pipeline # << >>
  BY <1>1, ClosedOK DEF IInv, Stream
<1>3. PICK w \in Registrations : w = Head(remote.pipeline).reg
  BY <1>1, <1>2, FrontLeaves
<1>4. State[w] = "pending" /\ State' = [State EXCEPT ![w] = "rejected"]
  BY <1>1, <1>2, <1>3, LeavesState
<1>5. told' = told \/ (told[w] = "none" /\ told' = [told EXCEPT ![w] = "error"])
  BY <1>1, <1>2, <1>3, WaiterTold
<1>6. QED
  BY <1>1, <1>3, <1>4, <1>5, PromiseStep

(* KillAfterNotify is TellTooEarly, or a stutter when nobody waits.        *)
LEMMA KillAfterNotifyPromise ==
  ASSUME IInv, DInv, KillAfterNotify
  PROVE  [Promise!Next]_(Promise!vars)
<1>1. PICK w \in Registrations : w = Head(remote.pipeline).reg
  BY KillAfterNotifyTells
<1>2. Queued(w) /\ (told' = told \/ (told[w] = "none" /\ told' = [told EXCEPT ![w] = "ok"]))
  BY <1>1, KillAfterNotifyTells
<1>3. UNCHANGED << queue, outcome, applied >>
  BY DEF KillAfterNotify, Die, disk, server
<1>4. w \in applied
  BY <1>1, FrontApplied DEF KillAfterNotify
<1>5. State[w] = "pending" /\ State' = State
  BY <1>2, <1>3, SameState DEF State
<1>6. QED
  BY <1>2, <1>3, <1>4, <1>5, PromiseStep

(* Commit is Apply, or a stutter when the write is applied already.        *)
LEMMA CommitPromise ==
  ASSUME IInv, DInv, Commit
  PROVE  [Promise!Next]_(Promise!vars)
<1>1. TypeOK
  BY DEF IInv
<1>2. PICK h : h = Head(remote.call.requests)
  OBVIOUS
<1>3. /\ remote.call.requests # << >> /\ h # Hello /\ applied' = applied \cup {h.reg}
      /\ UNCHANGED << queue, outcome, told >>
  BY <1>2 DEF Commit, Serve, disk
<1>4. remote.call.requests \in Seq(Messages)
  BY <1>1, CallParts DEF TypeOK
<1>5. 1 \in DOMAIN remote.call.requests /\ h = remote.call.requests[1]
  BY <1>2, <1>3, <1>4, TailElements
<1>6. h \in Batch /\ Queued(h.reg)
  BY <1>3, <1>5, RequestQueued
<1>7. h.reg \in Registrations
  BY <1>6 DEF Batch
<1>8. State[h.reg] = "pending" /\ State' = State
  BY <1>3, <1>6, <1>7, SameState DEF State
<1>9. QED
  BY <1>3, <1>7, <1>8, PromiseStep

(* LateCommit is Apply, or a stutter.                                      *)
LEMMA LateCommitPromise ==
  ASSUME IInv, DInv, NEW r \in Registrations, LateCommit(r)
  PROVE  [Promise!Next]_(Promise!vars)
<1>1. r \in late /\ applied' = applied \cup {r} /\ UNCHANGED << queue, outcome, told >>
  BY DEF LateCommit, disk
<1>2. ~Fresh(r)
  BY <1>1 DEF DInv, Untouched
<1>3. State[r] # "none" /\ State' = State
  BY <1>1, <1>2, SameState DEF State, Fresh
<1>4. QED
  BY <1>1, <1>3, PromiseStep

(* Every step of the client is a step of DurableWrite or a stutter.        *)
LEMMA NextPromise == IInv /\ DInv /\ [Next]_vars => [Promise!Next]_(Promise!vars)
<1> SUFFICES ASSUME IInv, DInv, [Next]_vars
             PROVE  [Promise!Next]_(Promise!vars)
  OBVIOUS
<1>1. CASE FirebaseAuth
  BY <1>1, QuietPromise DEF FirebaseAuth, CreateUser, ChangeSession, app, disk, server
<1>2. ASSUME NEW i \in DOMAIN tokenRequests, Token(i)
      PROVE  [Promise!Next]_(Promise!vars)
  BY <1>2, QuietPromise DEF Token, ReadUser, AnswerToken, app, disk, server
<1>3. CASE \/ CredentialChange \/ TokenCallback
           \/ \E r \in Registrations : saveInfoToFirestore(r) \/ SetData(r)
  BY <1>3, QuietPromise DEF CredentialChange, TokenCallback, saveInfoToFirestore, SetData, app, disk, server
<1>4. CASE EmptyUidCrash \/ Kill
  BY <1>4, QuietPromise DEF EmptyUidCrash, Kill, Die, disk, server
<1>5. CASE Initialize \/ HandleCredentialChange \/ ResumeStartWithCredentials
  BY <1>5, QuietPromise
     DEF Initialize, HandleCredentialChange, ResumeStartWithCredentials, app, disk, server
<1>6. CASE WriteMutations
  BY <1>6, WriteMutationsPromise
<1>7. CASE HandshakeComplete \/ CallFailed \/ BackoffElapsed \/ IdleTimeout \/ ConnectivityChanged
  BY <1>7, QuietPromise
     DEF HandshakeComplete, CallFailed, BackoffElapsed, IdleTimeout, ConnectivityChanged, Timer,
         disk, server
<1>8. CASE MutationResult
  BY <1>8, MutationResultPromise
<1>9. CASE HandleWriteError
  BY <1>9, HandleWriteErrorPromise
<1>10. CASE AcceptHandshake \/ Refuse \/ Break
  BY <1>10, QuietPromise DEF AcceptHandshake, Refuse, Break, Serve, disk, server
<1>11. CASE Commit
  BY <1>11, CommitPromise
<1>12. ASSUME NEW r \in Registrations, LateCommit(r)
       PROVE  [Promise!Next]_(Promise!vars)
  BY <1>12, LateCommitPromise
<1>13. CASE KillAfterNotify
  BY <1>13, KillAfterNotifyPromise
<1>14. CASE UNCHANGED vars
  BY <1>14, QuietPromise DEF vars, app, disk, server
<1>15. QED
  BY <1>1, <1>2, <1>3, <1>4, <1>5, <1>6, <1>7, <1>8, <1>9, <1>10, <1>11, <1>12, <1>13, <1>14
     DEF Next, Main, Worker, Reads, Server

(* The initial states of the client are initial states of DurableWrite.    *)
LEMMA InitPromise == Init => Promise!Init
<1> SUFFICES ASSUME Init
             PROVE  Promise!Init
  OBVIOUS
<1>1. /\ queue = [u \in Users |-> << >>] /\ outcome = [r \in Registrations |-> "none"]
      /\ applied = {} /\ told = [r \in Registrations |-> "none"]
  BY DEF Init
<1>2. \A r \in Registrations : ~Queued(r)
  BY <1>1 DEF Queued
<1>3. State = [r \in Registrations |-> "none"]
  BY <1>1, <1>2 DEF State
<1>4. QED
  BY <1>1, <1>3 DEF Promise!Init, State, Queued

(* The client, with its retries, restarts and crashes, implements the      *)
(* promise of DurableWrite: a write that is accepted is kept until it      *)
(* settles, it settles once, and its caller hears ok only of a write the   *)
(* server has applied and an error only of one that is rejected.           *)
THEOREM WritesAreDurable == Spec => ImplementsDurableWrite
<1>1. Init => Promise!Init
  BY InitPromise
<1>2. IInv /\ DInv /\ [Next]_vars => [Promise!Next]_(Promise!vars)
  BY NextPromise
<1>3. Spec => []IInv /\ []DInv
  BY Invariance, EveryWriteOnce
<1>4. QED
  BY <1>1, <1>2, <1>3, PTL DEF Spec, ImplementsDurableWrite, Promise!Spec
=============================================================================
