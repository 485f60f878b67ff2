------------------------ MODULE FirestoreUsersProofs ------------------------
(***************************************************************************)
(* Whose queue, whose token: proofs that a write call carries the token of *)
(* the user whose queue it sends, and that the document of a new user is   *)
(* put into his own queue exactly when FirebaseAuth set no other user      *)
(* while the call that made the client was on its way.                     *)
(***************************************************************************)
EXTENDS DurableWriteProofs

SetsUser(t) == t.kind \in {"init", "user"}

(* Once the first k - 1 of the tasks ts have run, the user of the          *)
(* SyncEngine, now su, is u.                                               *)
RunsAs(ts, su, k, u) ==
  /\ \A i \in 1 .. k - 1 :
       SetsUser(ts[i]) /\ (\A j \in i + 1 .. k - 1 : ~SetsUser(ts[j])) => ts[i].user = u
  /\ (\A j \in 1 .. k - 1 : ~SetsUser(ts[j])) => su = u

(* u will be the user when the worker queue is empty.                      *)
Ahead(u) == RunsAs(tasks, syncUser, Len(tasks) + 1, u)

IsNotice(i) == mainQueue[i].kind = "notice"
NoNotice(k) == \A i \in 1 .. k : ~IsNotice(i)

(* The notices on the main queue and the tasks end in the session.         *)
LastNotice ==
  \A i \in DOMAIN mainQueue :
    IsNotice(i) /\ (\A j \in i + 1 .. Len(mainQueue) : ~IsNotice(j)) => mainQueue[i].user = session

Current == running /\ NoNotice(Len(mainQueue)) => Ahead(session)

(* A token that will pass the check of the token counter is of the user    *)
(* the SyncEngine will have when the stream resumes with it.               *)
Requests ==
  \A i \in DOMAIN tokenRequests : LET t == tokenRequests[i] IN
    /\ t.changes <= changes
    /\ t.read /\ t.changes = changes /\ NoNotice(Len(mainQueue)) => Ahead(t.user)

Answers ==
  \A i \in DOMAIN mainQueue : mainQueue[i].kind = "token" =>
    LET t == mainQueue[i].to IN
      /\ t.changes <= changes
      /\ t.changes = changes /\ NoNotice(i - 1) => Ahead(t.user)

Resumes ==
  \A k \in DOMAIN tasks : tasks[k].kind = "resume" => RunsAs(tasks, syncUser, k, tasks[k].user)

(* The completion of createUser follows the notice of its user at once.    *)
CreatedNext ==
  \A i \in DOMAIN mainQueue : mainQueue[i].kind \in Completions =>
    IF i = 1 THEN running => Ahead(mainQueue[i].reg)
    ELSE mainQueue[i - 1] = Notice(mainQueue[i].reg)

(* A write runs as the user it is stored under, or has strayed.            *)
InOwn(r, u) == u = r <=> r \notin strayed

WritesNext ==
  \A k \in DOMAIN tasks : tasks[k].kind = "write" /\ docUid[tasks[k].reg] = tasks[k].reg =>
    \E u \in Users : InOwn(tasks[k].reg, u) /\ RunsAs(tasks, syncUser, k, u)

Sessions == LastNotice /\ Current
TokenUsers == Requests /\ Answers /\ Resumes /\ TokenOfQueueUser
Own == CreatedNext /\ WritesNext /\ OwnDocumentInOwnQueue

UInv == Sessions /\ TokenUsers /\ Own

(* What has strayed has been handed over.                                  *)
Strays ==
  \A r \in strayed : r \in accounts /\ \A i \in DOMAIN mainQueue : ~Created(i, r)
-----------------------------------------------------------------------------
(* The user the tasks end in, when a task is added and when one has run.   *)
LEMMA RunsNow ==
  ASSUME NEW ts, NEW su, NEW u
  PROVE  RunsAs(ts, su, 1, u) <=> su = u
<1>1. 1 .. 1 - 1 = {}
  OBVIOUS
<1>2. QED
  BY <1>1 DEF RunsAs

(* A task at the end changes nothing for the tasks before it and decides   *)
(* the user after it.                                                      *)
LEMMA RunsAppend ==
  ASSUME NEW S, NEW ts \in Seq(S), NEW t \in S, NEW su, NEW u
  PROVE  /\ \A k \in 1 .. Len(ts) + 1 : RunsAs(Append(ts, t), su, k, u) <=> RunsAs(ts, su, k, u)
         /\ SetsUser(t) => RunsAs(Append(ts, t), su, Len(ts) + 2, t.user)
         /\ ~SetsUser(t) /\ RunsAs(ts, su, Len(ts) + 1, u) => RunsAs(Append(ts, t), su, Len(ts) + 2, u)
<1> DEFINE a == Append(ts, t)
           n == Len(ts)
<1>1. n \in Nat /\ a[n + 1] = t /\ \A i \in 1 .. n : a[i] = ts[i]
  BY AppendProperties
<1> HIDE DEF a, n
<1>2. ASSUME NEW k \in 1 .. n + 1
      PROVE  RunsAs(a, su, k, u) <=> RunsAs(ts, su, k, u)
  <2>1. k - 1 <= n /\ k \in Nat
    BY <1>1
  <2>2. \A i \in 1 .. k - 1 : a[i] = ts[i]
    BY <1>1, <2>1
  <2>3. \A i \in 1 .. k - 1 : \A j \in i + 1 .. k - 1 : a[j] = ts[j]
    BY <1>1, <2>1
  <2>4. QED
    BY <2>2, <2>3 DEF RunsAs
<1>3. (n + 2) - 1 = n + 1 /\ (n + 1) - 1 = n /\ n + 1 \in 1 .. n + 1
  BY <1>1
<1>4. \A i \in 1 .. n + 1 : i = n + 1 \/ (i \in 1 .. n /\ n + 1 \in i + 1 .. n + 1)
  BY <1>1
<1>5. ASSUME SetsUser(t)
      PROVE  RunsAs(a, su, n + 2, t.user)
  <2>1. \A i \in 1 .. n + 1 : SetsUser(a[i]) /\ (\A j \in i + 1 .. n + 1 : ~SetsUser(a[j])) => a[i].user = t.user
    BY <1>1, <1>4, <1>5
  <2>2. ~(\A j \in 1 .. n + 1 : ~SetsUser(a[j]))
    BY <1>1, <1>3, <1>5
  <2>3. QED
    BY <1>3, <2>1, <2>2 DEF RunsAs
<1>6. ASSUME ~SetsUser(t), RunsAs(ts, su, n + 1, u)
      PROVE  RunsAs(a, su, n + 2, u)
  <2>1. /\ \A i \in 1 .. n :
             SetsUser(ts[i]) /\ (\A j \in i + 1 .. n : ~SetsUser(ts[j])) => ts[i].user = u
        /\ (\A j \in 1 .. n : ~SetsUser(ts[j])) => su = u
    BY <1>3, <1>6 DEF RunsAs
  <2>2. ASSUME NEW i \in 1 .. n + 1, SetsUser(a[i]), \A j \in i + 1 .. n + 1 : ~SetsUser(a[j])
        PROVE  a[i].user = u
    <3>1. i \in 1 .. n /\ a[i] = ts[i]
      BY <1>1, <1>4, <1>6, <2>2
    <3>2. \A j \in i + 1 .. n : j \in i + 1 .. n + 1 /\ a[j] = ts[j]
      BY <1>1, <3>1
    <3>3. QED
      BY <2>1, <2>2, <3>1, <3>2
  <2>3. (\A j \in 1 .. n + 1 : ~SetsUser(a[j])) => su = u
    <3>1. \A j \in 1 .. n : j \in 1 .. n + 1 /\ a[j] = ts[j]
      BY <1>1
    <3>2. QED
      BY <2>1, <3>1
  <2>4. QED
    BY <1>3, <2>2, <2>3 DEF RunsAs
<1>7. QED
  BY <1>2, <1>5, <1>6 DEF a, n

(* The first task has run: the user of the SyncEngine is what it set, and  *)
(* the tasks after it still run as they would have.                        *)
LEMMA RunsTail ==
  ASSUME NEW S, NEW ts \in Seq(S), ts # << >>, NEW su, NEW u, NEW k \in 1 .. Len(ts),
         RunsAs(ts, su, k + 1, u)
  PROVE  RunsAs(Tail(ts), IF SetsUser(Head(ts)) THEN Head(ts).user ELSE su, k, u)
<1> DEFINE a == Tail(ts)
           h == Head(ts)
           n == Len(ts)
<1>1. n \in Nat /\ k \in Nat /\ k \in 1 .. n /\ h = ts[1] /\ \A i \in 1 .. n - 1 : a[i] = ts[i + 1]
  BY HeadTailProperties
<1> HIDE DEF a, h, n
<1>2. /\ \A i \in 1 .. k : SetsUser(ts[i]) /\ (\A j \in i + 1 .. k : ~SetsUser(ts[j])) => ts[i].user = u
      /\ (\A j \in 1 .. k : ~SetsUser(ts[j])) => su = u
  <2>1. (k + 1) - 1 = k
    BY <1>1
  <2>2. QED
    BY <2>1 DEF RunsAs
<1>3. \A i \in 1 .. k - 1 : i + 1 \in 1 .. k /\ a[i] = ts[i + 1]
  BY <1>1
<1>4. ASSUME NEW i \in 1 .. k - 1, SetsUser(a[i]), \A j \in i + 1 .. k - 1 : ~SetsUser(a[j])
      PROVE  a[i].user = u
  <2>1. ASSUME NEW j \in i + 1 + 1 .. k
        PROVE  ~SetsUser(ts[j])
    <3>1. j - 1 \in i + 1 .. k - 1 /\ j - 1 \in 1 .. k - 1 /\ (j - 1) + 1 = j
      BY <1>1
    <3>2. a[j - 1] = ts[j]
      BY <1>3, <3>1
    <3>3. QED
      BY <1>4, <3>1, <3>2
  <2>2. QED
    BY <1>2, <1>3, <1>4, <2>1
<1>5. ASSUME \A j \in 1 .. k - 1 : ~SetsUser(a[j])
      PROVE  (IF SetsUser(h) THEN h.user ELSE su) = u
  <2>1. ASSUME NEW j \in 2 .. k
        PROVE  ~SetsUser(ts[j])
    <3>1. j - 1 \in 1 .. k - 1 /\ (j - 1) + 1 = j
      BY <1>1
    <3>2. a[j - 1] = ts[j]
      BY <1>3, <3>1
    <3>3. QED
      BY <1>5, <3>1, <3>2
  <2>2. 1 \in 1 .. k /\ 1 + 1 .. k = 2 .. k /\ \A j \in 1 .. k : j = 1 \/ j \in 2 .. k
    BY <1>1
  <2>3. CASE SetsUser(h)
    BY <1>1, <1>2, <2>1, <2>2, <2>3
  <2>4. CASE ~SetsUser(h)
    BY <1>1, <1>2, <2>1, <2>2, <2>4
  <2>5. QED
    BY <2>3, <2>4
<1>6. QED
  BY <1>4, <1>5 DEF RunsAs, a, h

(* The same of the worker queue.                                           *)
LEMMA AheadAppend ==
  ASSUME TypeOK, NEW t \in Tasks, tasks' = Append(tasks, t), syncUser' = syncUser
  PROVE  /\ SetsUser(t) => Ahead(t.user)'
         /\ ~SetsUser(t) => \A u : Ahead(u) => Ahead(u)'
         /\ \A k \in DOMAIN tasks' : \A u :
              \/ k \in DOMAIN tasks /\ tasks'[k] = tasks[k]
                   /\ (RunsAs(tasks, syncUser, k, u) => RunsAs(tasks', syncUser', k, u))
              \/ k = Len(tasks) + 1 /\ tasks'[k] = t
                   /\ (Ahead(u) => RunsAs(tasks', syncUser', k, u))
<1>1. tasks \in Seq(Tasks)
  BY DEF TypeOK
<1>2. Len(tasks') + 1 = Len(tasks) + 2 /\ DOMAIN tasks = 1 .. Len(tasks) /\ Len(tasks) \in Nat
  BY <1>1, AppendProperties
<1>3. /\ \A u : \A k \in 1 .. Len(tasks) + 1 :
           RunsAs(tasks', syncUser, k, u) <=> RunsAs(tasks, syncUser, k, u)
      /\ SetsUser(t) => RunsAs(tasks', syncUser, Len(tasks) + 2, t.user)
      /\ \A u : ~SetsUser(t) /\ RunsAs(tasks, syncUser, Len(tasks) + 1, u)
                  => RunsAs(tasks', syncUser, Len(tasks) + 2, u)
  BY <1>1, RunsAppend
<1>4. \A k \in DOMAIN tasks' : \/ k \in DOMAIN tasks /\ tasks'[k] = tasks[k]
                               \/ k = Len(tasks) + 1 /\ tasks'[k] = t
  BY <1>1, AppendElements
<1>5. \A k \in DOMAIN tasks : k \in 1 .. Len(tasks) + 1
  BY <1>2
<1>6. Len(tasks) + 1 \in 1 .. Len(tasks) + 1
  BY <1>2
<1>7. \A u : Ahead(u)' <=> RunsAs(tasks', syncUser, Len(tasks) + 2, u)
  BY <1>2 DEF Ahead
<1>8. QED
  BY <1>3, <1>4, <1>5, <1>6, <1>7 DEF Ahead

(* So it is for the user ahead, and for every task of the worker queue.    *)
LEMMA AheadTail ==
  ASSUME TypeOK, tasks # << >>, tasks' = Tail(tasks),
         syncUser' = IF SetsUser(Head(tasks)) THEN Head(tasks).user ELSE syncUser
  PROVE  /\ \A u : Ahead(u) => Ahead(u)'
         /\ \A k \in DOMAIN tasks' :
              /\ k + 1 \in DOMAIN tasks /\ tasks'[k] = tasks[k + 1]
              /\ \A u : RunsAs(tasks, syncUser, k + 1, u) => RunsAs(tasks', syncUser', k, u)
<1>1. tasks \in Seq(Tasks)
  BY DEF TypeOK
<1>2. /\ Len(tasks') = Len(tasks) - 1 /\ Len(tasks) \in Nat /\ tasks' \in Seq(Tasks)
      /\ \A k \in DOMAIN tasks' : k + 1 \in DOMAIN tasks /\ tasks'[k] = tasks[k + 1]
      /\ 1 \in DOMAIN tasks
  BY <1>1, TailElements
<1>3. \A u : \A k \in 1 .. Len(tasks) :
        RunsAs(tasks, syncUser, k + 1, u) => RunsAs(tasks', syncUser', k, u)
  BY <1>1, RunsTail
<1>4. Len(tasks) \in 1 .. Len(tasks) /\ Len(tasks') + 1 = Len(tasks)
  BY <1>1, <1>2
<1>5. \A k \in DOMAIN tasks' : k \in 1 .. Len(tasks)
  BY <1>2
<1>6. \A u : Ahead(u) => Ahead(u)'
  BY <1>3, <1>4 DEF Ahead
<1>7. QED
  BY <1>2, <1>3, <1>5, <1>6
-----------------------------------------------------------------------------
(* Users of the worker queue's own steps: the main queue stands still.     *)
(* How one step moves the tasks.                                           *)
TasksStay == tasks' = tasks /\ syncUser' = syncUser

TaskRuns == /\ tasks # << >> /\ tasks' = Tail(tasks)
            /\ syncUser' = IF SetsUser(Head(tasks)) THEN Head(tasks).user ELSE syncUser

(* When tasks stay, run or are appended by the worker, every task runs as  *)
(* the user it would have run as.                                          *)
LEMMA TasksOn ==
  ASSUME TypeOK, TasksStay \/ TaskRuns
  PROVE  /\ \A u : Ahead(u) => Ahead(u)'
         /\ \A k \in DOMAIN tasks' : \E l \in DOMAIN tasks :
              /\ tasks'[k] = tasks[l]
              /\ \A u : RunsAs(tasks, syncUser, l, u) => RunsAs(tasks', syncUser', k, u)
<1>1. CASE TasksStay
  BY <1>1 DEF TasksStay, Ahead
<1>2. CASE TaskRuns
  BY <1>2, AheadTail DEF TaskRuns
<1>3. QED
  BY <1>1, <1>2

(* A step of the worker queue, of a timer or of the stream keeps UInv if   *)
(* it keeps the two properties about the queue and the call.               *)
LEMMA WorkerUsers ==
  ASSUME IInv, UInv, TasksStay \/ TaskRuns,
         UNCHANGED << mainQueue, session, running, changes, docUid, strayed >>,
         tokenRequests' = tokenRequests \/ \E c \in Nat : tokenRequests' = Append(tokenRequests, GetToken(c)),
         TokenOfQueueUser', OwnDocumentInOwnQueue'
  PROVE  UInv'
<1>1. TypeOK /\ tokenRequests \in Seq(TokenRequest) /\ changes \in Nat
  BY DEF IInv, TypeOK
<1>2. /\ \A u : Ahead(u) => Ahead(u)'
      /\ \A k \in DOMAIN tasks' : \E l \in DOMAIN tasks :
           /\ tasks'[k] = tasks[l]
           /\ \A u : RunsAs(tasks, syncUser, l, u) => RunsAs(tasks', syncUser', k, u)
  BY <1>1, TasksOn
<1>3. \A k : NoNotice(k)' <=> NoNotice(k)
  BY DEF NoNotice, IsNotice
<1>4. LastNotice'
  BY DEF UInv, Sessions, LastNotice, IsNotice
<1>5. Current'
  BY <1>2, <1>3 DEF UInv, Sessions, Current
<1>6. Requests'
  <2>1. \A i \in DOMAIN tokenRequests' :
          \/ i \in DOMAIN tokenRequests /\ tokenRequests'[i] = tokenRequests[i]
          \/ ~tokenRequests'[i].read /\ tokenRequests'[i].changes = changes
    <3>1. CASE tokenRequests' = tokenRequests
      BY <3>1
    <3>2. ASSUME NEW c \in Nat, tokenRequests' = Append(tokenRequests, GetToken(c))
          PROVE  \A i \in DOMAIN tokenRequests' :
                   \/ i \in DOMAIN tokenRequests /\ tokenRequests'[i] = tokenRequests[i]
                   \/ tokenRequests'[i] = GetToken(c)
      <4>1. GetToken(c) \in TokenRequest
        BY <1>1, GetTokenType
      <4>2. QED
        BY <1>1, <3>2, <4>1, AppendElements
    <3>3. \A c : ~GetToken(c).read /\ GetToken(c).changes = changes
      BY DEF GetToken
    <3>4. QED
      BY <3>1, <3>2, <3>3
  <2>2. QED
    BY <1>1, <1>2, <1>3, <2>1 DEF UInv, TokenUsers, Requests
<1>7. Answers'
  BY <1>2, <1>3 DEF UInv, TokenUsers, Answers
<1>8. Resumes'
  BY <1>2 DEF UInv, TokenUsers, Resumes
<1>9. CreatedNext'
  BY <1>2 DEF UInv, Own, CreatedNext
<1>10. WritesNext'
  <2>1. SUFFICES ASSUME NEW k \in DOMAIN tasks', tasks'[k].kind = "write",
                        NEW s, s = tasks'[k].reg, docUid'[s] = s
                 PROVE  \E u \in Users : InOwn(s, u)' /\ RunsAs(tasks', syncUser', k, u)
    BY DEF WritesNext, InOwn
  <2>2. PICK l \in DOMAIN tasks :
          /\ tasks'[k] = tasks[l]
          /\ \A u : RunsAs(tasks, syncUser, l, u) => RunsAs(tasks', syncUser', k, u)
    BY <1>2
  <2>3. PICK u \in Users : InOwn(s, u) /\ RunsAs(tasks, syncUser, l, u)
    BY <2>1, <2>2 DEF UInv, Own, WritesNext
  <2>4. QED
    BY <2>2, <2>3 DEF InOwn
<1>11. QED
  BY <1>4, <1>5, <1>6, <1>7, <1>8, <1>9, <1>10 DEF UInv, Sessions, TokenUsers, Own

(* The rows of the queues only lose a batch.                               *)
LEMMA OwnRowsKept ==
  ASSUME OwnDocumentInOwnQueue, docUid' = docUid, strayed' = strayed,
         \A u \in Users : \A i \in DOMAIN queue'[u] : \E j \in DOMAIN queue[u] : queue'[u][i] = queue[u][j]
  PROVE  OwnDocumentInOwnQueue'
BY DEF OwnDocumentInOwnQueue

(* A call that is neither new nor given another user.                      *)
LEMMA SameCaller ==
  ASSUME TokenOfQueueUser, syncUser' = syncUser,
         remote'.call = NoCall \/ (remote.call # NoCall /\ remote'.call.user = remote.call.user)
  PROVE  TokenOfQueueUser'
BY DEF TokenOfQueueUser

(* Becomes adds at most a getToken call that has not read its user.        *)
LEMMA BecomesRequest ==
  ASSUME NEW r, r.closes \in Nat, Becomes(r)
  PROVE  remote' = r /\ (\/ tokenRequests' = tokenRequests
                         \/ \E c \in Nat : tokenRequests' = Append(tokenRequests, GetToken(c)))
BY DEF Becomes

(* NoCall has no answers and no status.                                    *)
LEMMA ACall ==
  ASSUME remote.call.answers # << >> \/ remote.call.status # "none"
  PROVE  remote.call # NoCall
BY DEF NoCall

(* Initialize sets the user the client was made with; there is no call     *)
(* yet.                                                                    *)
LEMMA InitializeUsers ==
  ASSUME IInv, UInv, Initialize
  PROVE  UInv'
<1> DEFINE u == Head(tasks).user
           r == FillWritePipeline(remote, queue[u])
<1>1. TypeOK /\ Boot /\ Rows
  BY DEF IInv
<1>2. /\ tasks # << >> /\ Head(tasks).kind = "init" /\ tasks' = Tail(tasks) /\ Becomes(r)
      /\ syncUser' = u
      /\ UNCHANGED << session, mainQueue, running, changes, docUid, strayed, queue >>
  BY DEF Initialize, RunTask, app, disk, auth
<1>3. Head(tasks) \in Tasks /\ nextId = 0
  BY <1>2, FirstTask
<1>4. remote = Idle /\ u \in Users
  BY <1>1, <1>2, <1>3 DEF Boot, Tasks
<1>5. TaskRuns
  BY <1>2 DEF TaskRuns, SetsUser
<1> HIDE DEF u
<1>6. queue[u] \in Seq(Batch) /\ Ascending(queue[u])
  BY <1>1, <1>4 DEF TypeOK, Rows
<1>7. RemoteOK(remote, queue[u]) /\ remote.call = NoCall /\ remote.closes = 0
  BY <1>4, <1>6, IdleOK
<1>8. r.call = NoCall /\ r.closes \in Nat
  BY <1>6, <1>7, FillOK
<1> HIDE DEF r
<1>9. remote' = r /\ (\/ tokenRequests' = tokenRequests
                      \/ \E c \in Nat : tokenRequests' = Append(tokenRequests, GetToken(c)))
  BY <1>2, <1>8, BecomesRequest
<1>10. TokenOfQueueUser'
  BY <1>8, <1>9 DEF TokenOfQueueUser
<1>11. OwnDocumentInOwnQueue'
  BY <1>2 DEF UInv, Own, OwnDocumentInOwnQueue
<1>12. QED
  BY <1>2, <1>5, <1>9, <1>10, <1>11, WorkerUsers

(* HandleCredentialChange ends the call of the user before.                *)
LEMMA HandleCredentialChangeUsers ==
  ASSUME IInv, UInv, HandleCredentialChange
  PROVE  UInv'
<1> DEFINE u == Head(tasks).user
           r == RestartNetwork(remote, queue[u])
<1>1. TypeOK /\ Rows /\ Stream
  BY DEF IInv
<1>2. /\ tasks # << >> /\ Head(tasks).kind = "user" /\ tasks' = Tail(tasks) /\ Becomes(r)
      /\ syncUser' = u
      /\ UNCHANGED << session, mainQueue, running, changes, docUid, strayed, queue >>
  BY DEF HandleCredentialChange, RunTask, app, disk, auth
<1>3. u \in Users
  BY <1>2, FirstTask DEF Tasks
<1>4. TaskRuns
  BY <1>2 DEF TaskRuns, SetsUser
<1> HIDE DEF u
<1>5. queue[u] \in Seq(Batch) /\ Ascending(queue[u]) /\ remote \in Remotes /\ StreamOK(remote)
  BY <1>1, <1>3 DEF TypeOK, Rows, Stream, RemoteOK
<1>6. r.call = NoCall /\ r \in Remotes
  BY <1>5, RestartOK DEF RemoteOK
<1> HIDE DEF r
<1>7. r.closes \in Nat
  BY <1>6 DEF Remotes
<1>8. remote' = r /\ (\/ tokenRequests' = tokenRequests
                      \/ \E c \in Nat : tokenRequests' = Append(tokenRequests, GetToken(c)))
  BY <1>2, <1>7, BecomesRequest
<1>9. TokenOfQueueUser'
  BY <1>6, <1>8 DEF TokenOfQueueUser
<1>10. OwnDocumentInOwnQueue'
  BY <1>2 DEF UInv, Own, OwnDocumentInOwnQueue
<1>11. QED
  BY <1>2, <1>4, <1>8, <1>9, <1>10, WorkerUsers

(* WriteMutations puts the document of r into the queue of the user it     *)
(* runs as, who is r, the document being stored under r, unless it strayed.*)
LEMMA WriteMutationsUsers ==
  ASSUME IInv, DInv, UInv, WriteMutations
  PROVE  UInv'
<1>1. PICK r \in Registrations :
         /\ r = Head(tasks).reg /\ Writes(1, r) /\ 1 \in DOMAIN tasks /\ nextId # 0
         /\ \A u \in Users : \A i \in DOMAIN queue'[u] :
              \/ i \in DOMAIN queue[u] /\ queue'[u][i] = queue[u][i]
              \/ u = syncUser /\ i = Len(queue[syncUser]) + 1 /\ queue'[u][i].reg = r
  <2> DEFINE r == Head(tasks).reg
  <2> HIDE DEF r
  <2>1. QED
    BY WriteAdded DEF r
<1>2. /\ tasks # << >> /\ Head(tasks).kind = "write" /\ tasks' = Tail(tasks)
      /\ UNCHANGED << session, mainQueue, running, changes, docUid, strayed, syncUser >>
      /\ Becomes(FillWritePipeline(remote, queue'[syncUser])) /\ AddMutationBatch(Head(tasks).reg)
      /\ waiting' = [waiting EXCEPT ![syncUser] = @ \cup {Last(queue'[syncUser])}]
  BY DEF WriteMutations, RunTask, app, auth
<1>3. TypeOK /\ Rows /\ Stream /\ syncUser \in Users
  BY DEF IInv, TypeOK
<1>4. TaskRuns
  BY <1>2 DEF TaskRuns, SetsUser
<1>5. OwnDocumentInOwnQueue'
  <2>1. docUid[r] = r => InOwn(r, syncUser)
    <3>1. docUid[r] = r => \E u \in Users : InOwn(r, u) /\ RunsAs(tasks, syncUser, 1, u)
      BY <1>1 DEF UInv, Own, WritesNext, Writes
    <3>2. QED
      BY <3>1, RunsNow
  <2>2. SUFFICES ASSUME NEW s \in Registrations, NEW u \in Users, docUid'[s] = s,
                        NEW i \in DOMAIN queue'[u], queue'[u][i].reg = s
                 PROVE  u = s <=> s \notin strayed'
    BY DEF OwnDocumentInOwnQueue
  <2>3. CASE i \in DOMAIN queue[u] /\ queue'[u][i] = queue[u][i]
    BY <1>2, <2>2, <2>3 DEF UInv, Own, OwnDocumentInOwnQueue
  <2>4. CASE u = syncUser /\ queue'[u][i].reg = r
    BY <1>2, <2>1, <2>2, <2>4 DEF InOwn
  <2>5. QED
    BY <1>1, <2>3, <2>4
<1> DEFINE q == queue'[syncUser]
           f == FillWritePipeline(remote, q)
<1>6. /\ Rows' /\ RemoteOK(remote, q) /\ queue' \in [Users -> Seq(Batch)]
  BY <1>1, <1>2, <1>3, RowAdded
<1>7. q \in Seq(Batch) /\ Ascending(q) /\ remote.closes \in Nat
  BY <1>3, <1>6 DEF Rows, TypeOK, Remotes
<1> HIDE DEF q
<1>8. f.closes \in Nat /\ f.call.user = remote.call.user /\ (f.call = NoCall <=> remote.call = NoCall)
  BY <1>6, <1>7, FillOK
<1>9. Becomes(f)
  BY <1>2 DEF q
<1> HIDE DEF f
<1>10. remote' = f /\ (\/ tokenRequests' = tokenRequests
                       \/ \E c \in Nat : tokenRequests' = Append(tokenRequests, GetToken(c)))
  BY <1>8, <1>9, BecomesRequest
<1>11. TokenOfQueueUser'
  BY <1>2, <1>8, <1>10, SameCaller DEF UInv, TokenUsers
<1>12. QED
  BY <1>2, <1>4, <1>5, <1>10, <1>11, WorkerUsers

(* ResumeStartWithCredentials makes a call with a token that Resumes says  *)
(* is the current user's.                                                  *)
LEMMA ResumeUsers ==
  ASSUME IInv, UInv, ResumeStartWithCredentials
  PROVE  UInv'
<1> DEFINE t == Head(tasks)
           call == [user |-> t.user, requests |-> << Hello >>, answers |-> << >>, status |-> "open"]
           open == [remote EXCEPT !.stream = "Open", !.call = call]
<1>1. TypeOK /\ Stream /\ remote \in Remotes /\ remote.closes \in Nat
  BY DEF IInv, TypeOK, Remotes
<1>2. /\ tasks # << >> /\ tasks' = Tail(tasks) /\ t.kind = "resume"
      /\ UNCHANGED << session, mainQueue, running, changes, docUid, strayed, syncUser, queue >>
      /\ \/ UNCHANGED << remote, tokenRequests, late >>
         \/ Becomes(Retry(remote))
         \/ Becomes(open)
  BY DEF ResumeStartWithCredentials, RunTask, app, disk, auth, memory
<1>3. TaskRuns
  BY <1>2 DEF TaskRuns, SetsUser
<1>4. OwnDocumentInOwnQueue'
  BY <1>2 DEF UInv, Own, OwnDocumentInOwnQueue
<1>5. /\ TokenOfQueueUser'
      /\ \/ tokenRequests' = tokenRequests
         \/ \E c \in Nat : tokenRequests' = Append(tokenRequests, GetToken(c))
  <2>1. CASE UNCHANGED << remote, tokenRequests, late >>
    BY <1>2, <2>1 DEF UInv, TokenUsers, TokenOfQueueUser
  <2>2. CASE Becomes(Retry(remote))
    <3> DEFINE r == Retry(remote)
    <3>1. r.call = NoCall /\ r.closes \in Nat
      BY <1>1, RetryOK DEF Stream
    <3> HIDE DEF r
    <3>2. Becomes(r)
      BY <2>2 DEF r
    <3>3. QED
      BY <3>1, <3>2, BecomesRequest DEF TokenOfQueueUser
  <2>3. CASE Becomes(open)
    <3>1. t = tasks[1] /\ 1 \in DOMAIN tasks
      BY <1>2, FirstTask
    <3>2. RunsAs(tasks, syncUser, 1, t.user)
      BY <1>2, <3>1 DEF UInv, TokenUsers, Resumes
    <3>3. syncUser = t.user
      BY <3>2, RunsNow
    <3>4. open.call.user = t.user /\ open.closes \in Nat
      BY <1>1 DEF Remotes
    <3> HIDE DEF open
    <3>5. QED
      BY <1>2, <2>3, <3>3, <3>4, BecomesRequest DEF TokenOfQueueUser
  <2>4. QED
    BY <1>2, <2>1, <2>2, <2>3
<1>6. QED
  BY <1>2, <1>3, <1>4, <1>5, WorkerUsers

(* The timers, the connectivity monitor, the reads of the stream.          *)
LEMMA StreamUsers ==
  ASSUME IInv, UInv, NEW r, Becomes(r), r.closes \in Nat,
         r.call = NoCall \/ (remote.call # NoCall /\ r.call.user = remote.call.user),
         UNCHANGED worker, OwnDocumentInOwnQueue'
  PROVE  UInv'
<1>1. /\ UNCHANGED << session, mainQueue, running, changes, docUid, strayed >> /\ TasksStay
      /\ syncUser' = syncUser
  BY DEF worker, auth, TasksStay
<1>2. remote' = r /\ (\/ tokenRequests' = tokenRequests
                      \/ \E c \in Nat : tokenRequests' = Append(tokenRequests, GetToken(c)))
  BY BecomesRequest
<1>3. TokenOfQueueUser'
  BY <1>1, <1>2, SameCaller DEF UInv, TokenUsers
<1>4. QED
  BY <1>1, <1>2, <1>3, WorkerUsers

(* Timers, restarts and retries keep the user of a call or end it.         *)
LEMMA TimerUsers ==
  ASSUME IInv, UInv,
         BackoffElapsed \/ IdleTimeout \/ ConnectivityChanged \/ HandshakeComplete \/ CallFailed
  PROVE  UInv'
<1>1. TypeOK /\ Rows /\ Stream
  BY DEF IInv
<1>2. UNCHANGED worker /\ UNCHANGED << queue, docUid, strayed >>
  BY DEF BackoffElapsed, IdleTimeout, ConnectivityChanged, Timer, HandshakeComplete, CallFailed,
         worker, disk
<1>3. remote \in Remotes /\ StreamOK(remote) /\ RemoteOK(remote, queue[syncUser])
      /\ queue[syncUser] \in Seq(Batch) /\ Ascending(queue[syncUser]) /\ remote.closes \in Nat
  BY <1>1 DEF TypeOK, Rows, Stream, RemoteOK, Remotes
<1>4. PICK r : /\ Becomes(r) /\ r.closes \in Nat
               /\ r.call = NoCall \/ (remote.call # NoCall /\ r.call.user = remote.call.user)
  <2>1. CASE BackoffElapsed
    <3> DEFINE r == [remote EXCEPT !.stream = "Starting"]
    <3>1. Becomes(r)
      BY <2>1 DEF BackoffElapsed, Timer
    <3>2. r.call = remote.call /\ r.closes = remote.closes
      BY <1>3 DEF Remotes
    <3> HIDE DEF r
    <3>3. QED
      BY <1>3, <3>1, <3>2
  <2>2. CASE IdleTimeout
    <3> DEFINE r == Stop(remote)
    <3>1. Becomes(r)
      BY <2>2 DEF IdleTimeout, Timer
    <3>2. r.call = NoCall /\ r \in Remotes
      BY <1>3, StopFields
    <3> HIDE DEF r
    <3>3. r.closes \in Nat
      BY <3>2 DEF Remotes
    <3>4. QED
      BY <3>1, <3>2, <3>3
  <2>3. CASE ConnectivityChanged
    <3> DEFINE r == RestartNetwork(remote, queue[syncUser])
    <3>1. Becomes(r)
      BY <2>3 DEF ConnectivityChanged, Timer
    <3>2. r.call = NoCall /\ r \in Remotes
      BY <1>3, RestartOK DEF RemoteOK
    <3> HIDE DEF r
    <3>3. r.closes \in Nat
      BY <3>2 DEF Remotes
    <3>4. QED
      BY <3>1, <3>2, <3>3
  <2>4. CASE HandshakeComplete
    <3> DEFINE r == [Write(remote, remote.pipeline) EXCEPT !.handshake = TRUE, !.call.answers = Tail(@)]
    <3>1. Becomes(r) /\ remote.call.answers # << >> /\ ~remote.handshake
      BY <2>4 DEF HandshakeComplete
    <3>2. r.call.user = remote.call.user /\ r.closes = remote.closes
      BY <1>3, <3>1, HandshakeOK
    <3> HIDE DEF r
    <3>3. remote.call # NoCall
      BY <3>1, ACall
    <3>4. QED
      BY <1>3, <3>1, <3>2, <3>3
  <2>5. CASE CallFailed
    <3> DEFINE r == Retry(remote)
    <3>1. Becomes(r)
      BY <2>5 DEF CallFailed
    <3>2. r.call = NoCall /\ r.closes = remote.closes + 1
      BY <1>3, RetryOK
    <3> HIDE DEF r
    <3>3. r.closes \in Nat
      BY <1>3, <3>2
    <3>4. QED
      BY <3>1, <3>2, <3>3
  <2>6. QED
    BY <2>1, <2>2, <2>3, <2>4, <2>5
<1>5. OwnDocumentInOwnQueue'
  BY <1>2 DEF UInv, Own, OwnDocumentInOwnQueue
<1>6. QED
  BY <1>2, <1>4, <1>5, StreamUsers

(* A row leaves; no call changes its user.                                 *)
LEMMA MutationResultUsers ==
  ASSUME IInv, DInv, UInv, MutationResult
  PROVE  UInv'
<1> DEFINE p == [remote EXCEPT !.pipeline = Tail(@), !.call.answers = Tail(@)]
           q == queue'[syncUser]
           r == FillWritePipeline(p, q)
<1>1. TypeOK /\ Rows /\ Stream
  BY DEF IInv
<1>2. /\ remote.call.answers # << >> /\ remote.handshake
      /\ NotifyUser(Head(remote.pipeline).id, "ok") /\ RemoveBatch(Head(remote.pipeline), "acked")
      /\ Becomes(r) /\ UNCHANGED worker
  BY DEF MutationResult
<1>3. /\ remote.pipeline # << >> /\ p \in Remotes /\ StreamOK(p) /\ p.pipeline = Tail(remote.pipeline)
      /\ p.call.user = remote.call.user /\ p.closes = remote.closes
  BY <1>1, <1>2, PoppedOK DEF Stream
<1>4. nextId' = nextId /\ syncUser' = syncUser /\ docUid' = docUid /\ strayed' = strayed
      /\ remote.closes \in Nat
  BY <1>1, <1>2 DEF worker, TypeOK, Remotes
<1>5. /\ Rows' /\ Prefix(Tail(remote.pipeline), q) /\ queue' \in [Users -> Seq(Batch)]
  BY <1>1, <1>2, <1>3, <1>4, RowRemoved
<1>6. q \in Seq(Batch) /\ Ascending(q) /\ Len(Tail(remote.pipeline)) <= MaxPendingWrites
  BY <1>1, <1>3, <1>5, FrontRow DEF TypeOK, Rows
<1> HIDE DEF p, q
<1>7. RemoteOK(p, q)
  BY <1>3, <1>5, <1>6 DEF RemoteOK
<1>8. r.call.user = remote.call.user /\ r.closes = remote.closes
  BY <1>3, <1>6, <1>7, FillOK
<1> HIDE DEF r
<1>9. OwnDocumentInOwnQueue'
  <2>1. \A u \in Users : \A i \in DOMAIN queue'[u] :
          \E j \in DOMAIN queue[u] : queue'[u][i] = queue[u][j]
    BY <1>2, <1>3, FrontLeaves
  <2>2. QED
    BY <1>4, <2>1, OwnRowsKept DEF UInv, Own
<1>10. remote.call # NoCall
  BY <1>2, ACall
<1>11. QED
  BY <1>2, <1>4, <1>8, <1>9, <1>10, StreamUsers

(* A row leaves and the call ends.                                         *)
LEMMA HandleWriteErrorUsers ==
  ASSUME IInv, DInv, UInv, HandleWriteError
  PROVE  UInv'
<1> DEFINE p == [Close(remote, "Initial") EXCEPT !.pipeline = Tail(@)]
           q == queue'[syncUser]
           r == FillWritePipeline(p, q)
<1>1. TypeOK /\ Rows /\ Stream
  BY DEF IInv
<1>2. /\ remote.call.status = "permanent"
      /\ NotifyUser(Head(remote.pipeline).id, "error") /\ RemoveBatch(Head(remote.pipeline), "rejected")
      /\ Becomes(r) /\ UNCHANGED worker
  BY DEF HandleWriteError
<1>3. /\ remote.pipeline # << >> /\ p \in Remotes /\ StreamOK(p) /\ p.pipeline = Tail(remote.pipeline)
      /\ p.call = NoCall /\ p.closes = remote.closes + 1
  BY <1>1, <1>2, ClosedOK DEF Stream
<1>4. nextId' = nextId /\ syncUser' = syncUser /\ docUid' = docUid /\ strayed' = strayed
      /\ remote.closes \in Nat
  BY <1>1, <1>2 DEF worker, TypeOK, Remotes
<1>5. /\ Rows' /\ Prefix(Tail(remote.pipeline), q) /\ queue' \in [Users -> Seq(Batch)]
  BY <1>1, <1>2, <1>3, <1>4, RowRemoved
<1>6. q \in Seq(Batch) /\ Ascending(q) /\ Len(Tail(remote.pipeline)) <= MaxPendingWrites
  BY <1>1, <1>3, <1>5, FrontRow DEF TypeOK, Rows
<1> HIDE DEF p, q
<1>7. RemoteOK(p, q)
  BY <1>3, <1>5, <1>6 DEF RemoteOK
<1>8. r.call = NoCall /\ r.closes = remote.closes + 1
  BY <1>3, <1>6, <1>7, FillOK
<1> HIDE DEF r
<1>9. r.closes \in Nat
  BY <1>4, <1>8
<1>10. OwnDocumentInOwnQueue'
  <2>1. \A u \in Users : \A i \in DOMAIN queue'[u] :
          \E j \in DOMAIN queue[u] : queue'[u][i] = queue[u][j]
    BY <1>2, <1>3, FrontLeaves
  <2>2. QED
    BY <1>4, <2>1, OwnRowsKept DEF UInv, Own
<1>11. QED
  BY <1>2, <1>8, <1>9, <1>10, StreamUsers

(* The server changes no user, no queue and no task.                       *)
LEMMA ServerUsers ==
  ASSUME IInv, UInv,
         \/ AcceptHandshake \/ Commit \/ Refuse \/ Break
         \/ \E r \in Registrations : LateCommit(r)
         \/ UNCHANGED vars
  PROVE  UInv'
<1>1. TypeOK /\ remote \in Remotes /\ remote.call \in Calls
  BY DEF IInv, TypeOK, Remotes
<1>2. /\ UNCHANGED << session, mainQueue, running, changes, docUid, strayed, tasks, syncUser, tokenRequests, queue >>
      /\ \/ remote' = remote
         \/ /\ remote.call.status = "open"
            /\ \/ remote' = [remote EXCEPT !.call = Answered]
               \/ remote' = [remote EXCEPT !.call = [remote.call EXCEPT !.status = "permanent"]]
               \/ remote' = [remote EXCEPT !.call.status = "transient"]
  BY DEF AcceptHandshake, Commit, Refuse, Serve, Break, LateCommit, worker, auth, disk, vars, memory, app
<1>3. Answered.user = remote.call.user
  BY <1>1 DEF Answered, Calls
<1>4. remote' = remote \/ (remote.call # NoCall /\ remote'.call.user = remote.call.user)
  <2>1. remote.call.status = "open" => remote.call # NoCall
    BY ACall
  <2>2. QED
    BY <1>1, <1>2, <1>3, <2>1 DEF Remotes, Calls
<1>5. TokenOfQueueUser'
  BY <1>2, <1>4 DEF UInv, TokenUsers, TokenOfQueueUser
<1>6. OwnDocumentInOwnQueue'
  BY <1>2 DEF UInv, Own, OwnDocumentInOwnQueue
<1>7. QED
  BY <1>2, <1>5, <1>6, WorkerUsers DEF TasksStay

(* The death of the process leaves the session and the queues.             *)
LEMMA DieUsers ==
  ASSUME IInv, UInv, Die
  PROVE  UInv'
<1>1. /\ mainQueue' = << >> /\ tokenRequests' = << >> /\ tasks' = << >> /\ ~running' /\ remote' = Idle
      /\ UNCHANGED << docUid, strayed, queue >>
  BY DEF Die, disk
<1>2. Sessions'
  BY <1>1 DEF Sessions, LastNotice, Current
<1>3. TokenUsers'
  BY <1>1, IdleOK DEF TokenUsers, Requests, Answers, Resumes, TokenOfQueueUser
<1>4. Own'
  BY <1>1 DEF UInv, Own, CreatedNext, WritesNext, OwnDocumentInOwnQueue
<1>5. QED
  BY <1>2, <1>3, <1>4 DEF UInv
-----------------------------------------------------------------------------
(* FirebaseAuth: a new session is announced.                               *)
LEMMA NoticeAdded ==
  ASSUME IInv, UInv, NEW u \in Users, session' = u,
         UNCHANGED << running, changes, docUid, strayed, tokenRequests, tasks, syncUser, queue, remote >>,
         NEW n, n = Len(mainQueue) + 1, n \in DOMAIN mainQueue', mainQueue'[n] = Notice(u),
         mainQueue' \in Seq(Blocks),
         \A i \in DOMAIN mainQueue : i \in DOMAIN mainQueue' /\ mainQueue'[i] = mainQueue[i],
         \A i \in DOMAIN mainQueue' :
           \/ i \in DOMAIN mainQueue
           \/ i = n
           \/ i = n + 1 /\ mainQueue'[i].kind = "created" /\ mainQueue'[i].reg = u
  PROVE  UInv'
<1>1. mainQueue \in Seq(Blocks) /\ Len(mainQueue) \in Nat /\ DOMAIN mainQueue = 1 .. Len(mainQueue)
      /\ n \in Nat \ {0} /\ Len(mainQueue') \in Nat /\ DOMAIN mainQueue' = 1 .. Len(mainQueue')
  BY DEF IInv, TypeOK
<1>2. Notice(u).kind = "notice" /\ Notice(u).user = u
  BY DEF Notice
<1>3. IsNotice(n)' /\ n \in 1 .. Len(mainQueue')
  BY <1>1, <1>2 DEF IsNotice
<1>4. ~NoNotice(Len(mainQueue))'
  BY <1>3 DEF NoNotice
<1>5. \A x : Ahead(x)' <=> Ahead(x)
  BY DEF Ahead
<1>6. LastNotice'
  <2>1. SUFFICES ASSUME NEW i \in DOMAIN mainQueue', IsNotice(i)',
                        \A j \in i + 1 .. Len(mainQueue') : ~IsNotice(j)'
                 PROVE  mainQueue'[i].user = session'
    BY DEF LastNotice
  <2>2. i = n
    <3>1. i \notin DOMAIN mainQueue
      BY <1>1, <1>3, <2>1
    <3>2. mainQueue'[i].kind = "notice"
      BY <2>1 DEF IsNotice
    <3>3. QED
      BY <3>1, <3>2
  <2>3. QED
    BY <1>2, <2>2
<1>7. Current'
  BY <1>4 DEF Current
<1>8. Requests'
  BY <1>4 DEF UInv, TokenUsers, Requests
<1>9. Answers'
  <2>1. SUFFICES ASSUME NEW i \in DOMAIN mainQueue', mainQueue'[i].kind = "token",
                        NEW t, t = mainQueue'[i].to
                 PROVE  /\ t.changes <= changes'
                        /\ t.changes = changes' /\ NoNotice(i - 1)' => Ahead(t.user)'
    BY DEF Answers, Ahead
  <2>2. i \in DOMAIN mainQueue /\ mainQueue'[i] = mainQueue[i]
    BY <1>2, <2>1
  <2>3. NoNotice(i - 1)' => NoNotice(i - 1)
    <3>1. \A j \in 1 .. i - 1 : j \in DOMAIN mainQueue
      BY <1>1, <2>2
    <3>2. QED
      BY <3>1 DEF NoNotice, IsNotice
  <2>4. /\ t.changes <= changes
        /\ t.changes = changes /\ NoNotice(i - 1) => Ahead(t.user)
    BY <2>1, <2>2 DEF UInv, TokenUsers, Answers
  <2>5. QED
    BY <1>5, <2>3, <2>4
<1>10. CreatedNext'
  <2>1. SUFFICES ASSUME NEW i \in DOMAIN mainQueue', mainQueue'[i].kind \in Completions,
                        NEW r, r = mainQueue'[i].reg
                 PROVE  IF i = 1 THEN running' => Ahead(r)' ELSE mainQueue'[i - 1] = Notice(r)
    BY DEF CreatedNext, Ahead
  <2>2. CASE i \in DOMAIN mainQueue
    <3>1. mainQueue'[i] = mainQueue[i] /\ (i # 1 => i - 1 \in DOMAIN mainQueue)
      BY <1>1, <2>2
    <3>2. i # 1 => mainQueue'[i - 1] = mainQueue[i - 1]
      BY <3>1
    <3>3. IF i = 1 THEN running => Ahead(r) ELSE mainQueue[i - 1] = Notice(r)
      BY <2>1, <2>2, <3>1 DEF UInv, Own, CreatedNext
    <3>4. QED
      BY <1>5, <3>2, <3>3
  <2>3. CASE i = n + 1 /\ mainQueue'[i].reg = u
    <3>1. i # 1 /\ i - 1 = n
      BY <1>1, <2>3
    <3>2. QED
      BY <2>1, <2>3, <3>1
  <2>4. i # n
    BY <1>2, <2>1 DEF Completions
  <2>5. QED
    BY <2>1, <2>2, <2>3, <2>4
<1>11. Resumes' /\ WritesNext'
  BY DEF UInv, TokenUsers, Own, Resumes, WritesNext, InOwn
<1>12. TokenOfQueueUser' /\ OwnDocumentInOwnQueue'
  BY DEF UInv, TokenUsers, Own, TokenOfQueueUser, OwnDocumentInOwnQueue
<1>13. QED
  BY <1>6, <1>7, <1>8, <1>9, <1>10, <1>11, <1>12 DEF UInv, Sessions, TokenUsers, Own

(* CreateUser: the notice of r is in front of its completion.              *)
LEMMA CreateUserUsers ==
  ASSUME IInv, UInv, NEW r \in Registrations, CreateUser(r)
  PROVE  UInv'
<1> DEFINE a == Notice(r)
           b == [kind |-> "created", reg |-> r]
           one == Append(mainQueue, a)
           two == Append(one, b)
           n == Len(mainQueue) + 1
<1>1. mainQueue \in Seq(Blocks) /\ r \in Users
  BY DEF IInv, TypeOK, Users
<1>2. /\ a \in Blocks /\ b \in Blocks /\ b.kind = "created" /\ b.reg = r
  BY <1>1, BlockTypes
<1>3. mainQueue' = two
  BY <1>1, <1>2, TwoAppended DEF CreateUser
<1>4. /\ session' = r
      /\ UNCHANGED << running, changes, docUid, strayed, tokenRequests, tasks, syncUser, queue, remote >>
  BY DEF CreateUser, app, memory, disk
<1> HIDE DEF a, b
<1>5. /\ one \in Seq(Blocks) /\ Len(one) = n
      /\ \A i \in DOMAIN one : i \in DOMAIN mainQueue \/ i = n
      /\ \A i \in DOMAIN mainQueue : i \in DOMAIN one /\ one[i] = mainQueue[i]
      /\ n \in DOMAIN one /\ one[n] = a
  BY <1>1, <1>2, AppendElements
<1> HIDE DEF one
<1>6. /\ two \in Seq(Blocks)
      /\ \A i \in DOMAIN two : i \in DOMAIN one \/ (i = Len(one) + 1 /\ two[i] = b)
      /\ \A i \in DOMAIN one : i \in DOMAIN two /\ two[i] = one[i]
  BY <1>2, <1>5, AppendElements
<1> HIDE DEF two
<1>7. PICK m : m = n
  OBVIOUS
<1>8. /\ m = Len(mainQueue) + 1 /\ m \in DOMAIN mainQueue' /\ mainQueue'[m] = Notice(r)
      /\ mainQueue' \in Seq(Blocks)
  BY <1>3, <1>5, <1>6, <1>7 DEF a
<1>9. \A i \in DOMAIN mainQueue : i \in DOMAIN mainQueue' /\ mainQueue'[i] = mainQueue[i]
  BY <1>3, <1>5, <1>6
<1>10. \A i \in DOMAIN mainQueue' :
         \/ i \in DOMAIN mainQueue
         \/ i = m
         \/ i = m + 1 /\ mainQueue'[i].kind = "created" /\ mainQueue'[i].reg = r
  BY <1>2, <1>3, <1>5, <1>6, <1>7
<1>11. QED
  BY <1>1, <1>4, <1>8, <1>9, <1>10, NoticeAdded

(* ChangeSession: the last notice is that of the session.                  *)
LEMMA ChangeSessionUsers ==
  ASSUME IInv, UInv, NEW u \in Users, ChangeSession(u)
  PROVE  UInv'
<1> DEFINE one == Append(mainQueue, Notice(u))
<1>1. mainQueue \in Seq(Blocks) /\ Notice(u) \in Blocks
  BY BlockTypes DEF IInv, TypeOK
<1>2. /\ session' = u /\ mainQueue' = one
      /\ UNCHANGED << running, changes, docUid, strayed, tokenRequests, tasks, syncUser, queue, remote >>
  BY DEF ChangeSession, app, memory, disk
<1>3. PICK n : n = Len(mainQueue) + 1
  OBVIOUS
<1>4. /\ one \in Seq(Blocks)
      /\ \A i \in DOMAIN one : i \in DOMAIN mainQueue \/ i = n
      /\ \A i \in DOMAIN mainQueue : i \in DOMAIN one /\ one[i] = mainQueue[i]
      /\ n \in DOMAIN one /\ one[n] = Notice(u)
  BY <1>1, <1>3, AppendElements
<1> HIDE DEF one
<1>5. QED
  BY <1>2, <1>3, <1>4, NoticeAdded

(* A getToken call reads the session, or is answered.                      *)
LEMMA Running ==
  ASSUME IInv, tokenRequests # << >> \/ \E i \in DOMAIN mainQueue : mainQueue[i].kind = "token"
  PROVE  running
BY DEF IInv, Boot

(* ReadUser reads the session, which is the user of the last notice.       *)
LEMMA ReadUserUsers ==
  ASSUME IInv, UInv, NEW k \in DOMAIN tokenRequests, ReadUser(k)
  PROVE  UInv'
<1>1. tokenRequests \in Seq(TokenRequest) /\ changes \in Nat
  BY DEF IInv, TypeOK
<1>2. /\ tokenRequests' = [tokenRequests EXCEPT ![k].read = TRUE, ![k].user = session]
      /\ UNCHANGED << session, running, changes, docUid, strayed, tasks, syncUser, queue, remote, mainQueue >>
  BY DEF ReadUser, auth, app, memory, disk
<1>3. \A u : Ahead(u)' <=> Ahead(u)
  BY <1>2 DEF Ahead
<1>4. NoNotice(Len(mainQueue))' <=> NoNotice(Len(mainQueue))
  BY <1>2 DEF NoNotice, IsNotice
<1>5. NoNotice(Len(mainQueue)) => Ahead(session)
  <2>1. tokenRequests # << >>
    BY <1>1
  <2>2. running
    BY <2>1, Running
  <2>3. QED
    BY <2>2 DEF UInv, Sessions, Current
<1>6. Requests'
  <2>1. SUFFICES ASSUME NEW i \in DOMAIN tokenRequests', NEW t, t = tokenRequests'[i]
                 PROVE  /\ t.changes <= changes
                        /\ t.read /\ t.changes = changes /\ NoNotice(Len(mainQueue)) => Ahead(t.user)
    BY <1>2, <1>3, <1>4 DEF Requests, Ahead
  <2>2. i \in DOMAIN tokenRequests /\ tokenRequests[i] \in TokenRequest
    BY <1>1, <1>2, ElementOfSeq
  <2>3. CASE i # k
    <3>1. t = tokenRequests[i]
      BY <1>1, <1>2, <2>1, <2>2, <2>3
    <3>2. QED
      BY <2>2, <3>1 DEF UInv, TokenUsers, Requests
  <2>4. CASE i = k
    <3>1. t = [tokenRequests[k] EXCEPT !.read = TRUE, !.user = session]
      BY <1>1, <1>2, <2>1, <2>2, <2>4 DEF TokenRequest
    <3>2. t.user = session /\ t.changes = tokenRequests[k].changes
      BY <2>2, <2>4, <3>1 DEF TokenRequest
    <3>3. tokenRequests[k].changes <= changes
      BY DEF UInv, TokenUsers, Requests
    <3>4. QED
      BY <1>5, <3>2, <3>3
  <2>5. QED
    BY <2>3, <2>4
<1>7. LastNotice' /\ Current' /\ Answers' /\ Resumes' /\ CreatedNext' /\ WritesNext'
  <2>1. LastNotice'
    BY <1>2 DEF UInv, Sessions, LastNotice, IsNotice
  <2>2. Current'
    BY <1>2 DEF UInv, Sessions, Current, NoNotice, IsNotice, Ahead
  <2>3. Answers'
    BY <1>2 DEF UInv, TokenUsers, Answers, NoNotice, IsNotice, Ahead
  <2>4. Resumes' /\ WritesNext'
    BY <1>2 DEF UInv, TokenUsers, Own, Resumes, WritesNext, InOwn
  <2>5. CreatedNext'
    BY <1>2 DEF UInv, Own, CreatedNext, Ahead
  <2>6. QED
    BY <2>1, <2>2, <2>3, <2>4, <2>5
<1>8. TokenOfQueueUser' /\ OwnDocumentInOwnQueue'
  BY <1>2 DEF UInv, TokenUsers, Own, TokenOfQueueUser, OwnDocumentInOwnQueue
<1>9. QED
  BY <1>6, <1>7, <1>8 DEF UInv, Sessions, TokenUsers, Own

(* AnswerToken: the answer is behind the notices that were dispatched      *)
(* before its user was read.                                               *)
LEMMA AnswerTokenUsers ==
  ASSUME IInv, UInv, NEW k \in DOMAIN tokenRequests, NEW ok \in BOOLEAN, AnswerToken(k, ok)
  PROVE  UInv'
<1> DEFINE b == [kind |-> "token", ok |-> ok, to |-> tokenRequests[k]]
<1>1. tokenRequests \in Seq(TokenRequest) /\ mainQueue \in Seq(Blocks) /\ TypeOK
  BY DEF IInv, TypeOK
<1>2. /\ tokenRequests[k].read /\ tokenRequests' = RemoveAt(tokenRequests, k)
      /\ mainQueue' = Append(mainQueue, b)
      /\ UNCHANGED << session, running, changes, docUid, strayed, tasks, syncUser, queue, remote >>
  BY DEF AnswerToken, auth, app, memory, disk
<1>3. b \in Blocks /\ b.kind = "token" /\ b.to = tokenRequests[k]
  BY <1>1, ElementOfSeq, BlockTypes
<1> HIDE DEF b
<1>4. /\ \A i \in DOMAIN mainQueue' : \/ i \in DOMAIN mainQueue /\ mainQueue'[i] = mainQueue[i]
                                      \/ i = Len(mainQueue) + 1 /\ mainQueue'[i] = b
      /\ \A i \in DOMAIN mainQueue : i \in DOMAIN mainQueue' /\ mainQueue'[i] = mainQueue[i]
      /\ Len(mainQueue') = Len(mainQueue) + 1
      /\ DOMAIN mainQueue = 1 .. Len(mainQueue) /\ Len(mainQueue) \in Nat
  BY <1>1, <1>2, <1>3, AppendElements
<1>5. \A u : Ahead(u)' <=> Ahead(u)
  BY <1>2 DEF Ahead
<1>6. ASSUME NEW i \in 1 .. Len(mainQueue) + 1, NoNotice(i - 1)'
      PROVE  NoNotice(i - 1)
  <2>1. \A j \in 1 .. i - 1 : j \in DOMAIN mainQueue
    BY <1>4
  <2>2. QED
    BY <1>4, <1>6, <2>1 DEF NoNotice, IsNotice
<1>7. NoNotice(Len(mainQueue))' => NoNotice(Len(mainQueue))
  <2>1. \A j \in 1 .. Len(mainQueue) : j \in 1 .. Len(mainQueue') /\ j \in DOMAIN mainQueue
    BY <1>4
  <2>2. QED
    BY <1>4, <2>1 DEF NoNotice, IsNotice
<1>8. LastNotice'
  <2>1. SUFFICES ASSUME NEW i \in DOMAIN mainQueue', IsNotice(i)',
                        \A j \in i + 1 .. Len(mainQueue') : ~IsNotice(j)'
                 PROVE  mainQueue'[i].user = session'
    BY DEF LastNotice
  <2>2. i \in DOMAIN mainQueue /\ mainQueue'[i] = mainQueue[i]
    BY <1>3, <1>4, <2>1 DEF IsNotice
  <2>3. IsNotice(i)
    BY <2>1, <2>2 DEF IsNotice
  <2>4. \A j \in i + 1 .. Len(mainQueue) : ~IsNotice(j)
    <3>1. \A j \in i + 1 .. Len(mainQueue) : j \in i + 1 .. Len(mainQueue') /\ j \in DOMAIN mainQueue
      BY <1>4, <2>2
    <3>2. QED
      BY <1>4, <2>1, <3>1 DEF IsNotice
  <2>5. QED
    BY <1>2, <2>2, <2>3, <2>4 DEF UInv, Sessions, LastNotice
<1>9. Current'
  BY <1>2, <1>5, <1>7 DEF UInv, Sessions, Current, Ahead
<1>10. Requests'
  <2>1. RemoveAt(tokenRequests, k) \in Seq(TokenRequest) /\ Dropped(tokenRequests, k, tokenRequests')
    BY <1>1, <1>2, RemoveAtDropped
  <2>2. \A i \in DOMAIN tokenRequests' : \E j \in DOMAIN tokenRequests : tokenRequests'[i] = tokenRequests[j]
    <3>1. /\ Len(tokenRequests') = Len(tokenRequests) - 1
          /\ \A i \in 1 .. Len(tokenRequests') : tokenRequests'[i] =
               IF i < k THEN tokenRequests[i] ELSE tokenRequests[i + 1]
      BY <2>1 DEF Dropped
    <3>2. /\ DOMAIN tokenRequests' = 1 .. Len(tokenRequests')
          /\ DOMAIN tokenRequests = 1 .. Len(tokenRequests) /\ Len(tokenRequests) \in Nat
      BY <1>1, <1>2, <2>1
    <3>3. \A i \in DOMAIN tokenRequests' : i \in DOMAIN tokenRequests /\ i + 1 \in DOMAIN tokenRequests
      BY <3>1, <3>2
    <3>4. QED
      BY <3>1, <3>2, <3>3
  <2>3. SUFFICES ASSUME NEW i \in DOMAIN tokenRequests', NEW t, t = tokenRequests'[i]
                 PROVE  /\ t.changes <= changes
                        /\ t.read /\ t.changes = changes /\ NoNotice(Len(mainQueue)) => Ahead(t.user)
    BY <1>2, <1>5, <1>7 DEF Requests, Ahead
  <2>4. QED
    BY <2>2, <2>3 DEF UInv, TokenUsers, Requests
<1>11. Answers'
  <2>1. SUFFICES ASSUME NEW i \in DOMAIN mainQueue', mainQueue'[i].kind = "token",
                        NEW t, t = mainQueue'[i].to
                 PROVE  /\ t.changes <= changes'
                        /\ t.changes = changes' /\ NoNotice(i - 1)' => Ahead(t.user)'
    BY DEF Answers, Ahead
  <2>2. i \in 1 .. Len(mainQueue) + 1
    BY <1>4
  <2>3. NoNotice(i - 1)' => NoNotice(i - 1)
    BY <1>6, <2>2
  <2>4. CASE i \in DOMAIN mainQueue /\ mainQueue'[i] = mainQueue[i]
    BY <1>2, <1>5, <2>1, <2>3, <2>4 DEF UInv, TokenUsers, Answers
  <2>5. CASE i = Len(mainQueue) + 1 /\ mainQueue'[i] = b
    <3>1. t = tokenRequests[k] /\ i - 1 = Len(mainQueue)
      BY <1>3, <1>4, <2>1, <2>5
    <3>2. /\ t.changes <= changes
          /\ t.changes = changes /\ NoNotice(Len(mainQueue)) => Ahead(t.user)
      BY <1>2, <3>1 DEF UInv, TokenUsers, Requests
    <3>3. NoNotice(i - 1)' => NoNotice(Len(mainQueue))
      BY <2>3, <3>1
    <3>4. QED
      BY <1>2, <1>5, <3>2, <3>3
  <2>6. QED
    BY <1>4, <2>4, <2>5
<1>12. CreatedNext'
  <2>1. SUFFICES ASSUME NEW i \in DOMAIN mainQueue', mainQueue'[i].kind \in Completions,
                        NEW r, r = mainQueue'[i].reg
                 PROVE  IF i = 1 THEN running' => Ahead(r)' ELSE mainQueue'[i - 1] = Notice(r)
    BY DEF CreatedNext, Ahead
  <2>2. i \in DOMAIN mainQueue /\ mainQueue'[i] = mainQueue[i]
    BY <1>3, <1>4, <2>1 DEF Completions
  <2>3. IF i = 1 THEN running => Ahead(r) ELSE mainQueue[i - 1] = Notice(r)
    BY <2>1, <2>2 DEF UInv, Own, CreatedNext
  <2>4. i # 1 => i - 1 \in DOMAIN mainQueue
    BY <1>4, <2>2
  <2>5. i # 1 => mainQueue'[i - 1] = mainQueue[i - 1]
    BY <1>4, <2>4
  <2>6. QED
    BY <1>2, <1>5, <2>3, <2>5
<1>13. Resumes' /\ WritesNext'
  BY <1>2 DEF UInv, TokenUsers, Own, Resumes, WritesNext, InOwn
<1>14. TokenOfQueueUser' /\ OwnDocumentInOwnQueue'
  BY <1>2 DEF UInv, TokenUsers, Own, TokenOfQueueUser, OwnDocumentInOwnQueue
<1>15. QED
  BY <1>8, <1>9, <1>10, <1>11, <1>12, <1>13, <1>14 DEF UInv, Sessions, TokenUsers, Own
-----------------------------------------------------------------------------
(* Blocks leave the main queue.                                            *)
LEMMA LastNoticeTail ==
  ASSUME IInv, LastNotice, mainQueue # << >>, mainQueue' = Tail(mainQueue), session' = session
  PROVE  LastNotice'
<1>1. mainQueue \in Seq(Blocks)
  BY DEF IInv, TypeOK
<1>2. /\ Len(mainQueue') = Len(mainQueue) - 1 /\ Len(mainQueue) \in Nat
      /\ DOMAIN mainQueue' = 1 .. Len(mainQueue')
      /\ \A i \in DOMAIN mainQueue' : i + 1 \in DOMAIN mainQueue /\ mainQueue'[i] = mainQueue[i + 1]
  BY <1>1, TailElements
<1>3. SUFFICES ASSUME NEW i \in DOMAIN mainQueue', IsNotice(i)',
                      \A j \in i + 1 .. Len(mainQueue') : ~IsNotice(j)'
               PROVE  mainQueue'[i].user = session'
  BY DEF LastNotice
<1>4. IsNotice(i + 1)
  BY <1>2, <1>3 DEF IsNotice
<1>5. ASSUME NEW j \in i + 1 + 1 .. Len(mainQueue)
      PROVE  ~IsNotice(j)
  <2>1. j - 1 \in i + 1 .. Len(mainQueue') /\ j - 1 \in DOMAIN mainQueue' /\ (j - 1) + 1 = j
    BY <1>2
  <2>2. mainQueue'[j - 1] = mainQueue[j]
    BY <1>2, <2>1
  <2>3. QED
    BY <1>3, <2>1, <2>2 DEF IsNotice
<1>6. QED
  BY <1>2, <1>4, <1>5 DEF LastNotice

(* A block that is no notice has run: between the others there are as many *)
(* notices as before.                                                      *)
LEMMA NoNoticeTail ==
  ASSUME IInv, mainQueue # << >>, mainQueue' = Tail(mainQueue), ~IsNotice(1)
  PROVE  /\ \A i \in DOMAIN mainQueue' : NoNotice(i - 1)' => NoNotice(i)
         /\ NoNotice(Len(mainQueue))' => NoNotice(Len(mainQueue))
<1>1. mainQueue \in Seq(Blocks)
  BY DEF IInv, TypeOK
<1>2. /\ Len(mainQueue') = Len(mainQueue) - 1 /\ Len(mainQueue) \in Nat
      /\ DOMAIN mainQueue' = 1 .. Len(mainQueue')
      /\ \A i \in DOMAIN mainQueue' : mainQueue'[i] = mainQueue[i + 1]
  BY <1>1, TailElements
<1>3. ASSUME NEW k \in Nat, k <= Len(mainQueue'), NoNotice(k)'
      PROVE  NoNotice(k + 1)
  <2>1. ASSUME NEW j \in 1 .. k + 1
        PROVE  ~IsNotice(j)
    <3>1. CASE j = 1
      BY <3>1
    <3>2. CASE j # 1
      <4>1. j - 1 \in 1 .. k /\ j - 1 \in DOMAIN mainQueue' /\ (j - 1) + 1 = j
        BY <1>2, <1>3, <3>2
      <4>2. mainQueue'[j - 1] = mainQueue[j]
        BY <1>2, <4>1
      <4>3. QED
        BY <1>3, <4>1, <4>2 DEF NoNotice, IsNotice
    <3>3. QED
      BY <3>1, <3>2
  <2>2. QED
    BY <2>1 DEF NoNotice
<1>4. \A i \in DOMAIN mainQueue' : i - 1 \in Nat /\ i - 1 <= Len(mainQueue') /\ (i - 1) + 1 = i
  BY <1>2
<1>5. Len(mainQueue') \in Nat /\ Len(mainQueue') + 1 = Len(mainQueue)
  <2>1. Len(mainQueue) # 0
    BY <1>1
  <2>2. QED
    BY <1>2, <2>1
<1>6. \A i \in DOMAIN mainQueue' : NoNotice(i - 1)' => NoNotice(i)
  BY <1>3, <1>4
<1>7. NoNotice(Len(mainQueue))' => NoNotice(Len(mainQueue))
  <2>1. PICK m : m = Len(mainQueue')
    OBVIOUS
  <2>2. NoNotice(m)' => NoNotice(m + 1)
    BY <1>3, <1>5, <2>1
  <2>3. NoNotice(Len(mainQueue))' => NoNotice(m)'
    BY <2>1 DEF NoNotice
  <2>4. QED
    BY <1>5, <2>1, <2>2, <2>3
<1>8. QED
  BY <1>6, <1>7

(* A block that is no notice.                                              *)
LEMMA BlockUsers ==
  ASSUME IInv, UInv, mainQueue # << >>, Head(mainQueue).kind # "notice", mainQueue' = Tail(mainQueue),
         session' = session, changes' = changes,
         running => running' /\ \A u : Ahead(u) => Ahead(u)',
         ~running /\ running' => Ahead(session)',
         tokenRequests' = tokenRequests \/ \E c \in Nat : tokenRequests' = Append(tokenRequests, GetToken(c))
  PROVE  LastNotice' /\ Current' /\ Requests' /\ Answers' /\ CreatedNext'
<1>1. mainQueue \in Seq(Blocks) /\ tokenRequests \in Seq(TokenRequest) /\ changes \in Nat
  BY DEF IInv, TypeOK
<1>2. /\ DOMAIN mainQueue' = 1 .. Len(mainQueue') /\ Len(mainQueue') \in Nat
      /\ \A i \in DOMAIN mainQueue' : i + 1 \in DOMAIN mainQueue /\ mainQueue'[i] = mainQueue[i + 1]
      /\ Head(mainQueue) = mainQueue[1]
  BY <1>1, TailElements
<1>3. ~IsNotice(1)
  BY <1>2 DEF IsNotice
<1>4. /\ \A i \in DOMAIN mainQueue' : NoNotice(i - 1)' => NoNotice(i)
      /\ NoNotice(Len(mainQueue))' => NoNotice(Len(mainQueue))
  BY <1>3, NoNoticeTail
<1>5. LastNotice'
  BY LastNoticeTail DEF UInv, Sessions
<1>6. Current'
  <2>1. CASE running
    <3>1. NoNotice(Len(mainQueue)) => Ahead(session)
      BY <2>1 DEF UInv, Sessions, Current
    <3>2. Ahead(session) => Ahead(session)'
      <4>1. PICK u : u = session
        OBVIOUS
      <4>2. Ahead(u) => Ahead(u)'
        BY <2>1
      <4>3. QED
        BY <4>1, <4>2 DEF Ahead
    <3>3. QED
      BY <1>4, <3>1, <3>2 DEF Current
  <2>2. CASE ~running
    BY <2>2 DEF Current
  <2>3. QED
    BY <2>1, <2>2
<1>7. Requests'
  <2>1. \A i \in DOMAIN tokenRequests' :
          \/ i \in DOMAIN tokenRequests /\ tokenRequests'[i] = tokenRequests[i]
          \/ ~tokenRequests'[i].read /\ tokenRequests'[i].changes = changes
    <3>1. CASE tokenRequests' = tokenRequests
      BY <3>1
    <3>2. ASSUME NEW c \in Nat, tokenRequests' = Append(tokenRequests, GetToken(c))
          PROVE  \A i \in DOMAIN tokenRequests' :
                   \/ i \in DOMAIN tokenRequests /\ tokenRequests'[i] = tokenRequests[i]
                   \/ tokenRequests'[i] = GetToken(c)
      <4>1. GetToken(c) \in TokenRequest
        BY <1>1, GetTokenType
      <4>2. QED
        BY <1>1, <3>2, <4>1, AppendElements
    <3>3. \A c : ~GetToken(c).read /\ GetToken(c).changes = changes
      BY DEF GetToken
    <3>4. QED
      BY <3>1, <3>2, <3>3
  <2>2. SUFFICES ASSUME NEW i \in DOMAIN tokenRequests', NEW t, t = tokenRequests'[i]
                 PROVE  /\ t.changes <= changes
                        /\ t.read /\ t.changes = changes /\ NoNotice(Len(mainQueue))' => Ahead(t.user)'
    BY DEF Requests, Ahead
  <2>3. CASE i \in DOMAIN tokenRequests /\ t = tokenRequests[i]
    <3>1. running
      <4>1. tokenRequests # << >>
        BY <1>1, <2>3
      <4>2. QED
        BY <4>1, Running
    <3>2. /\ t.changes <= changes
          /\ t.read /\ t.changes = changes /\ NoNotice(Len(mainQueue)) => Ahead(t.user)
      BY <2>3 DEF UInv, TokenUsers, Requests
    <3>3. QED
      BY <1>4, <3>1, <3>2
  <2>4. CASE ~t.read /\ t.changes = changes
    BY <1>1, <2>4
  <2>5. QED
    BY <2>1, <2>2, <2>3, <2>4
<1>8. Answers'
  <2>1. SUFFICES ASSUME NEW i \in DOMAIN mainQueue', mainQueue'[i].kind = "token",
                        NEW t, t = mainQueue'[i].to
                 PROVE  /\ t.changes <= changes'
                        /\ t.changes = changes' /\ NoNotice(i - 1)' => Ahead(t.user)'
    BY DEF Answers, Ahead
  <2>2. i + 1 \in DOMAIN mainQueue /\ mainQueue[i + 1].kind = "token" /\ t = mainQueue[i + 1].to
        /\ (i + 1) - 1 = i
    BY <1>2, <2>1
  <2>3. running
    BY <2>2, Running
  <2>4. /\ t.changes <= changes
        /\ t.changes = changes /\ NoNotice(i) => Ahead(t.user)
    BY <2>2 DEF UInv, TokenUsers, Answers
  <2>5. QED
    BY <1>4, <2>3, <2>4
<1>9. CreatedNext'
  <2>1. SUFFICES ASSUME NEW i \in DOMAIN mainQueue', mainQueue'[i].kind \in Completions,
                        NEW r, r = mainQueue'[i].reg
                 PROVE  IF i = 1 THEN running' => Ahead(r)' ELSE mainQueue'[i - 1] = Notice(r)
    BY DEF CreatedNext, Ahead
  <2>2. i + 1 \in DOMAIN mainQueue /\ mainQueue[i + 1].kind \in Completions /\ r = mainQueue[i + 1].reg
        /\ (i + 1) - 1 = i /\ i + 1 # 1 /\ (i # 1 => i - 1 \in DOMAIN mainQueue' /\ (i - 1) + 1 = i)
    BY <1>2, <2>1
  <2>3. mainQueue[i] = Notice(r)
    BY <2>2 DEF UInv, Own, CreatedNext
  <2>4. i # 1
    BY <1>2, <2>3 DEF Notice
  <2>5. mainQueue'[i - 1] = mainQueue[i]
    BY <1>2, <2>2, <2>4
  <2>6. QED
    BY <2>3, <2>4, <2>5
<1>10. QED
  BY <1>5, <1>6, <1>7, <1>8, <1>9

(* TokenCallback: if no notice has been counted since the request, the     *)
(* user of the answer is the one ahead on the worker queue.                *)
LEMMA TokenCallbackUsers ==
  ASSUME IInv, UInv, TokenCallback
  PROVE  UInv'
<1> DEFINE b == Head(mainQueue)
           w == [kind |-> "resume", user |-> b.to.user, ok |-> b.ok, closes |-> b.to.closes]
<1>1. mainQueue \in Seq(Blocks) /\ TypeOK
  BY DEF IInv, TypeOK
<1>2. /\ mainQueue # << >> /\ b.kind = "token" /\ mainQueue' = Tail(mainQueue)
      /\ UNCHANGED << session, running, changes, docUid, strayed, syncUser, queue, remote >>
      /\ \/ tokenRequests' = Append(tokenRequests, GetToken(b.to.closes)) /\ tasks' = tasks
         \/ b.to.changes = changes /\ tasks' = Append(tasks, w) /\ tokenRequests' = tokenRequests
  BY DEF TokenCallback, RunBlock, auth, app, memory, disk
<1>3. b \in Blocks /\ b = mainQueue[1] /\ 1 \in DOMAIN mainQueue
  BY <1>1, <1>2, TailElements
<1>4. b.to \in TokenRequest /\ b.ok \in BOOLEAN /\ running
  BY <1>2, <1>3, Running DEF Blocks
<1>5. w \in Tasks /\ w.kind = "resume" /\ w.user = b.to.user /\ ~SetsUser(w) /\ b.to.closes \in Nat
  BY <1>4, TaskTypes DEF TokenRequest, SetsUser
<1>6. b.to.changes = changes => Ahead(b.to.user)
  <2>1. NoNotice(1 - 1)
    BY DEF NoNotice
  <2>2. QED
    BY <1>2, <1>3, <2>1 DEF UInv, TokenUsers, Answers
<1> HIDE DEF w
<1>7. tokenRequests' = tokenRequests \/ \E c \in Nat : tokenRequests' = Append(tokenRequests, GetToken(c))
  BY <1>2, <1>5
<1> HIDE DEF b
<1>8. (\A u : Ahead(u) => Ahead(u)') /\ Resumes' /\ WritesNext'
  <2>1. CASE tasks' = tasks
    BY <1>2, <2>1 DEF UInv, TokenUsers, Own, Resumes, WritesNext, InOwn, Ahead
  <2>2. CASE b.to.changes = changes /\ tasks' = Append(tasks, w)
    <3>1. /\ \A u : Ahead(u) => Ahead(u)'
          /\ \A k \in DOMAIN tasks' : \A u :
               \/ k \in DOMAIN tasks /\ tasks'[k] = tasks[k]
                    /\ (RunsAs(tasks, syncUser, k, u) => RunsAs(tasks', syncUser', k, u))
               \/ k = Len(tasks) + 1 /\ tasks'[k] = w
                    /\ (Ahead(u) => RunsAs(tasks', syncUser', k, u))
      BY <1>1, <1>2, <1>5, <2>2, AheadAppend
    <3>2. Resumes'
      BY <1>5, <1>6, <2>2, <3>1 DEF UInv, TokenUsers, Resumes
    <3>3. WritesNext'
      <4>1. SUFFICES ASSUME NEW k \in DOMAIN tasks', tasks'[k].kind = "write",
                            NEW s, s = tasks'[k].reg, docUid'[s] = s
                     PROVE  \E u \in Users : InOwn(s, u)' /\ RunsAs(tasks', syncUser', k, u)
        BY DEF WritesNext, InOwn
      <4>2. /\ k \in DOMAIN tasks /\ tasks'[k] = tasks[k]
            /\ \A u : RunsAs(tasks, syncUser, k, u) => RunsAs(tasks', syncUser', k, u)
        BY <1>5, <3>1, <4>1
      <4>3. PICK u \in Users : InOwn(s, u) /\ RunsAs(tasks, syncUser, k, u)
        BY <1>2, <4>1, <4>2 DEF UInv, Own, WritesNext
      <4>4. QED
        BY <1>2, <4>2, <4>3 DEF InOwn
    <3>4. QED
      BY <3>1, <3>2, <3>3
  <2>3. QED
    BY <1>2, <2>1, <2>2
<1>9. LastNotice' /\ Current' /\ Requests' /\ Answers' /\ CreatedNext'
  <2>1. Head(mainQueue).kind # "notice"
    BY <1>2 DEF b
  <2>2. QED
    BY <1>2, <1>4, <1>7, <1>8, <2>1, BlockUsers
<1>10. TokenOfQueueUser' /\ OwnDocumentInOwnQueue'
  BY <1>2 DEF UInv, TokenUsers, Own, TokenOfQueueUser, OwnDocumentInOwnQueue
<1>11. QED
  BY <1>8, <1>9, <1>10 DEF UInv, Sessions, TokenUsers, Own

(* The client that setData makes starts with the user of the session.      *)
LEMMA ClientMade ==
  ASSUME NEW t \in Tasks, SetsUser(t), NEW w \in Tasks, ~SetsUser(w), tasks' = Append(<< t >>, w)
  PROVE  /\ Len(tasks') = 2 /\ tasks'[1] = t /\ tasks'[2] = w /\ DOMAIN tasks' = {1, 2}
         /\ RunsAs(tasks', syncUser', 2, t.user) /\ RunsAs(tasks', syncUser', 3, t.user)
<1>1. PICK e \in Seq(Tasks) : e = << >>
  <2>1. << >> \in Seq(Tasks)
    OBVIOUS
  <2>2. QED
    BY <2>1
<1>2. PICK o \in Seq(Tasks) : o = << t >>
  OBVIOUS
<1>3. o = Append(e, t) /\ Len(e) + 2 = 2 /\ Len(o) + 2 = 3 /\ Len(o) + 1 = 2 /\ 2 \in 1 .. Len(o) + 1
  BY <1>1, <1>2
<1>4. PICK su : su = syncUser'
  OBVIOUS
<1>5. RunsAs(Append(e, t), su, Len(e) + 2, t.user)
  BY RunsAppend
<1>6. RunsAs(o, su, 2, t.user)
  BY <1>3, <1>5
<1>7. tasks' = Append(o, w)
  BY <1>2
<1>8. /\ RunsAs(Append(o, w), su, 2, t.user) <=> RunsAs(o, su, 2, t.user)
      /\ RunsAs(o, su, Len(o) + 1, t.user) => RunsAs(Append(o, w), su, Len(o) + 2, t.user)
  BY <1>3, RunsAppend
<1>9. RunsAs(tasks', syncUser', 2, t.user) /\ RunsAs(tasks', syncUser', 3, t.user)
  BY <1>3, <1>4, <1>6, <1>7, <1>8
<1>10. Len(tasks') = 2 /\ tasks'[1] = t /\ tasks'[2] = w /\ DOMAIN tasks' = {1, 2}
  OBVIOUS
<1>11. QED
  BY <1>9, <1>10

(* saveInfoToFirestore: the uid of r is read, who has no write and no row. *)
LEMMA SaveInfoUsers ==
  ASSUME IInv, DInv, UInv, NEW r \in Registrations, saveInfoToFirestore(r)
  PROVE  UInv'
<1> DEFINE b == [kind |-> "saving", reg |-> r]
<1>1. mainQueue \in Seq(Blocks) /\ b \in Blocks /\ docUid \in [Registrations -> Users] /\ tasks \in Seq(Tasks)
  BY BlockTypes DEF IInv, TypeOK
<1>2. /\ mainQueue # << >> /\ Head(mainQueue) = [kind |-> "created", reg |-> r]
      /\ mainQueue' = << b >> \o Tail(mainQueue)
      /\ docUid' = [docUid EXCEPT ![r] = session]
      /\ UNCHANGED << session, strayed, running, changes, tokenRequests, tasks, syncUser, queue, remote >>
  BY DEF saveInfoToFirestore, auth, memory, disk
<1>3. b.kind = "saving" /\ b.reg = r
  OBVIOUS
<1> HIDE DEF b
<1>4. /\ Len(mainQueue') = Len(mainQueue) /\ DOMAIN mainQueue' = DOMAIN mainQueue
      /\ DOMAIN mainQueue = 1 .. Len(mainQueue) /\ 1 \in DOMAIN mainQueue
      /\ mainQueue'[1] = b /\ Head(mainQueue) = mainQueue[1]
      /\ \A i \in DOMAIN mainQueue' : i # 1 => mainQueue'[i] = mainQueue[i]
  BY <1>1, <1>2, HeadReplaced
<1>5. Fresh(r) /\ \A i \in DOMAIN tasks : ~Writes(i, r)
  BY <1>2, <1>4 DEF DInv, OneCall, Created, Completions
<1>6. \A s \in Registrations : s # r => docUid'[s] = docUid[s]
  BY <1>1, <1>2
<1>7. /\ \A i \in DOMAIN mainQueue : IsNotice(i)' <=> IsNotice(i)
      /\ \A i \in DOMAIN mainQueue : mainQueue'[i].kind \in {"notice", "token"} => mainQueue'[i] = mainQueue[i]
  BY <1>2, <1>3, <1>4 DEF IsNotice
<1>8. \A k \in 0 .. Len(mainQueue) : NoNotice(k)' <=> NoNotice(k)
  <2>1. \A k \in 0 .. Len(mainQueue) : \A i \in 1 .. k : i \in DOMAIN mainQueue
    BY <1>1, <1>4
  <2>2. QED
    BY <1>7, <2>1 DEF NoNotice
<1>9. /\ \A u : Ahead(u)' <=> Ahead(u)
      /\ Len(mainQueue) \in 0 .. Len(mainQueue)
      /\ \A i \in DOMAIN mainQueue : i - 1 \in 0 .. Len(mainQueue)
  BY <1>1, <1>2, <1>4 DEF Ahead
<1>10. LastNotice'
  <2>1. SUFFICES ASSUME NEW i \in DOMAIN mainQueue', IsNotice(i)',
                        \A j \in i + 1 .. Len(mainQueue') : ~IsNotice(j)'
                 PROVE  mainQueue'[i].user = session'
    BY DEF LastNotice
  <2>2. \A j \in i + 1 .. Len(mainQueue) : j \in DOMAIN mainQueue
    BY <1>1, <1>4
  <2>3. IsNotice(i) /\ \A j \in i + 1 .. Len(mainQueue) : ~IsNotice(j)
    BY <1>4, <1>7, <2>1, <2>2
  <2>4. mainQueue'[i] = mainQueue[i]
    BY <1>4, <1>7, <2>1 DEF IsNotice
  <2>5. QED
    BY <1>2, <1>4, <2>3, <2>4 DEF UInv, Sessions, LastNotice
<1>11. Current'
  BY <1>2, <1>4, <1>8, <1>9 DEF UInv, Sessions, Current, Ahead
<1>12. Requests'
  BY <1>2, <1>4, <1>8, <1>9 DEF UInv, TokenUsers, Requests
<1>13. Answers'
  BY <1>2, <1>4, <1>7, <1>8, <1>9 DEF UInv, TokenUsers, Answers
<1>14. CreatedNext'
  <2>1. SUFFICES ASSUME NEW i \in DOMAIN mainQueue', mainQueue'[i].kind \in Completions,
                        NEW s, s = mainQueue'[i].reg
                 PROVE  IF i = 1 THEN running' => Ahead(s)' ELSE mainQueue'[i - 1] = Notice(s)
    BY DEF CreatedNext, Ahead
  <2>2. mainQueue[i].kind \in Completions /\ s = mainQueue[i].reg
    BY <1>2, <1>3, <1>4, <2>1 DEF Completions
  <2>3. IF i = 1 THEN running => Ahead(s) ELSE mainQueue[i - 1] = Notice(s)
    BY <1>4, <2>2 DEF UInv, Own, CreatedNext
  <2>4. CASE i = 1
    BY <1>2, <1>9, <2>3, <2>4
  <2>5. CASE i # 1
    <3>1. i - 1 \in DOMAIN mainQueue
      BY <1>1, <1>4, <2>5
    <3>2. mainQueue[i - 1].kind = "notice"
      BY <2>3, <2>5 DEF Notice
    <3>3. i - 1 # 1
      BY <1>2, <1>4, <3>2
    <3>4. QED
      BY <1>4, <2>3, <2>5, <3>1, <3>3
  <2>6. QED
    BY <2>4, <2>5
<1>15. Resumes' /\ TokenOfQueueUser'
  BY <1>2 DEF UInv, TokenUsers, Resumes, TokenOfQueueUser
<1>16. WritesNext'
  <2>1. SUFFICES ASSUME NEW k \in DOMAIN tasks', tasks'[k].kind = "write",
                        NEW s, s = tasks'[k].reg, docUid'[s] = s
                 PROVE  \E u \in Users : InOwn(s, u)' /\ RunsAs(tasks', syncUser', k, u)
    BY DEF WritesNext, InOwn
  <2>2. tasks[k].kind = "write" /\ s = tasks[k].reg /\ k \in DOMAIN tasks /\ tasks[k] \in Tasks
    BY <1>1, <1>2, <2>1, ElementOfSeq
  <2>3. s # r /\ s \in Registrations
    BY <1>5, <2>2 DEF Writes, Tasks
  <2>4. PICK u \in Users : InOwn(s, u) /\ RunsAs(tasks, syncUser, k, u)
    BY <1>2, <1>6, <2>1, <2>2, <2>3 DEF UInv, Own, WritesNext
  <2>5. QED
    BY <1>2, <2>4 DEF InOwn
<1>17. OwnDocumentInOwnQueue'
  <2>1. SUFFICES ASSUME NEW s \in Registrations, NEW u \in Users, docUid'[s] = s,
                        NEW i \in DOMAIN queue'[u], queue'[u][i].reg = s
                 PROVE  u = s <=> s \notin strayed'
    BY DEF OwnDocumentInOwnQueue
  <2>2. s # r
    BY <1>2, <1>5, <2>1 DEF Fresh, Queued
  <2>3. QED
    BY <1>2, <1>6, <2>1, <2>2 DEF UInv, Own, OwnDocumentInOwnQueue
<1>18. QED
  BY <1>10, <1>11, <1>12, <1>13, <1>14, <1>15, <1>16, <1>17 DEF UInv, Sessions, TokenUsers, Own

(* SetData: with a client the write runs as the user of the last notice    *)
(* run, who is r; the call that makes the client sets the user of the      *)
(* session, and the write strays if he is not the one read before.         *)
LEMMA SetDataUsers ==
  ASSUME IInv, DInv, Strays, UInv, NEW r \in Registrations, SetData(r)
  PROVE  UInv'
<1> DEFINE w == [kind |-> "write", reg |-> r]
           i0 == [kind |-> "init", user |-> session]
<1>1. mainQueue \in Seq(Blocks) /\ TypeOK /\ session \in Users /\ tasks \in Seq(Tasks) /\ Boot
  BY DEF IInv, TypeOK, Users
<1>2. /\ mainQueue # << >> /\ Head(mainQueue).kind = "saving" /\ Head(mainQueue).reg = r
      /\ mainQueue' = Tail(mainQueue) /\ running' = TRUE
      /\ strayed' = IF running \/ session = docUid[r] THEN strayed ELSE strayed \cup {r}
      /\ tasks' = Append(EnsureClientConfigured, w)
      /\ UNCHANGED << session, docUid, changes, tokenRequests, syncUser, queue, remote >>
  BY DEF SetData, RunBlock, auth, memory, disk
<1>3. Head(mainQueue) = mainQueue[1] /\ 1 \in DOMAIN mainQueue
  BY <1>1, <1>2, TailElements
<1>4. Created(1, r) /\ mainQueue[1].kind \in Completions
  BY <1>2, <1>3 DEF Created, Completions
<1>5. Fresh(r) /\ (\A i \in DOMAIN tasks : ~Writes(i, r)) /\ r \notin strayed
  BY <1>3, <1>4 DEF DInv, OneCall, Strays
<1>6. /\ \A s, u : s # r => (InOwn(s, u)' <=> InOwn(s, u))
      /\ running \/ session = docUid[r] => \A u : InOwn(r, u)' <=> u = r
      /\ ~running /\ docUid[r] = r => InOwn(r, session)'
  BY <1>2, <1>5 DEF InOwn
<1>7. /\ w \in Tasks /\ w.kind = "write" /\ w.reg = r /\ ~SetsUser(w)
      /\ i0 \in Tasks /\ i0.kind = "init" /\ SetsUser(i0) /\ i0.user = session
  BY <1>1, TaskTypes DEF SetsUser
<1> HIDE DEF w
<1>8. EnsureClientConfigured = IF running THEN tasks ELSE << i0 >>
  BY DEF EnsureClientConfigured
<1> HIDE DEF i0
<1>9. OwnDocumentInOwnQueue'
  <2>1. SUFFICES ASSUME NEW s \in Registrations, NEW u \in Users, docUid'[s] = s,
                        NEW i \in DOMAIN queue'[u], queue'[u][i].reg = s
                 PROVE  InOwn(s, u)'
    BY DEF OwnDocumentInOwnQueue, InOwn
  <2>2. s # r
    BY <1>2, <1>5, <2>1 DEF Fresh, Queued
  <2>3. InOwn(s, u)
    BY <1>2, <2>1 DEF UInv, Own, OwnDocumentInOwnQueue, InOwn
  <2>4. QED
    BY <1>6, <2>2, <2>3
<1>10. (running => \A u : Ahead(u) => Ahead(u)') /\ (~running => Ahead(session)') /\ Resumes' /\ WritesNext'
  <2>1. CASE running
    <3>1. tasks' = Append(tasks, w)
      BY <1>2, <1>8, <2>1
    <3>2. /\ \A u : Ahead(u) => Ahead(u)'
          /\ \A k \in DOMAIN tasks' : \A u :
               \/ k \in DOMAIN tasks /\ tasks'[k] = tasks[k]
                    /\ (RunsAs(tasks, syncUser, k, u) => RunsAs(tasks', syncUser', k, u))
               \/ k = Len(tasks) + 1 /\ tasks'[k] = w
                    /\ (Ahead(u) => RunsAs(tasks', syncUser', k, u))
      BY <1>1, <1>2, <1>7, <3>1, AheadAppend
    <3>3. Resumes'
      BY <1>7, <3>2 DEF UInv, TokenUsers, Resumes
    <3>4. Ahead(r)
      BY <1>2, <1>3, <1>4, <2>1 DEF UInv, Own, CreatedNext
    <3>5. WritesNext'
      <4>1. SUFFICES ASSUME NEW k \in DOMAIN tasks', tasks'[k].kind = "write",
                            NEW s, s = tasks'[k].reg, docUid'[s] = s
                     PROVE  \E u \in Users : InOwn(s, u)' /\ RunsAs(tasks', syncUser', k, u)
        BY DEF WritesNext, InOwn
      <4>2. CASE k \in DOMAIN tasks /\ tasks'[k] = tasks[k]
        <5>1. tasks[k] \in Tasks
          BY <1>1, <4>2, ElementOfSeq
        <5>2. s # r /\ s \in Registrations
          BY <1>5, <4>1, <4>2, <5>1 DEF Writes, Tasks
        <5>3. PICK u \in Users : InOwn(s, u) /\ RunsAs(tasks, syncUser, k, u)
          BY <1>2, <4>1, <4>2 DEF UInv, Own, WritesNext
        <5>4. k # Len(tasks) + 1
          BY <1>1, <4>2
        <5>5. RunsAs(tasks', syncUser', k, u)
          BY <3>2, <5>3, <5>4
        <5>6. QED
          BY <1>6, <5>2, <5>3, <5>5
      <4>3. CASE k = Len(tasks) + 1 /\ tasks'[k] = w
        <5>1. s = r /\ r \in Users
          BY <1>7, <4>1, <4>3 DEF Users
        <5>2. k \notin DOMAIN tasks
          BY <1>1, <4>3
        <5>3. RunsAs(tasks', syncUser', k, r)
          BY <3>2, <3>4, <5>2
        <5>4. QED
          BY <1>6, <2>1, <5>1, <5>3
      <4>4. QED
        BY <3>2, <4>2, <4>3
    <3>6. QED
      BY <2>1, <3>2, <3>3, <3>5
  <2>2. CASE ~running
    <3>1. tasks' = Append(<< i0 >>, w)
      BY <1>2, <1>8, <2>2
    <3>2. /\ Len(tasks') = 2 /\ tasks'[1] = i0 /\ tasks'[2] = w /\ DOMAIN tasks' = {1, 2}
          /\ RunsAs(tasks', syncUser', 2, session) /\ RunsAs(tasks', syncUser', 3, session)
      <4>1. /\ Len(tasks') = 2 /\ tasks'[1] = i0 /\ tasks'[2] = w /\ DOMAIN tasks' = {1, 2}
            /\ RunsAs(tasks', syncUser', 2, i0.user) /\ RunsAs(tasks', syncUser', 3, i0.user)
        BY <1>7, <3>1, ClientMade
      <4>2. QED
        BY <1>7, <4>1
    <3>3. Ahead(session)'
      BY <1>2, <3>2 DEF Ahead
    <3>4. Resumes'
      BY <1>7, <3>2 DEF Resumes
    <3>5. WritesNext'
      <4>1. SUFFICES ASSUME NEW k \in DOMAIN tasks', tasks'[k].kind = "write",
                            NEW s, s = tasks'[k].reg, docUid'[s] = s
                     PROVE  \E u \in Users : InOwn(s, u)' /\ RunsAs(tasks', syncUser', k, u)
        BY DEF WritesNext, InOwn
      <4>2. k = 2 /\ s = r
        BY <1>7, <3>2, <4>1
      <4>3. InOwn(r, session)'
        BY <1>2, <1>6, <2>2, <4>1, <4>2
      <4>4. QED
        BY <1>1, <1>2, <3>2, <4>2, <4>3
    <3>6. QED
      BY <2>2, <3>3, <3>4, <3>5
  <2>3. QED
    BY <2>1, <2>2
<1>11. LastNotice' /\ Current' /\ Requests' /\ Answers' /\ CreatedNext'
  <2>1. Head(mainQueue).kind # "notice"
    BY <1>2
  <2>2. QED
    BY <1>2, <1>10, <2>1, BlockUsers
<1>12. TokenOfQueueUser'
  BY <1>2 DEF UInv, TokenUsers, TokenOfQueueUser
<1>13. QED
  BY <1>9, <1>10, <1>11, <1>12 DEF UInv, Sessions, TokenUsers, Own

(* CredentialChange: every answer asked for before it is out of date.      *)
LEMMA CredentialChangeUsers ==
  ASSUME IInv, UInv, CredentialChange
  PROVE  UInv'
<1>1. mainQueue \in Seq(Blocks) /\ TypeOK /\ Boot /\ changes \in Nat
  BY DEF IInv, TypeOK
<1>2. PICK u : u = Head(mainQueue).user
  OBVIOUS
<1>3. /\ mainQueue # << >> /\ Head(mainQueue).kind = "notice" /\ mainQueue' = Tail(mainQueue)
      /\ IF running
         THEN /\ changes' = changes + 1
              /\ tasks' = Append(tasks, [kind |-> "user", user |-> u])
         ELSE UNCHANGED << changes, tasks >>
      /\ UNCHANGED << session, running, docUid, strayed, tokenRequests, syncUser, queue, remote >>
  BY <1>2 DEF CredentialChange, RunBlock, auth, app, memory, disk
<1>4. /\ Len(mainQueue') = Len(mainQueue) - 1 /\ Len(mainQueue) \in Nat
      /\ DOMAIN mainQueue' = 1 .. Len(mainQueue') /\ DOMAIN mainQueue = 1 .. Len(mainQueue)
      /\ \A i \in DOMAIN mainQueue' : i + 1 \in DOMAIN mainQueue /\ mainQueue'[i] = mainQueue[i + 1]
      /\ Head(mainQueue) = mainQueue[1] /\ 1 \in DOMAIN mainQueue /\ Head(mainQueue) \in Blocks
  BY <1>1, <1>3, TailElements
<1>5. u \in Users
  BY <1>2, <1>3, <1>4 DEF Blocks
<1>6. LastNotice'
  BY <1>3, LastNoticeTail DEF UInv, Sessions
<1>7. NoNotice(Len(mainQueue))' => u = session
  <2>1. ASSUME NoNotice(Len(mainQueue))', NEW j \in 2 .. Len(mainQueue)
        PROVE  ~IsNotice(j)
    <3>1. j - 1 \in 1 .. Len(mainQueue') /\ (j - 1) + 1 = j
      BY <1>4
    <3>2. mainQueue'[j - 1] = mainQueue[j] /\ ~IsNotice(j - 1)'
      BY <1>4, <2>1, <3>1 DEF NoNotice
    <3>3. QED
      BY <3>2 DEF IsNotice
  <2>2. IsNotice(1) /\ 1 + 1 .. Len(mainQueue) = 2 .. Len(mainQueue)
    BY <1>3, <1>4 DEF IsNotice
  <2>3. QED
    BY <1>2, <1>4, <2>1, <2>2 DEF UInv, Sessions, LastNotice
<1>8. \A i \in DOMAIN mainQueue' : mainQueue'[i].kind \in Completions /\ i = 1 => u = mainQueue'[i].reg
  <2>1. SUFFICES ASSUME 1 \in DOMAIN mainQueue', mainQueue'[1].kind \in Completions
                 PROVE  u = mainQueue'[1].reg
    OBVIOUS
  <2>2. 2 \in DOMAIN mainQueue /\ mainQueue'[1] = mainQueue[2]
    BY <1>4, <2>1
  <2>3. mainQueue[2 - 1] = Notice(mainQueue[2].reg)
    BY <2>1, <2>2 DEF UInv, Own, CreatedNext
  <2>4. QED
    BY <1>2, <1>4, <2>2, <2>3 DEF Notice
<1>9. \A i \in DOMAIN mainQueue' : mainQueue'[i].kind \in Completions /\ i # 1 =>
        mainQueue'[i - 1] = Notice(mainQueue'[i].reg)
  <2>1. SUFFICES ASSUME NEW i \in DOMAIN mainQueue', mainQueue'[i].kind \in Completions, i # 1
                 PROVE  mainQueue'[i - 1] = Notice(mainQueue'[i].reg)
    OBVIOUS
  <2>2. i + 1 \in DOMAIN mainQueue /\ mainQueue'[i] = mainQueue[i + 1] /\ (i + 1) - 1 = i /\ i + 1 # 1
        /\ i - 1 \in DOMAIN mainQueue' /\ (i - 1) + 1 = i
    BY <1>4, <2>1
  <2>3. mainQueue[i] = Notice(mainQueue[i + 1].reg)
    BY <2>1, <2>2 DEF UInv, Own, CreatedNext
  <2>4. mainQueue'[i - 1] = mainQueue[i]
    BY <1>4, <2>2
  <2>5. QED
    BY <2>2, <2>3, <2>4
<1>10. \A i \in DOMAIN mainQueue' : mainQueue'[i].kind = "token" =>
         \E j \in DOMAIN mainQueue : mainQueue[j].kind = "token" /\ mainQueue'[i] = mainQueue[j]
  BY <1>4
<1>11. TokenOfQueueUser' /\ OwnDocumentInOwnQueue'
  BY <1>3 DEF UInv, TokenUsers, Own, TokenOfQueueUser, OwnDocumentInOwnQueue
<1>12. CASE running
  <2> DEFINE t == [kind |-> "user", user |-> u]
  <2>1. t \in Tasks /\ t.kind = "user" /\ t.user = u /\ SetsUser(t)
    BY <1>5, TaskTypes DEF SetsUser
  <2>2. tasks' = Append(tasks, t) /\ changes' = changes + 1
    BY <1>3, <1>12
  <2> HIDE DEF t
  <2>3. /\ Ahead(t.user)'
        /\ \A k \in DOMAIN tasks' : \A x :
             \/ k \in DOMAIN tasks /\ tasks'[k] = tasks[k]
                  /\ (RunsAs(tasks, syncUser, k, x) => RunsAs(tasks', syncUser', k, x))
             \/ k = Len(tasks) + 1 /\ tasks'[k] = t
    BY <1>1, <1>3, <2>1, <2>2, AheadAppend
  <2>4. Ahead(u)'
    <3>1. PICK x : x = t.user
      OBVIOUS
    <3>2. Ahead(x)'
      BY <2>3, <3>1 DEF Ahead
    <3>3. x = u
      BY <2>1, <3>1
    <3>4. QED
      BY <3>2, <3>3
  <2>5. Current'
    BY <1>3, <1>7, <2>4 DEF Current, Ahead
  <2>6. Requests'
    <3>1. SUFFICES ASSUME NEW i \in DOMAIN tokenRequests', NEW x, x = tokenRequests'[i]
                   PROVE  x.changes <= changes' /\ x.changes # changes'
      BY DEF Requests
    <3>2. x.changes <= changes /\ x \in TokenRequest
      BY <1>1, <1>3, <3>1, ElementOfSeq DEF UInv, TokenUsers, Requests, TypeOK
    <3>3. QED
      BY <1>1, <2>2, <3>2 DEF TokenRequest
  <2>7. Answers'
    <3>1. SUFFICES ASSUME NEW i \in DOMAIN mainQueue', mainQueue'[i].kind = "token",
                          NEW x, x = mainQueue'[i].to
                   PROVE  x.changes <= changes' /\ x.changes # changes'
      BY DEF Answers
    <3>2. PICK j \in DOMAIN mainQueue : mainQueue[j].kind = "token" /\ mainQueue'[i] = mainQueue[j]
      BY <1>10, <3>1
    <3>3. mainQueue[j] \in Blocks
      BY <1>1, ElementOfSeq
    <3>4. x.changes <= changes /\ x \in TokenRequest
      BY <3>1, <3>2, <3>3 DEF UInv, TokenUsers, Answers, Blocks
    <3>5. QED
      BY <1>1, <2>2, <3>4 DEF TokenRequest
  <2>8. Resumes'
    BY <2>1, <2>3 DEF UInv, TokenUsers, Resumes
  <2>9. CreatedNext'
    <3>1. SUFFICES ASSUME NEW i \in DOMAIN mainQueue', mainQueue'[i].kind \in Completions,
                          NEW r, r = mainQueue'[i].reg
                   PROVE  IF i = 1 THEN running' => Ahead(r)' ELSE mainQueue'[i - 1] = Notice(r)
      BY DEF CreatedNext, Ahead
    <3>2. i = 1 => u = r
      BY <1>8, <3>1
    <3>3. QED
      BY <1>9, <2>4, <3>1, <3>2
  <2>10. WritesNext'
    <3>1. SUFFICES ASSUME NEW k \in DOMAIN tasks', tasks'[k].kind = "write",
                          NEW s, s = tasks'[k].reg, docUid'[s] = s
                   PROVE  \E v \in Users : InOwn(s, v)' /\ RunsAs(tasks', syncUser', k, v)
      BY DEF WritesNext, InOwn
    <3>2. /\ k \in DOMAIN tasks /\ tasks'[k] = tasks[k]
          /\ \A v : RunsAs(tasks, syncUser, k, v) => RunsAs(tasks', syncUser', k, v)
      BY <2>1, <2>3, <3>1
    <3>3. PICK v \in Users : InOwn(s, v) /\ RunsAs(tasks, syncUser, k, v)
      BY <1>3, <3>1, <3>2 DEF UInv, Own, WritesNext
    <3>4. QED
      BY <1>3, <3>2, <3>3 DEF InOwn
  <2>11. QED
    BY <1>6, <1>11, <2>5, <2>6, <2>7, <2>8, <2>9, <2>10 DEF UInv, Sessions, TokenUsers, Own
<1>13. CASE ~running
  <2>1. tokenRequests = << >> /\ \A i \in DOMAIN mainQueue : mainQueue[i].kind # "token"
    BY <1>1, <1>13 DEF Boot
  <2>2. tasks' = tasks /\ ~running'
    BY <1>3, <1>13
  <2>3. Current' /\ Requests' /\ Answers'
    <3>1. Requests'
      BY <1>3, <2>1 DEF Requests
    <3>2. Answers'
      BY <1>10, <2>1 DEF Answers
    <3>3. QED
      BY <2>2, <3>1, <3>2 DEF Current
  <2>4. Resumes' /\ WritesNext'
    BY <1>3, <2>2 DEF UInv, TokenUsers, Own, Resumes, WritesNext, InOwn
  <2>5. CreatedNext'
    BY <1>9, <2>2 DEF CreatedNext
  <2>6. QED
    BY <1>6, <1>11, <2>3, <2>4, <2>5 DEF UInv, Sessions, TokenUsers, Own
<1>14. QED
  BY <1>12, <1>13
-----------------------------------------------------------------------------
(* The initial states.                                                     *)
LEMMA InitUsers == Init => UInv
<1> SUFFICES ASSUME Init
             PROVE  UInv
  OBVIOUS
<1>1. /\ mainQueue = << >> /\ tasks = << >> /\ tokenRequests = << >> /\ ~running /\ remote = Idle
      /\ queue = [u \in Users |-> << >>]
  BY DEF Init
<1>2. Sessions
  BY <1>1 DEF Sessions, LastNotice, Current
<1>3. TokenUsers
  BY <1>1, IdleOK DEF TokenUsers, Requests, Answers, Resumes, TokenOfQueueUser
<1>4. Own
  BY <1>1 DEF Own, CreatedNext, WritesNext, OwnDocumentInOwnQueue
<1>5. QED
  BY <1>2, <1>3, <1>4 DEF UInv

(* Every step keeps UInv.                                                  *)
LEMMA NextUsers == IInv /\ DInv /\ Strays /\ UInv /\ [Next]_vars => UInv'
<1> SUFFICES ASSUME IInv, DInv, Strays, UInv, [Next]_vars
             PROVE  UInv'
  OBVIOUS
<1>1. ASSUME NEW r \in Registrations, CreateUser(r) PROVE UInv'
  BY <1>1, CreateUserUsers
<1>2. ASSUME NEW u \in Users, ChangeSession(u) PROVE UInv'
  BY <1>2, ChangeSessionUsers
<1>3. ASSUME NEW i \in DOMAIN tokenRequests, ReadUser(i) PROVE UInv'
  BY <1>3, ReadUserUsers
<1>4. ASSUME NEW i \in DOMAIN tokenRequests, NEW ok \in BOOLEAN, AnswerToken(i, ok) PROVE UInv'
  BY <1>4, AnswerTokenUsers
<1>5. CASE CredentialChange
  BY <1>5, CredentialChangeUsers
<1>6. CASE TokenCallback
  BY <1>6, TokenCallbackUsers
<1>7. ASSUME NEW r \in Registrations, saveInfoToFirestore(r) \/ SetData(r) PROVE UInv'
  BY <1>7, SaveInfoUsers, SetDataUsers
<1>8. CASE EmptyUidCrash \/ Kill \/ KillAfterNotify
  BY <1>8, DieUsers DEF EmptyUidCrash, Kill, KillAfterNotify
<1>9. CASE Initialize
  BY <1>9, InitializeUsers
<1>10. CASE HandleCredentialChange
  BY <1>10, HandleCredentialChangeUsers
<1>11. CASE WriteMutations
  BY <1>11, WriteMutationsUsers
<1>12. CASE ResumeStartWithCredentials
  BY <1>12, ResumeUsers
<1>13. CASE BackoffElapsed \/ IdleTimeout \/ ConnectivityChanged \/ HandshakeComplete \/ CallFailed
  BY <1>13, TimerUsers
<1>14. CASE MutationResult
  BY <1>14, MutationResultUsers
<1>15. CASE HandleWriteError
  BY <1>15, HandleWriteErrorUsers
<1>16. CASE \/ AcceptHandshake \/ Commit \/ Refuse \/ Break
            \/ \E r \in Registrations : LateCommit(r)
            \/ UNCHANGED vars
  BY <1>16, ServerUsers
<1>17. QED
  BY <1>1, <1>2, <1>3, <1>4, <1>5, <1>6, <1>7, <1>8, <1>9, <1>10, <1>11, <1>12, <1>13, <1>14,
     <1>15, <1>16
     DEF Next, FirebaseAuth, Token, Main, Worker, Reads, Server

-----------------------------------------------------------------------------
(* What has strayed was handed over, and each registration is handed over  *)
(* once: no step but SetData adds to it.                                   *)
LEMMA StraysKept ==
  ASSUME Strays, strayed' = strayed, accounts' = accounts,
         \A i \in DOMAIN mainQueue' : mainQueue'[i].kind \in Completions =>
           \E j \in DOMAIN mainQueue : mainQueue[j] = mainQueue'[i]
  PROVE  Strays'
BY DEF Strays, Created

LEMMA CreateUserStrays ==
  ASSUME IInv, Strays, NEW r \in Registrations, CreateUser(r)
  PROVE  Strays'
<1> DEFINE a == Notice(r)
           b == [kind |-> "created", reg |-> r]
           one == Append(mainQueue, a)
           two == Append(one, b)
<1>1. mainQueue \in Seq(Blocks) /\ r \in Users
  BY DEF IInv, TypeOK, Users
<1>2. /\ a \in Blocks /\ b \in Blocks /\ a.kind = "notice" /\ b.reg = r
  BY <1>1, BlockTypes DEF Notice
<1>3. mainQueue' = two
  BY <1>1, <1>2, TwoAppended DEF CreateUser
<1>4. strayed' = strayed /\ accounts' = accounts \cup {r} /\ r \notin accounts
  BY DEF CreateUser, app
<1> HIDE DEF a, b
<1>5. /\ one \in Seq(Blocks)
      /\ \A i \in DOMAIN one : \/ i \in DOMAIN mainQueue /\ one[i] = mainQueue[i]
                               \/ one[i] = a
  BY <1>1, <1>2, AppendElements
<1> HIDE DEF one
<1>6. \A i \in DOMAIN two : \/ i \in DOMAIN one /\ two[i] = one[i]
                            \/ two[i] = b
  BY <1>2, <1>5, AppendElements
<1> HIDE DEF two
<1>7. ASSUME NEW s \in strayed, NEW i \in DOMAIN mainQueue', Created(i, s)'
      PROVE  FALSE
  <2>1. s \in accounts /\ s # r
    BY <1>4, <1>7 DEF Strays
  <2>2. mainQueue'[i] # a /\ mainQueue'[i] # b
    BY <1>2, <1>7, <2>1 DEF Created, Completions
  <2>3. i \in DOMAIN mainQueue /\ mainQueue'[i] = mainQueue[i]
    BY <1>3, <1>5, <1>6, <2>2
  <2>4. QED
    BY <1>7, <2>3 DEF Strays, Created
<1>8. QED
  BY <1>4, <1>7 DEF Strays

LEMMA AuthStrays ==
  ASSUME IInv, Strays,
         \/ \E u \in Users : ChangeSession(u)
         \/ \E i \in DOMAIN tokenRequests : Token(i)
  PROVE  Strays'
<1>1. mainQueue \in Seq(Blocks) /\ tokenRequests \in Seq(TokenRequest)
  BY DEF IInv, TypeOK
<1>2. strayed' = strayed /\ accounts' = accounts
  BY DEF ChangeSession, Token, ReadUser, AnswerToken, app, auth
<1>3. \/ mainQueue' = mainQueue
      \/ \E b \in Blocks : mainQueue' = Append(mainQueue, b) /\ b.kind \in {"notice", "token"}
  <2>1. ASSUME NEW u \in Users, ChangeSession(u)
        PROVE  \E b \in Blocks : mainQueue' = Append(mainQueue, b) /\ b.kind \in {"notice", "token"}
    <3>1. Notice(u) \in Blocks /\ Notice(u).kind = "notice"
      BY BlockTypes DEF Notice
    <3>2. QED
      BY <2>1, <3>1 DEF ChangeSession
  <2>2. ASSUME NEW i \in DOMAIN tokenRequests, NEW ok \in BOOLEAN, AnswerToken(i, ok)
        PROVE  \E b \in Blocks : mainQueue' = Append(mainQueue, b) /\ b.kind \in {"notice", "token"}
    <3> DEFINE b == [kind |-> "token", ok |-> ok, to |-> tokenRequests[i]]
    <3>1. b \in Blocks /\ b.kind = "token"
      BY <1>1, ElementOfSeq, BlockTypes
    <3>2. mainQueue' = Append(mainQueue, b)
      BY <2>2 DEF AnswerToken
    <3> HIDE DEF b
    <3>3. QED
      BY <3>1, <3>2
  <2>3. ASSUME NEW i \in DOMAIN tokenRequests, ReadUser(i)
        PROVE  mainQueue' = mainQueue
    BY <2>3 DEF ReadUser
  <2>4. QED
    BY <2>1, <2>2, <2>3 DEF Token
<1>4. \A i \in DOMAIN mainQueue' : mainQueue'[i].kind \in Completions =>
        \E j \in DOMAIN mainQueue : mainQueue[j] = mainQueue'[i]
  <2>1. ASSUME NEW b \in Blocks, mainQueue' = Append(mainQueue, b), b.kind \in {"notice", "token"}
        PROVE  \A i \in DOMAIN mainQueue' : mainQueue'[i].kind \in Completions =>
                 \E j \in DOMAIN mainQueue : mainQueue[j] = mainQueue'[i]
    <3>1. \A i \in DOMAIN mainQueue' : \/ i \in DOMAIN mainQueue /\ mainQueue'[i] = mainQueue[i]
                                       \/ mainQueue'[i] = b
      BY <1>1, <2>1, AppendElements
    <3>2. b.kind \notin Completions
      BY <2>1 DEF Completions
    <3>3. QED
      BY <3>1, <3>2
  <2>2. QED
    BY <1>3, <2>1
<1>5. QED
  BY <1>2, <1>4, StraysKept

(* The blocks of the main queue; SetData hands r over.                     *)
LEMMA MainStrays ==
  ASSUME IInv, DInv, Strays, CredentialChange \/ TokenCallback \/ \E r \in Registrations : SetData(r)
  PROVE  Strays'
<1>1. mainQueue \in Seq(Blocks)
  BY DEF IInv, TypeOK
<1>2. mainQueue # << >> /\ mainQueue' = Tail(mainQueue) /\ accounts' = accounts
  BY DEF CredentialChange, TokenCallback, SetData, RunBlock, auth
<1>3. /\ Head(mainQueue) = mainQueue[1] /\ 1 \in DOMAIN mainQueue
      /\ \A i \in DOMAIN mainQueue' : /\ i + 1 \in DOMAIN mainQueue /\ i + 1 # 1
                                      /\ mainQueue'[i] = mainQueue[i + 1]
  <2>1. /\ Head(mainQueue) = mainQueue[1] /\ 1 \in DOMAIN mainQueue /\ DOMAIN mainQueue' = 1 .. Len(mainQueue')
        /\ \A i \in DOMAIN mainQueue' : i + 1 \in DOMAIN mainQueue /\ mainQueue'[i] = mainQueue[i + 1]
    BY <1>1, <1>2, TailElements
  <2>2. \A i \in 1 .. Len(mainQueue') : i + 1 # 1
    OBVIOUS
  <2>3. QED
    BY <2>1, <2>2
<1>4. CASE CredentialChange \/ TokenCallback
  <2>1. strayed' = strayed
    BY <1>4 DEF CredentialChange, TokenCallback, app
  <2>2. QED
    BY <1>2, <1>3, <2>1, StraysKept
<1>5. ASSUME NEW r \in Registrations, SetData(r)
      PROVE  Strays'
  <2>1. Created(1, r) /\ strayed' \subseteq strayed \cup {r}
    BY <1>3, <1>5 DEF SetData, RunBlock, Created, Completions
  <2>2. r \in accounts /\ \A i \in DOMAIN mainQueue : i # 1 => ~Created(i, r)
    BY <1>3, <2>1 DEF DInv, OneCall
  <2>3. \A s : \A i \in DOMAIN mainQueue' : Created(i, s)' => Created(i + 1, s)
    BY <1>3 DEF Created
  <2>4. QED
    BY <1>2, <1>3, <2>1, <2>2, <2>3 DEF Strays
<1>6. QED
  BY <1>4, <1>5

LEMMA SaveInfoStrays ==
  ASSUME IInv, Strays, NEW r \in Registrations, saveInfoToFirestore(r)
  PROVE  Strays'
<1> DEFINE b == [kind |-> "saving", reg |-> r]
<1>1. mainQueue \in Seq(Blocks) /\ b \in Blocks
  BY BlockTypes DEF IInv, TypeOK
<1>2. /\ mainQueue # << >> /\ Head(mainQueue) = [kind |-> "created", reg |-> r]
      /\ mainQueue' = << b >> \o Tail(mainQueue)
      /\ strayed' = strayed /\ accounts' = accounts
  BY DEF saveInfoToFirestore, auth
<1>3. b.kind = "saving" /\ b.reg = r
  OBVIOUS
<1> HIDE DEF b
<1>4. /\ DOMAIN mainQueue' = DOMAIN mainQueue /\ mainQueue'[1] = b /\ Head(mainQueue) = mainQueue[1]
      /\ \A i \in DOMAIN mainQueue' : i # 1 => mainQueue'[i] = mainQueue[i]
  BY <1>1, <1>2, HeadReplaced
<1>5. \A s : \A i \in DOMAIN mainQueue' : Created(i, s)' => Created(i, s)
  BY <1>2, <1>3, <1>4 DEF Created, Completions
<1>6. QED
  BY <1>2, <1>4, <1>5 DEF Strays

(* Every other step leaves the blocks of the main queue, or drops them.    *)
LEMMA NextStrays == IInv /\ DInv /\ Strays /\ [Next]_vars => Strays'
<1> SUFFICES ASSUME IInv, DInv, Strays, [Next]_vars
             PROVE  Strays'
  OBVIOUS
<1>1. ASSUME NEW r \in Registrations, CreateUser(r) PROVE Strays'
  BY <1>1, CreateUserStrays
<1>2. CASE \/ \E u \in Users : ChangeSession(u)
           \/ \E i \in DOMAIN tokenRequests : Token(i)
  BY <1>2, AuthStrays
<1>3. CASE CredentialChange \/ TokenCallback \/ \E r \in Registrations : SetData(r)
  BY <1>3, MainStrays
<1>4. ASSUME NEW r \in Registrations, saveInfoToFirestore(r) PROVE Strays'
  BY <1>4, SaveInfoStrays
<1>5. CASE EmptyUidCrash \/ Kill \/ KillAfterNotify
  <2>1. mainQueue' = << >> /\ strayed' = strayed /\ accounts' = accounts
    BY <1>5 DEF EmptyUidCrash, Kill, KillAfterNotify, Die, auth
  <2>2. QED
    BY <2>1, StraysKept
<1>6. CASE \/ Worker \/ Reads \/ Server \/ Break \/ BackoffElapsed \/ IdleTimeout \/ ConnectivityChanged
           \/ \E r \in Registrations : LateCommit(r)
           \/ UNCHANGED vars
  <2>1. mainQueue' = mainQueue /\ strayed' = strayed /\ accounts' = accounts
    <3>1. CASE Worker
      BY <3>1 DEF Worker, Initialize, HandleCredentialChange, WriteMutations, ResumeStartWithCredentials,
                  auth, app
    <3>2. CASE Reads \/ BackoffElapsed \/ IdleTimeout \/ ConnectivityChanged
      BY <3>2 DEF Reads, HandshakeComplete, MutationResult, CallFailed, HandleWriteError,
                  BackoffElapsed, IdleTimeout, ConnectivityChanged, Timer, worker, auth
    <3>3. CASE Server \/ Break \/ \E r \in Registrations : LateCommit(r)
      BY <3>3 DEF Server, AcceptHandshake, Commit, Refuse, Serve, Break, LateCommit, worker, auth
    <3>4. CASE UNCHANGED vars
      BY <3>4 DEF vars, auth, app
    <3>5. QED
      BY <1>6, <3>1, <3>2, <3>3, <3>4
  <2>2. QED
    BY <2>1, StraysKept
<1>7. QED
  BY <1>1, <1>2, <1>3, <1>4, <1>5, <1>6 DEF Next, FirebaseAuth, Main

(* UInv: the notices on the main queue, the tasks of the worker queue and  *)
(* the tokens on their way all lead to the user who is signed in, and a    *)
(* write runs as the user it is stored under unless it strayed.            *)
THEOREM UsersAgree == Spec => []UInv
<1>1. Init => IInv /\ DInv /\ Strays /\ UInv
  <2>1. Init => Strays
    BY DEF Init, Strays
  <2>2. QED
    BY <2>1, InitInv, InitCalls, InitUsers
<1>2. (IInv /\ DInv /\ Strays /\ UInv) /\ [Next]_vars => (IInv /\ DInv /\ Strays /\ UInv)'
  BY NextInv, NextCalls, NextStrays, NextUsers
<1>3. QED
  BY <1>1, <1>2, PTL DEF Spec

(* Whatever the order of sign-ins, token renewals, restarts and crashes,   *)
(* a write call carries the token of the user whose queue it sends.        *)
THEOREM CallsCarryTheirToken == Spec => []TokenOfQueueUser
<1>1. UInv => TokenOfQueueUser
  BY DEF UInv, TokenUsers
<1>2. QED
  BY <1>1, UsersAgree, PTL

(* The document a new user stores under his own uid is put into his own    *)
(* queue and into no other, although the queue is chosen later, on another *)
(* dispatch queue, than the uid, except when the same call made the client *)
(* and FirebaseAuth set another user between its two reads of currentUser: *)
(* then it is never in his own queue.                                      *)
THEOREM DocumentsInOwnQueue == Spec => []OwnDocumentInOwnQueue
<1>1. UInv => OwnDocumentInOwnQueue
  BY DEF UInv, Own
<1>2. QED
  BY <1>1, UsersAgree, PTL
=============================================================================
