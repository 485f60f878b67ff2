-------------------------- MODULE FirestoreWrites --------------------------
(***************************************************************************)
(* The way of a setData: from the completion of createUser in AuthManager  *)
(* through the Firestore client of the process (the mutation queues on     *)
(* disk, the write pipeline, the write stream and its credentials) to the  *)
(* server and back to the caller.                                          *)
(*                                                                         *)
(* Four queues run concurrently: the work queue of FirebaseAuth, the main  *)
(* queue, Firestore's worker queue and the server.  The user whose account *)
(* a registration creates is named by the registration.                    *)
(*                                                                         *)
(* A definition whose name has an underscore is the mutant of the one      *)
(* after it: the same step with a plausible bug in it.                     *)
(***************************************************************************)
EXTENDS Naturals, Sequences, FiniteSets, SequencesExt

CONSTANTS
  Registrations,     (* the registrations made, each of a new user          *)
  None,              (* no user: signed out                                 *)
  MaxPendingWrites,  (* kMaxPendingWrites                                   *)
  MaxSignIns,        (* bounds the sign-ins, token renewals and sign-outs   *)
  MaxFaults          (* bounds broken calls and processes                   *)

ASSUME FirestoreAssumption ==
  /\ None \notin Registrations
  /\ MaxPendingWrites \in Nat \ {0}
  /\ MaxSignIns \in Nat /\ MaxFaults \in Nat

VARIABLES
  accounts,       (* the users that exist                                   *)
  session,        (* FIRAuth's currentUser, in memory and in the keychain   *)
  signIns,        (* counts towards MaxSignIns                              *)
  mainQueue,      (* blocks dispatched to the main queue                    *)
  docUid,         (* the uid saveInfoToFirestore read and stores under      *)
  strayed,        (* writes that made the client for another user than they *)
                  (* had read (for the properties)                          *)
  told,           (* what its callback was given                            *)
  running,        (* the Firestore client of the process exists             *)
  changes,        (* token_counter of the credentials provider              *)
  tokenRequests,  (* getToken calls FirebaseAuth has not answered           *)
  tasks,          (* operations on Firestore's worker queue                 *)
  syncUser,       (* SyncEngine.current_user_                               *)
  nextId,         (* next_batch_id_ of the current mutation queue           *)
  waiting,        (* mutation_callbacks_, per user                          *)
  remote,         (* the write half of RemoteStore and its WriteStream      *)
  queue,          (* the mutation queues on disk, per user                  *)
  outcome,        (* how a batch left its queue (for the properties)        *)
  applied,        (* the documents the server has written                   *)
  refused,        (* the writes the server has refused                      *)
  late,           (* writes of abandoned calls that may still be applied    *)
  faults          (* counts towards MaxFaults                               *)

auth   == << accounts, session, signIns >>
app    == << docUid, strayed, told >>
memory == << syncUser, nextId, waiting >>
disk   == << queue, outcome >>
server == << applied, refused >>
vars   == << auth, mainQueue, app, running, changes, tokenRequests, tasks,
             memory, remote, disk, server, late, faults >>

Users == Registrations \cup {None}

(* A batch on the wire; the handshake is written as a batch of its own.    *)
Batch == [id : Nat \ {0}, reg : Registrations]
Hello == [id |-> 0, reg |-> None]

NoCall == [user |-> None, requests |-> << >>, answers |-> << >>, status |-> "none"]

Idle == [pipeline |-> << >>, stream |-> "Initial", handshake |-> FALSE,
         idle |-> FALSE, closes |-> 0, call |-> NoCall]

Init ==
  /\ accounts = {} /\ session = None /\ signIns = 0
  /\ mainQueue = << >>
  /\ docUid = [r \in Registrations |-> None]
  /\ strayed = {}
  /\ told = [r \in Registrations |-> "none"]
  /\ running = FALSE /\ changes = 0
  /\ tokenRequests = << >> /\ tasks = << >>
  /\ syncUser = None /\ nextId = 0
  /\ waiting = [u \in Users |-> {}]
  /\ remote = Idle
  /\ queue = [u \in Users |-> << >>]
  /\ outcome = [r \in Registrations |-> "none"]
  /\ applied = {} /\ refused = {} /\ late = {}
  /\ faults = 0
-----------------------------------------------------------------------------
(* FirebaseAuth.  possiblyPostAuthStateChangeNotification dispatches the   *)
(* notice from the block that sets currentUser.                            *)

Notice(u) == [kind |-> "notice", user |-> u]

(* createUser succeeds: the notice and then the completion.                *)
CreateUser_CompletesFirst(r) ==
  /\ r \notin accounts
  /\ accounts' = accounts \cup {r}
  /\ session' = r
  /\ mainQueue' = mainQueue \o << [kind |-> "created", reg |-> r], Notice(r) >>
  /\ UNCHANGED << signIns, app, running, changes, tokenRequests, tasks, memory,
                  remote, disk, server, late, faults >>

CreateUser(r) ==
  /\ r \notin accounts
  /\ accounts' = accounts \cup {r}
  /\ session' = r
  /\ mainQueue' = mainQueue \o << Notice(r), [kind |-> "created", reg |-> r] >>
  /\ UNCHANGED << signIns, app, running, changes, tokenRequests, tasks, memory,
                  remote, disk, server, late, faults >>

(* A sign-in, a sign-out, or a new token for the user who is signed in.    *)
ChangeSession(u) ==
  /\ u \in accounts \cup {None}
  /\ u = None => session # None
  /\ signIns < MaxSignIns
  /\ signIns' = signIns + 1
  /\ session' = u
  /\ mainQueue' = Append(mainQueue, Notice(u))
  /\ UNCHANGED << accounts, app, running, changes, tokenRequests, tasks, memory,
                  remote, disk, server, late, faults >>

(* getTokenForcingRefresh: the user is read first; the token may then have *)
(* to be fetched, and the callback is dispatched to the main queue.        *)
ReadUser(i) ==
  /\ ~tokenRequests[i].read
  /\ \A j \in 1 .. i - 1 : tokenRequests[j].read
  /\ tokenRequests' = [tokenRequests EXCEPT ![i].read = TRUE, ![i].user = session]
  /\ UNCHANGED << auth, mainQueue, app, running, changes, tasks, memory, remote,
                  disk, server, late, faults >>

AnswerToken(i, ok) ==
  /\ tokenRequests[i].read
  /\ IF ok THEN UNCHANGED faults ELSE faults < MaxFaults /\ faults' = faults + 1
  /\ tokenRequests' = RemoveAt(tokenRequests, i)
  /\ mainQueue' = Append(mainQueue, [kind |-> "token", ok |-> ok, to |-> tokenRequests[i]])
  /\ UNCHANGED << auth, app, running, changes, tasks, memory, remote, disk, server, late >>
-----------------------------------------------------------------------------
(* RemoteStore and the write stream.  Each operator takes r, a value of    *)
(* "remote", and gives the value the call leaves behind; q is the queue of *)
(* the current user.                                                       *)

IsStarted(r) == r.stream \in {"Starting", "Open", "Backoff"}

(* Start requests credentials, or waits when the stream ended in an error. *)
Start(r) == [r EXCEPT !.stream = IF @ = "Error" THEN "Backoff" ELSE "Starting"]

StartIfNeeded(r) == IF ~IsStarted(r) /\ r.pipeline # << >> THEN Start(r) ELSE r

(* The batches NextMutationBatchAfterBatchId returns one after the other:  *)
(* it seeks the first row past the batch at the end of the pipeline.       *)
After(r, q) ==
  LET last == IF r.pipeline = << >> THEN 0 ELSE Last(r.pipeline).id
      past == {i \in DOMAIN q : q[i].id > last}
  IN IF past = {} THEN << >> ELSE SubSeq(q, Min(past), Len(q))

NextBatches_Unbounded(r, q) == After(r, q)

NextBatches(r, q) ==
  LET room == MaxPendingWrites - Len(r.pipeline)
  IN SubSeq(After(r, q), 1, Min({Len(After(r, q)), room}))

Write(r, batches) ==
  IF batches = << >> THEN r
  ELSE [r EXCEPT !.call.requests = @ \o batches, !.idle = FALSE]

FillWritePipeline_Forgets(r, q) ==
  LET open == r.stream = "Open"
      more == IF open THEN << >> ELSE NextBatches(r, q)
  IN StartIfNeeded([r EXCEPT !.pipeline = @ \o more,
                             !.idle = @ \/ (open /\ r.pipeline = << >>)])

FillWritePipeline(r, q) ==
  LET more == NextBatches(r, q)
      open == r.stream = "Open"
      sent == IF open /\ r.handshake THEN Write(r, more) ELSE r
  IN StartIfNeeded([sent EXCEPT !.pipeline = @ \o more,
                                !.idle = @ \/ (open /\ r.pipeline \o more = << >>)])

(* Close: the gRPC call and the timers go, close_count_ goes up.           *)
Close_KeepsCount(r, state) ==
  [r EXCEPT !.stream = state, !.handshake = FALSE, !.idle = FALSE, !.call = NoCall]

Close_KeepsIdle(r, state) ==
  [r EXCEPT !.stream = state, !.handshake = FALSE, !.closes = @ + 1, !.call = NoCall]

Close_KeepsHandshake(r, state) ==
  [r EXCEPT !.stream = state, !.idle = FALSE, !.closes = @ + 1, !.call = NoCall]

Close(r, state) ==
  [r EXCEPT !.stream = state, !.handshake = FALSE, !.idle = FALSE,
            !.closes = @ + 1, !.call = NoCall]

Stop(r) == IF IsStarted(r) THEN Close(r, "Initial") ELSE r

RestartNetwork_KeepsPipeline(r, q) ==
  FillWritePipeline([Stop(r) EXCEPT !.stream = "Initial"], q)

RestartNetwork(r, q) ==
  FillWritePipeline([Stop(r) EXCEPT !.stream = "Initial", !.pipeline = << >>], q)

(* OnWriteStreamClose after a transient error: retry, after a delay.       *)
Retry(r) == StartIfNeeded(Close(r, "Error"))

(* The writes of a call the client gives up that the server may yet see.   *)
InFlight(call) ==
  IF call.status = "permanent" THEN {}
  ELSE {call.requests[i].reg : i \in DOMAIN call.requests} \ {None}

GetToken(closes) == [closes |-> closes, changes |-> changes, read |-> FALSE, user |-> None]

(* The worker queue leaves "remote" as r.  A stream that has become        *)
(* Starting has called GetToken (RequestCredentials).                      *)
Becomes(r) ==
  /\ remote' = r
  /\ tokenRequests' =
       IF r.stream = "Starting" /\ << r.stream, r.closes >> # << remote.stream, remote.closes >>
       THEN Append(tokenRequests, GetToken(r.closes)) ELSE tokenRequests
  /\ late' = IF r.call = NoCall THEN late \cup InFlight(remote.call) ELSE late
-----------------------------------------------------------------------------
(* The death of the process.  The session, the queues on disk and what is  *)
(* on its way to the server survive.                                       *)
Die ==
  /\ mainQueue' = << >> /\ tokenRequests' = << >> /\ tasks' = << >>
  /\ running' = FALSE /\ changes' = 0
  /\ syncUser' = None /\ nextId' = 0
  /\ waiting' = [u \in Users |-> {}]
  /\ remote' = Idle
  /\ late' = late \cup InFlight(remote.call)
  /\ UNCHANGED << auth, docUid, strayed, disk, server >>

Kill ==
  /\ running \/ mainQueue # << >>
  /\ faults < MaxFaults /\ faults' = faults + 1
  /\ UNCHANGED told
  /\ Die
-----------------------------------------------------------------------------
(* Blocks of the main queue.                                               *)

RunBlock(kind) ==
  /\ mainQueue # << >> /\ Head(mainQueue).kind = kind
  /\ mainQueue' = Tail(mainQueue)

(* The listener of the credentials provider, once the client has one.      *)
CredentialChange ==
  /\ RunBlock("notice")
  /\ IF running
     THEN /\ changes' = changes + 1
          /\ tasks' = Append(tasks, [kind |-> "user", user |-> Head(mainQueue).user])
     ELSE UNCHANGED << changes, tasks >>
  /\ UNCHANGED << auth, app, running, tokenRequests, memory, remote, disk, server, late, faults >>

(* saveInfoToFirestore reads the uid of currentUser on the work queue of   *)
(* FirebaseAuth.  Its block goes on to setData: no other block of the main *)
(* queue comes between, but FirebaseAuth may set another user.             *)
saveInfoToFirestore(r) ==
  /\ mainQueue # << >> /\ Head(mainQueue) = [kind |-> "created", reg |-> r]
  /\ mainQueue' = << [kind |-> "saving", reg |-> r] >> \o Tail(mainQueue)
  /\ session # None
  /\ docUid' = [docUid EXCEPT ![r] = session]
  /\ UNCHANGED << auth, strayed, told, running, changes, tokenRequests, tasks, memory,
                  remote, disk, server, late, faults >>

(* The first setData in a process makes the client.  Its credentials       *)
(* provider reads currentUser again                                        *)
(* (firebase_credentials_provider_apple.mm:34), and the first task of the  *)
(* client is Initialize with the user of that moment.                      *)
EnsureClientConfigured ==
  IF running THEN tasks ELSE << [kind |-> "init", user |-> session] >>

SetData(r) ==
  /\ RunBlock("saving") /\ Head(mainQueue).reg = r
  /\ running' = TRUE
  /\ tasks' = Append(EnsureClientConfigured, [kind |-> "write", reg |-> r])
  /\ strayed' = IF running \/ session = docUid[r] THEN strayed ELSE strayed \cup {r}
  /\ UNCHANGED << auth, docUid, told, changes, tokenRequests, memory, remote, disk,
                  server, late, faults >>

(* document("") raises: nobody is signed in any more.                      *)
EmptyUidCrash ==
  /\ mainQueue # << >> /\ Head(mainQueue).kind = "created"
  /\ session = None
  /\ UNCHANGED << told, faults >>
  /\ Die

(* The callback of GetToken: the answer to a request made before a change  *)
(* of credentials is thrown away and the token asked for again.            *)
TokenCallback ==
  /\ RunBlock("token")
  /\ LET block == Head(mainQueue) t == block.to
     IN IF t.changes # changes
        THEN /\ tokenRequests' = Append(tokenRequests, GetToken(t.closes))
             /\ UNCHANGED tasks
        ELSE /\ tasks' = Append(tasks, [kind |-> "resume", user |-> t.user, ok |-> block.ok,
                                        closes |-> t.closes])
             /\ UNCHANGED tokenRequests
  /\ UNCHANGED << auth, app, running, changes, memory, remote, disk, server, late, faults >>
-----------------------------------------------------------------------------
(* Operations of the worker queue.                                         *)

RunTask(kind) ==
  /\ tasks # << >> /\ Head(tasks).kind = kind
  /\ tasks' = Tail(tasks)

(* LoadNextBatchIdFromDb looks at the rows of every user.                  *)
Ids(qs) == UNION {{qs[u][i].id : i \in DOMAIN qs[u]} : u \in Users}
LoadNextBatchId_OwnRows(u) == 1 + Max({0} \cup {queue[u][i].id : i \in DOMAIN queue[u]})
LoadNextBatchId(u) == 1 + Max({0} \cup Ids(queue))

Initialize ==
  /\ RunTask("init")
  /\ LET u == Head(tasks).user
     IN /\ syncUser' = u
        /\ nextId' = LoadNextBatchId(u)
        /\ Becomes(FillWritePipeline(remote, queue[u]))
  /\ UNCHANGED << auth, mainQueue, app, running, changes, waiting, disk, server, faults >>

HandleCredentialChange_OnlyNewUser ==
  /\ RunTask("user")
  /\ LET u == Head(tasks).user
     IN /\ syncUser' = u
        /\ nextId' = IF u # syncUser THEN LoadNextBatchId(u) ELSE nextId
        /\ Becomes(FillWritePipeline([remote EXCEPT !.pipeline = IF u = syncUser THEN @ ELSE << >>], queue[u]))
  /\ UNCHANGED << auth, mainQueue, app, running, changes, waiting, disk, server, faults >>

HandleCredentialChange ==
  /\ RunTask("user")
  /\ LET u == Head(tasks).user
     IN /\ syncUser' = u
        /\ nextId' = IF u # syncUser THEN LoadNextBatchId(u) ELSE nextId
        /\ Becomes(RestartNetwork(remote, queue[u]))
  /\ UNCHANGED << auth, mainQueue, app, running, changes, waiting, disk, server, faults >>

AddMutationBatch(reg) ==
  /\ queue' = [queue EXCEPT ![syncUser] = Append(@, [id |-> nextId, reg |-> reg])]
  /\ nextId' = nextId + 1

WriteMutations ==
  /\ RunTask("write")
  /\ AddMutationBatch(Head(tasks).reg)
  /\ waiting' = [waiting EXCEPT ![syncUser] = @ \cup {Last(queue'[syncUser])}]
  /\ Becomes(FillWritePipeline(remote, queue'[syncUser]))
  /\ UNCHANGED << auth, mainQueue, app, running, changes, syncUser, outcome, server, faults >>

(* A token that was asked for by a stream closed since is of no use.       *)
ResumeStartWithCredentials ==
  /\ RunTask("resume")
  /\ LET t == Head(tasks)
     IN IF t.closes # remote.closes THEN UNCHANGED << remote, tokenRequests, late >>
        ELSE IF ~t.ok THEN Becomes(Retry(remote))
        ELSE Becomes([remote EXCEPT !.stream = "Open",
                        !.call = [user |-> t.user, requests |-> << Hello >>,
                                  answers |-> << >>, status |-> "open"]])
  /\ UNCHANGED << auth, mainQueue, app, running, changes, memory, disk, server, faults >>

worker == << auth, mainQueue, docUid, strayed, running, changes, tasks, syncUser, nextId >>

(* Timers, and the connectivity monitor.                                   *)
Timer(r) ==
  /\ Becomes(r)
  /\ UNCHANGED << worker, told, waiting, disk, server >>

BackoffElapsed ==
  /\ remote.stream = "Backoff"
  /\ Timer([remote EXCEPT !.stream = "Starting"])
  /\ UNCHANGED faults

IdleTimeout ==
  /\ remote.idle
  /\ Timer(Stop(remote))
  /\ UNCHANGED faults

ConnectivityChanged ==
  /\ running /\ \A i \in DOMAIN tasks : tasks[i].kind # "init"
  /\ faults < MaxFaults /\ faults' = faults + 1
  /\ Timer(RestartNetwork(remote, queue[syncUser]))

(* Reads of the stream.  A response is not matched with a request: it is   *)
(* taken for the answer to the first batch of the pipeline.                *)
HandshakeComplete ==
  /\ remote.call.answers # << >> /\ ~remote.handshake
  /\ Becomes([Write(remote, remote.pipeline)
                EXCEPT !.handshake = TRUE, !.call.answers = Tail(@)])
  /\ UNCHANGED << worker, told, waiting, disk, server, faults >>

NotifyUser(id, answer) ==
  LET found == {c \in waiting[syncUser] : c.id = id}
  IN /\ told' = [r \in Registrations |->
                   IF \E c \in found : c.reg = r THEN answer ELSE told[r]]
     /\ waiting' = [waiting EXCEPT ![syncUser] = @ \ found]

(* RemoveMutationBatch asserts that there is a row of that batch.          *)
Row(q, batch) == CHOOSE i \in DOMAIN q : q[i].id = batch.id

(* AcknowledgeBatch, RejectBatch.                                          *)
RemoveBatch(batch, how) ==
  /\ queue' = [queue EXCEPT ![syncUser] = RemoveAt(@, Row(@, batch))]
  /\ outcome' = [outcome EXCEPT ![batch.reg] = how]

MutationResult_TakesHandshake ==
  /\ remote.call.answers # << >>
  /\ LET batch == Head(remote.pipeline)
         popped == [remote EXCEPT !.pipeline = Tail(@), !.call.answers = Tail(@)]
     IN /\ NotifyUser(batch.id, "ok")
        /\ RemoveBatch(batch, "acked")
        /\ Becomes(FillWritePipeline(popped, queue'[syncUser]))
  /\ UNCHANGED << worker, server, faults >>

MutationResult ==
  /\ remote.call.answers # << >> /\ remote.handshake
  /\ LET batch == Head(remote.pipeline)
         popped == [remote EXCEPT !.pipeline = Tail(@), !.call.answers = Tail(@)]
     IN /\ NotifyUser(batch.id, "ok")
        /\ RemoveBatch(batch, "acked")
        /\ Becomes(FillWritePipeline(popped, queue'[syncUser]))
  /\ UNCHANGED << worker, server, faults >>

(* HandleSuccessfulWrite calls back before it removes the batch from disk. *)
KillAfterNotify ==
  /\ remote.call.answers # << >> /\ remote.handshake
  /\ faults < MaxFaults /\ faults' = faults + 1
  /\ told' = [r \in Registrations |->
                IF \E c \in waiting[syncUser] : c = Head(remote.pipeline) /\ c.reg = r
                THEN "ok" ELSE told[r]]
  /\ Die

(* The call ended.  Answers not read yet are read first, unless a write on *)
(* the call fails before the reads: FinishGrpcCall drops the reads.        *)
CallFailed ==
  /\ remote.call.status = "transient"
  /\ Becomes(Retry(remote))
  /\ UNCHANGED << worker, told, waiting, disk, server, faults >>

HandleWriteError ==
  /\ remote.call.status = "permanent"
  /\ remote.call.answers = << >> \/ Len(remote.call.requests) > 1
  /\ LET batch == Head(remote.pipeline)
         closed == [Close(remote, "Initial") EXCEPT !.pipeline = Tail(@)]
     IN /\ RemoveBatch(batch, "rejected")
        /\ NotifyUser(batch.id, "error")
        /\ Becomes(FillWritePipeline(closed, queue'[syncUser]))
  /\ UNCHANGED << worker, server, faults >>
-----------------------------------------------------------------------------
(* The server, and the network.                                            *)

Serve(call) ==
  /\ remote.call.status = "open" /\ remote.call.requests # << >>
  /\ remote' = [remote EXCEPT !.call = call]
  /\ UNCHANGED << worker, told, tokenRequests, waiting, disk, late, faults >>

Answered == [remote.call EXCEPT !.requests = Tail(@), !.answers = Append(@, Head(remote.call.requests))]

AcceptHandshake ==
  /\ Serve(Answered)
  /\ Head(remote.call.requests) = Hello
  /\ UNCHANGED server

Commit ==
  /\ Serve(Answered)
  /\ Head(remote.call.requests) # Hello
  /\ applied' = applied \cup {Head(remote.call.requests).reg}
  /\ UNCHANGED refused

Refuse ==
  /\ Serve([remote.call EXCEPT !.status = "permanent"])
  /\ Head(remote.call.requests) # Hello
  /\ refused' = refused \cup {Head(remote.call.requests).reg}
  /\ UNCHANGED applied

(* The connection breaks, or the server ends the call for a reason of its  *)
(* own.  Answers on their way are lost, or not.                            *)
Break ==
  /\ remote.call.status = "open"
  /\ faults < MaxFaults /\ faults' = faults + 1
  /\ remote' = [remote EXCEPT !.call.status = "transient"]
  /\ UNCHANGED << worker, told, tokenRequests, waiting, disk, server, late >>

LateCommit(r) ==
  /\ r \in late
  /\ late' = late \ {r}
  /\ applied' = applied \cup {r}
  /\ UNCHANGED << worker, told, tokenRequests, waiting, remote, disk, refused, faults >>
-----------------------------------------------------------------------------
FirebaseAuth == \/ \E r \in Registrations : CreateUser(r)
                \/ \E u \in Users : ChangeSession(u)

Token(i) == ReadUser(i) \/ \E ok \in BOOLEAN : AnswerToken(i, ok)

Main == \/ CredentialChange \/ TokenCallback \/ EmptyUidCrash
        \/ \E r \in Registrations : saveInfoToFirestore(r) \/ SetData(r)

Worker == \/ Initialize \/ HandleCredentialChange \/ WriteMutations
          \/ ResumeStartWithCredentials

Reads == HandshakeComplete \/ MutationResult \/ CallFailed \/ HandleWriteError

Server == AcceptHandshake \/ Commit \/ Refuse

Next ==
  \/ FirebaseAuth
  \/ \E i \in DOMAIN tokenRequests : Token(i)
  \/ Main \/ Worker \/ Reads \/ Server
  \/ BackoffElapsed \/ IdleTimeout \/ ConnectivityChanged
  \/ Break \/ (\E r \in Registrations : LateCommit(r))
  \/ Kill \/ KillAfterNotify

Spec == Init /\ [][Next]_vars

(* What the dispatch queues, the timers, FirebaseAuth, the server and the  *)
(* network do in the end.  The faults are bounded: the network comes back. *)
FairSpec ==
  /\ Spec
  /\ WF_vars(Main) /\ WF_vars(Worker) /\ WF_vars(Reads) /\ WF_vars(Server)
  /\ WF_vars(BackoffElapsed)
  /\ WF_vars(\E i \in DOMAIN tokenRequests : Token(i))
-----------------------------------------------------------------------------
(* The values the variables take.                                          *)
TokenRequest == [closes : Nat, changes : Nat, read : BOOLEAN, user : Users]

Blocks == [kind : {"notice"}, user : Users] \cup [kind : {"created", "saving"}, reg : Registrations]
            \cup [kind : {"token"}, ok : BOOLEAN, to : TokenRequest]

Tasks == [kind : {"init", "user"}, user : Users] \cup [kind : {"write"}, reg : Registrations]
           \cup [kind : {"resume"}, user : Users, ok : BOOLEAN, closes : Nat]

Messages == Batch \cup {Hello}

Calls == [user : Users, requests : Seq(Messages), answers : Seq(Messages),
          status : {"none", "open", "transient", "permanent"}]

Remotes == [pipeline : Seq(Batch), handshake : BOOLEAN, idle : BOOLEAN, closes : Nat,
            stream : {"Initial", "Starting", "Open", "Backoff", "Error"}, call : Calls]

TypeOK ==
  /\ accounts \subseteq Registrations /\ session \in accounts \cup {None}
  /\ signIns \in 0 .. MaxSignIns /\ faults \in 0 .. MaxFaults
  /\ mainQueue \in Seq(Blocks)
  /\ docUid \in [Registrations -> Users] /\ strayed \subseteq Registrations
  /\ told \in [Registrations -> {"none", "ok", "error"}]
  /\ running \in BOOLEAN /\ changes \in Nat
  /\ tokenRequests \in Seq(TokenRequest) /\ tasks \in Seq(Tasks)
  /\ syncUser \in Users /\ nextId \in Nat
  /\ waiting \in [Users -> SUBSET Batch]
  /\ remote \in Remotes /\ Len(remote.pipeline) <= MaxPendingWrites
  /\ queue \in [Users -> Seq(Batch)]
  /\ outcome \in [Registrations -> {"none", "acked", "rejected"}]
  /\ applied \cup refused \cup late \subseteq Registrations
-----------------------------------------------------------------------------
(* The write pipeline is a prefix of the mutation queue of the current     *)
(* user: HandleSuccessfulWrite and HandleRejectedWrite remove the batch at *)
(* its front, and LocalStore asserts that the batch is there.              *)
PipelineIsQueuePrefix == IsPrefix(remote.pipeline, queue[syncUser])

(* A response is taken for the answer to the batch at the front of the     *)
(* pipeline (OnWriteStreamMutationResult): the answers the client has not  *)
(* read and the requests the server has not answered are, in that order,   *)
(* the pipeline, or the handshake alone.                                   *)
AnswersCorrelate ==
  remote.stream = "Open" =>
    remote.call.answers \o remote.call.requests =
      IF remote.handshake THEN remote.pipeline ELSE << Hello >>

(* The idle timer runs only over an open stream with nothing to send: the  *)
(* timeout stops the stream gracefully, and OnWriteStreamClose asserts     *)
(* that it was not still needed.                                           *)
IdleOnlyWhenDone == remote.idle => remote.stream = "Open" /\ remote.pipeline = << >>

(* ResumeStartWithCredentials asserts that the stream is still Starting.   *)
(* A stream that is Starting waits for exactly one answer, and no answer   *)
(* that is still on its way passes the check of the close count otherwise. *)
LiveRequests ==
  Cardinality({i \in DOMAIN tokenRequests : tokenRequests[i].closes = remote.closes})
  + Cardinality({i \in DOMAIN mainQueue : mainQueue[i].kind = "token"
                                            /\ mainQueue[i].to.closes = remote.closes})
  + Cardinality({i \in DOMAIN tasks : tasks[i].kind = "resume"
                                        /\ tasks[i].closes = remote.closes})

OneLiveRequest == LiveRequests = IF remote.stream = "Starting" THEN 1 ELSE 0

(* A call carries the token of the user whose queue it sends: whatever the *)
(* order of sign-ins, renewals and restarts, no write is sent in the name  *)
(* of another user.                                                        *)
TokenOfQueueUser == remote.call # NoCall => remote.call.user = syncUser

(* The batch ids in the queues of all users are different and below the    *)
(* next one, although each queue hands them out by itself, and a callback  *)
(* waits for a batch that is still queued.                                 *)
CallbacksHaveBatches ==
  /\ \A u \in Users : /\ waiting[u] \subseteq ToSet(queue[u])
                      /\ \A i \in DOMAIN queue[u] : running /\ nextId # 0 => queue[u][i].id < nextId
  /\ \A u, v \in Users : \A i \in DOMAIN queue[u], j \in DOMAIN queue[v] :
       queue[u][i].id = queue[v][j].id => u = v /\ i = j

(* The document of a new user, stored under his own uid, is in the queue   *)
(* of that user, unless FirebaseAuth set another user between the two      *)
(* reads of currentUser in the call that made the client, and then it is   *)
(* never in his own (AuthManager.swift:72 and 82).                         *)
OwnDocumentInOwnQueue ==
  \A r \in Registrations, u \in Users :
    docUid[r] = r /\ (\E i \in DOMAIN queue[u] : queue[u][i].reg = r) =>
      (u = r <=> r \notin strayed)

(* Nothing is told twice, lost or acknowledged before it is applied.       *)
Promise == INSTANCE DurableWrite
             WITH Writes <- Registrations,
                  state <- [r \in Registrations |->
                              IF \E u \in Users : \E i \in DOMAIN queue[u] : queue[u][i].reg = r
                              THEN "pending" ELSE outcome[r]]

ImplementsDurableWrite == Promise!Spec

(* A setData whose user stays signed in is answered.                       *)
WriteAnswered ==
  \A r \in Registrations, u \in Users :
    (\E c \in waiting[u] : c.reg = r) ~> (told[r] # "none" \/ ~running \/ syncUser # u)
=============================================================================
