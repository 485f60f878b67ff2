------------------------- MODULE AuthManagerProofs -------------------------
(***************************************************************************)
(* Proofs about AuthManager, for every set of emails and of attempts: its  *)
(* types, its invariant and what follows from it, that an account left     *)
(* without its document stays without it, and that AuthManager implements  *)
(* AuthRequest.                                                            *)
(***************************************************************************)
EXTENDS AuthManagerRefinement, SequenceTheorems, TLAPS

(***************************************************************************)
(* The sink.                                                               *)
(***************************************************************************)

(* What a sink forwards stays a sequence of results, whatever the closure  *)
(* sends.                                                                  *)
LEMMA SinkTypes ==
  ASSUME NEW s \in Sinks, NEW r \in {"true", "false", "error"}
  PROVE  OnNext(s, r) \in Sinks /\ OnError(s) \in Sinks /\ Disposed(s) \in Sinks
<1>1. s.got \in Seq({"true", "false", "error"})
  BY DEF Sinks
<1>2. /\ Append(s.got, r) \in Seq({"true", "false", "error"})
      /\ Append(s.got, "error") \in Seq({"true", "false", "error"})
  BY <1>1
<1>3. QED
  BY <1>1, <1>2 DEF Sinks, OnNext, OnError, Disposed

(* The tail of the main queue is a queue, and so is the queue with one     *)
(* more block.                                                             *)
LEMMA QueueTypes ==
  ASSUME NEW q \in Seq(Blocks)
  PROVE  /\ q # << >> => Tail(q) \in Seq(Blocks)
         /\ \A a \in Attempts, ok \in BOOLEAN :
              Append(q, [att |-> a, ok |-> ok]) \in Seq(Blocks)
<1>1. q # << >> => Tail(q) \in Seq(Blocks)
  OBVIOUS
<1>2. ASSUME NEW a \in Attempts, NEW ok \in BOOLEAN
      PROVE  Append(q, [att |-> a, ok |-> ok]) \in Seq(Blocks)
  BY DEF Blocks
<1>3. QED
  BY <1>1, <1>2

(***************************************************************************)
(* Type correctness.                                                       *)
(***************************************************************************)

LEMMA InitTypeOK == Init => TypeOK
<1>1. NoSink \in Sinks
  BY DEF NoSink, Sinks
<1>2. QED
  BY <1>1 DEF Init, TypeOK, Stages

LEMMA NextTypeOK == TypeOK /\ [Next]_vars => TypeOK'
<1> SUFFICES ASSUME TypeOK, [Next]_vars
             PROVE  TypeOK'
  OBVIOUS
<1> USE DEF TypeOK, Stages, server, request
<1>1. ASSUME NEW a \in Attempts, NEW e \in Emails,
             performLogin(a, e) \/ performRegistration(a, e)
      PROVE  TypeOK'
  <2>1. PICK o \in {"login", "register"} : Subscribe(a, o, e)
    BY <1>1 DEF performLogin, performRegistration
  <2>2. [sink[a] EXCEPT !.open = TRUE] \in Sinks
    BY DEF Sinks
  <2>3. sink' \in [Attempts -> Sinks]
    BY <2>1, <2>2 DEF Subscribe
  <2>4. \A b \in Attempts : stage'[b] # "idle" => email'[b] \in Emails
    BY <2>1 DEF Subscribe
  <2>5. QED
    BY <2>1, <2>3, <2>4 DEF Subscribe
<1>2. ASSUME NEW a \in Attempts, Dispose(a)
      PROVE  TypeOK'
  BY <1>2, SinkTypes DEF Dispose
<1>3. ASSUME NEW a \in Attempts, AuthServer(a)
      PROVE  TypeOK'
  <2>1. CASE VerifyPassword(a)
    BY <2>1 DEF VerifyPassword
  <2>2. CASE SignUp(a)
    <3>0. email[a] \in Emails
      BY <2>2 DEF SignUp
    <3>1. stage' \in [Attempts -> Stages] /\ mainQueue' \in Seq(Blocks)
      BY <2>2, QueueTypes DEF SignUp, AnswerSignIn, Dispatch
    <3>2. \A b \in Attempts : stage'[b] = "idle" <=> stage[b] = "idle"
      BY <2>2 DEF SignUp, AnswerSignIn
    <3>3. accounts' \subseteq Emails
      BY <2>2, <3>0 DEF SignUp
    <3>4. created' \subseteq Attempts
      BY <2>2 DEF SignUp
    <3>5. QED
      BY <2>2, <3>1, <3>2, <3>3, <3>4 DEF SignUp
  <2>3. CASE Refuse(a)
    <3>1. stage' \in [Attempts -> Stages] /\ mainQueue' \in Seq(Blocks)
      BY <2>3, QueueTypes DEF Refuse, AnswerSignIn, Dispatch
    <3>2. \A b \in Attempts : stage'[b] = "idle" <=> stage[b] = "idle"
      BY <2>3 DEF Refuse, AnswerSignIn
    <3>3. QED
      BY <2>3, <3>1, <3>2 DEF Refuse
  <2>4. CASE RetrieveUser(a)
    <3>1. stage' \in [Attempts -> Stages] /\ mainQueue' \in Seq(Blocks)
      BY <2>4, QueueTypes DEF RetrieveUser, AnswerSignIn, Dispatch
    <3>2. \A b \in Attempts : stage'[b] = "idle" <=> stage[b] = "idle"
      BY <2>4 DEF RetrieveUser, AnswerSignIn
    <3>3. session' \in Emails \cup {None}
      BY <2>4 DEF RetrieveUser
    <3>4. QED
      BY <2>4, <3>1, <3>2, <3>3 DEF RetrieveUser
  <2>5. CASE RetrieveUserFails(a)
    <3>1. stage' \in [Attempts -> Stages] /\ mainQueue' \in Seq(Blocks)
      BY <2>5, QueueTypes DEF RetrieveUserFails, AnswerSignIn, Dispatch
    <3>2. \A b \in Attempts : stage'[b] = "idle" <=> stage[b] = "idle"
      BY <2>5 DEF RetrieveUserFails, AnswerSignIn
    <3>3. QED
      BY <2>5, <3>1, <3>2 DEF RetrieveUserFails
  <2>6. QED
    BY <1>3, <2>1, <2>2, <2>3, <2>4, <2>5 DEF AuthServer
<1>4. ASSUME Die, mainQueue' = << >>
      PROVE  TypeOK'
  <2>1. \A a \in Attempts : Disposed(sink[a]) \in Sinks
    BY SinkTypes
  <2>2. mainQueue' \in Seq(Blocks)
    BY <1>4
  <2>3. QED
    BY <1>4, <2>1, <2>2 DEF Die, InProcess
<1>5. ASSUME NEW a \in Attempts, MainQueue(a)
      PROVE  TypeOK'
  <2>1. ASSUME NEW ok \in BOOLEAN, LoginCallback(a, ok)
        PROVE  TypeOK'
    BY <2>1, SinkTypes, QueueTypes DEF LoginCallback, RunBlock
  <2>2. CASE CreateUserFailed(a)
    BY <2>2, SinkTypes, QueueTypes DEF CreateUserFailed, RunBlock
  <2>3. CASE saveInfoToFirestore(a)
    BY <2>3, QueueTypes DEF saveInfoToFirestore, RunBlock, SaveUid
  <2>4. CASE EmptyUidCrash(a)
    BY <2>4, <1>4 DEF EmptyUidCrash, Die
  <2>5. ASSUME NEW ok \in BOOLEAN, SetDataCallback(a, ok)
        PROVE  TypeOK'
    BY <2>5, SinkTypes, QueueTypes DEF SetDataCallback, RunBlock
  <2>6. QED
    BY <1>5, <2>1, <2>2, <2>3, <2>4, <2>5 DEF MainQueue
<1>6. ASSUME NEW a \in Attempts, Firestore(a)
      PROVE  TypeOK'
  <2>1. CASE CommitUnacknowledged(a)
    BY <2>1 DEF CommitUnacknowledged, WriteProfile
  <2>2. CASE Acknowledge(a)
    <3>1. stage' \in [Attempts -> Stages] /\ mainQueue' \in Seq(Blocks)
      BY <2>2, QueueTypes DEF Acknowledge, AnswerSave, Dispatch
    <3>2. \A b \in Attempts : stage'[b] = "idle" <=> stage[b] = "idle"
      BY <2>2 DEF Acknowledge, AnswerSave
    <3>3. QED
      BY <2>2, <3>1, <3>2 DEF Acknowledge, WriteProfile
  <2>3. CASE Reject(a)
    <3>1. stage' \in [Attempts -> Stages] /\ mainQueue' \in Seq(Blocks)
      BY <2>3, QueueTypes DEF Reject, AnswerSave, Dispatch
    <3>2. \A b \in Attempts : stage'[b] = "idle" <=> stage[b] = "idle"
      BY <2>3 DEF Reject, AnswerSave
    <3>3. QED
      BY <2>3, <3>1, <3>2 DEF Reject
  <2>4. QED
    BY <1>6, <2>1, <2>2, <2>3 DEF Firestore
<1>7. CASE doLogout
  BY <1>7 DEF doLogout
<1>8. CASE Kill
  BY <1>8, <1>4 DEF Kill, Die
<1>9. CASE UNCHANGED vars
  BY <1>9 DEF vars
<1>10. QED
  BY <1>1, <1>2, <1>3, <1>5, <1>6, <1>7, <1>8, <1>9 DEF Next

(* Every behaviour keeps every variable in its type.                       *)
THEOREM TypeCorrect == Spec => []TypeOK
<1>1. QED
  BY InitTypeOK, NextTypeOK, PTL DEF Spec

(***************************************************************************)
(* The main queue.                                                         *)
(***************************************************************************)

BlockStages == {"signInBlock", "saveBlock"}

(* The three conjuncts of IInv that speak of the main queue.               *)
QueuePart == QueueInv /\ BlockInv /\ SessionFromWaitingSignIn

(* The queue with one more block is the queue followed by that block.      *)
LEMMA AppendedQueue ==
  ASSUME NEW q \in Seq(Blocks), NEW b \in Blocks
  PROVE  /\ Len(q) \in Nat
         /\ Len(Append(q, b)) = Len(q) + 1
         /\ \A i \in 1 .. Len(q) : Append(q, b)[i] = q[i] /\ q[i] \in Blocks
         /\ Append(q, b)[Len(q) + 1] = b
  OBVIOUS

(* The queue without its head is the queue moved up by one.                *)
LEMMA ShortenedQueue ==
  ASSUME NEW q \in Seq(Blocks), q # << >>
  PROVE  /\ Len(q) \in Nat \ {0}
         /\ Head(q) = q[1]
         /\ Len(Tail(q)) = Len(q) - 1
         /\ \A i \in 1 .. Len(q) : q[i] \in Blocks
         /\ \A i \in 1 .. Len(q) - 1 : Tail(q)[i] = q[i + 1]
  BY HeadTailProperties, EmptySeq

(* A step that leaves the queue alone keeps what is known of it, when the  *)
(* attempts that wait on it keep their stage, their email and their save.  *)
LEMMA QueueKept ==
  ASSUME TypeOK, IInv, mainQueue' = mainQueue,
         accounts \subseteq accounts',
         session' \in {session, None},
         \A a \in Attempts : stage[a] \in BlockStages =>
            /\ stage'[a] = stage[a]
            /\ email'[a] = email[a]
            /\ save'[a] = save[a]
  PROVE  QueuePart'
<1>1. \A i \in Positions : mainQueue[i] \in Blocks
  BY DEF TypeOK, Positions
<1>2. \A i \in Positions : mainQueue[i].att \in Attempts
                          /\ stage[mainQueue[i].att] \in BlockStages
  BY <1>1 DEF IInv, QueueInv, BlockStages, Blocks
<1>3. Positions' = Positions /\ Len(mainQueue') = Len(mainQueue)
  BY DEF Positions
<1>4. \A i \in Positions : IsSignIn(mainQueue[i])' <=> IsSignIn(mainQueue[i])
  BY <1>2 DEF IsSignIn
<1>5. QueueInv'
  BY <1>2, <1>3 DEF IInv, QueueInv, BlockStages
<1>6. BlockInv'
  BY <1>2, <1>3, <1>4 DEF IInv, BlockInv
<1>7. SessionFromWaitingSignIn'
  <2> SUFFICES ASSUME NEW i \in Positions, IsSignIn(mainQueue[i]), session # None,
                      session' = session
               PROVE  \E j \in i .. Len(mainQueue) :
                        IsSignIn(mainQueue[j])' /\ email'[mainQueue[j].att] = session
    BY <1>3, <1>4 DEF SessionFromWaitingSignIn
  <2>1. PICK j \in i .. Len(mainQueue) :
          IsSignIn(mainQueue[j]) /\ email[mainQueue[j].att] = session
    BY DEF IInv, SessionFromWaitingSignIn
  <2>2. j \in Positions
    BY DEF Positions, TypeOK
  <2>3. QED
    BY <1>2, <1>4, <2>1, <2>2
<1>8. QED
  BY <1>5, <1>6, <1>7 DEF QueuePart

(* A step that answers an attempt puts its only block behind the others.   *)
LEMMA QueueLonger ==
  ASSUME TypeOK, IInv,
         NEW a \in Attempts, NEW ok \in BOOLEAN, NEW st \in BlockStages,
         stage[a] \notin BlockStages,
         stage' = [stage EXCEPT ![a] = st],
         Dispatch(a, ok),
         email' = email,
         accounts \subseteq accounts',
         \A b \in Attempts : b # a => save'[b] = save[b],
         st = "signInBlock" /\ ok => session' = email[a] /\ email[a] \in accounts',
         ~(st = "signInBlock" /\ ok) => session' = session,
         st = "saveBlock" /\ ok => save'[a] = "acked"
  PROVE  QueuePart'
<1> DEFINE n == Len(mainQueue)
           blk == [att |-> a, ok |-> ok]
<1>1. blk \in Blocks /\ mainQueue \in Seq(Blocks) /\ mainQueue' = Append(mainQueue, blk)
  BY DEF Blocks, TypeOK, Dispatch
<1>2. /\ n \in Nat
      /\ Positions = 1 .. n
      /\ Len(mainQueue') = n + 1
      /\ Positions' = 1 .. n + 1
      /\ \A i \in 1 .. n : mainQueue'[i] = mainQueue[i] /\ mainQueue[i] \in Blocks
      /\ mainQueue'[n + 1] = blk
  BY <1>1, AppendedQueue DEF Positions
<1> HIDE DEF n, blk
<1>3. \A i \in 1 .. n : /\ mainQueue[i].att \in Attempts \ {a}
                        /\ stage[mainQueue[i].att] \in BlockStages
                        /\ stage'[mainQueue[i].att] = stage[mainQueue[i].att]
  BY <1>2 DEF IInv, QueueInv, BlockStages, Blocks, TypeOK
<1>4. blk.att = a /\ blk.ok = ok /\ stage'[a] = st
  BY DEF blk, TypeOK
<1>5. \A i \in 1 .. n : IsSignIn(mainQueue[i])' <=> IsSignIn(mainQueue[i])
  BY <1>2, <1>3 DEF IsSignIn
<1>6. \A i \in {n + 1} : IsSignIn(mainQueue[i])' <=> ok /\ st = "signInBlock"
  BY <1>2, <1>4 DEF IsSignIn
<1>7. QueueInv'
  BY <1>2, <1>3, <1>4 DEF IInv, QueueInv, BlockStages
<1>8. BlockInv'
  <2> SUFFICES ASSUME NEW i \in 1 .. n + 1, mainQueue'[i].ok
               PROVE  /\ IsSignIn(mainQueue[i])' => email[mainQueue'[i].att] \in accounts'
                      /\ stage'[mainQueue'[i].att] = "saveBlock"
                           => save'[mainQueue'[i].att] = "acked"
    BY <1>2 DEF BlockInv
  <2>1. CASE i \in 1 .. n
    BY <2>1, <1>2, <1>3, <1>5 DEF IInv, BlockInv
  <2>2. CASE i = n + 1
    BY <2>2, <1>2, <1>4, <1>6
  <2>3. QED
    BY <2>1, <2>2, <1>2
<1>9. SessionFromWaitingSignIn'
  <2> SUFFICES ASSUME NEW i \in 1 .. n + 1, IsSignIn(mainQueue[i])', session' # None
               PROVE  \E j \in i .. n + 1 :
                        IsSignIn(mainQueue[j])' /\ email[mainQueue'[j].att] = session'
    BY <1>2 DEF SessionFromWaitingSignIn
  <2>1. CASE ok /\ st = "signInBlock"
    <3>1. PICK j \in i .. n + 1 : j = n + 1
      BY <1>2
    <3>2. QED
      BY <2>1, <3>1, <1>2, <1>4, <1>6
  <2>2. CASE ~(ok /\ st = "signInBlock")
    <3>1. i \in 1 .. n /\ session' = session
      BY <2>2, <1>2, <1>6
    <3>2. PICK j \in i .. n : IsSignIn(mainQueue[j]) /\ email[mainQueue[j].att] = session
      BY <3>1, <1>2, <1>5 DEF IInv, SessionFromWaitingSignIn, n
    <3>3. j \in 1 .. n /\ j \in i .. n + 1
      BY <3>1, <1>2
    <3>4. QED
      BY <3>1, <3>2, <3>3, <1>2, <1>5
  <2>3. QED
    BY <2>1, <2>2
<1>10. QED
  BY <1>7, <1>8, <1>9 DEF QueuePart

(* A step that runs the block at the head leaves the rest in order.        *)
LEMMA QueueShorter ==
  ASSUME TypeOK, IInv,
         NEW a \in Attempts, NEW ok \in BOOLEAN, NEW st \in BlockStages,
         NEW next \in Stages \ BlockStages,
         RunBlock(a, st, ok),
         stage' = [stage EXCEPT ![a] = next],
         UNCHANGED << email, accounts, session >>,
         \A b \in Attempts : b # a => save'[b] = save[b]
  PROVE  QueuePart'
<1> DEFINE n == Len(mainQueue)
<1>1. mainQueue \in Seq(Blocks) /\ mainQueue # << >> /\ mainQueue' = Tail(mainQueue)
      /\ Head(mainQueue) = [att |-> a, ok |-> ok]
  BY DEF TypeOK, RunBlock
<1>2. /\ n \in Nat \ {0}
      /\ Positions = 1 .. n
      /\ Len(mainQueue') = n - 1
      /\ Positions' = 1 .. n - 1
      /\ mainQueue[1].att = a
      /\ \A i \in 1 .. n : mainQueue[i] \in Blocks
      /\ \A i \in 1 .. n - 1 : mainQueue'[i] = mainQueue[i + 1]
  BY <1>1, ShortenedQueue DEF Positions
<1> HIDE DEF n
<1>3. \A i \in 1 .. n - 1 : i + 1 \in 1 .. n /\ i + 1 # 1
  BY <1>2
<1>4. \A i \in 1 .. n - 1 : /\ mainQueue'[i].att \in Attempts \ {a}
                            /\ stage[mainQueue'[i].att] \in BlockStages
                            /\ stage'[mainQueue'[i].att] = stage[mainQueue'[i].att]
  <2> SUFFICES ASSUME NEW i \in 1 .. n - 1
               PROVE  /\ mainQueue[i + 1].att \in Attempts \ {a}
                      /\ stage[mainQueue[i + 1].att] \in BlockStages
                      /\ stage'[mainQueue[i + 1].att] = stage[mainQueue[i + 1].att]
    BY <1>2
  <2>1. i + 1 \in Positions /\ 1 \in Positions /\ i + 1 # 1
    BY <1>2, <1>3
  <2>2. mainQueue[i + 1].att \in Attempts
    BY <1>2, <1>3 DEF Blocks
  <2>3. mainQueue[i + 1].att # a
    BY <1>2, <2>1 DEF IInv, QueueInv
  <2>4. stage[mainQueue[i + 1].att] \in BlockStages
    BY <2>1 DEF IInv, QueueInv, BlockStages
  <2>5. QED
    BY <2>2, <2>3, <2>4 DEF TypeOK
<1>5. \A i \in 1 .. n - 1 : IsSignIn(mainQueue[i])' <=> IsSignIn(mainQueue[i + 1])
  BY <1>2, <1>4 DEF IsSignIn
<1>6. QueueInv'
  <2>1. \A i \in Positions' : stage'[mainQueue'[i].att] \in {"signInBlock", "saveBlock"}
    BY <1>2, <1>4 DEF BlockStages
  <2>2. ASSUME NEW i \in 1 .. n - 1, NEW j \in 1 .. n - 1,
               mainQueue[i + 1].att = mainQueue[j + 1].att
        PROVE  i = j
    BY <2>2, <1>2, <1>3 DEF IInv, QueueInv
  <2>3. QED
    BY <2>1, <2>2, <1>2 DEF QueueInv
<1>7. BlockInv'
  BY <1>2, <1>3, <1>4, <1>5 DEF IInv, BlockInv
<1>8. SessionFromWaitingSignIn'
  <2> SUFFICES ASSUME NEW i \in 1 .. n - 1, IsSignIn(mainQueue[i])', session # None
               PROVE  \E j \in i .. n - 1 :
                        IsSignIn(mainQueue[j])' /\ email[mainQueue'[j].att] = session
    BY <1>2 DEF SessionFromWaitingSignIn
  <2>1. PICK k \in i + 1 .. n :
          IsSignIn(mainQueue[k]) /\ email[mainQueue[k].att] = session
    BY <1>2, <1>3, <1>5 DEF IInv, SessionFromWaitingSignIn, n
  <2>2. k - 1 \in i .. n - 1 /\ k - 1 \in 1 .. n - 1 /\ (k - 1) + 1 = k
    BY <1>2
  <2>3. QED
    BY <2>1, <2>2, <1>2, <1>5
<1>9. QED
  BY <1>6, <1>7, <1>8 DEF QueuePart

(***************************************************************************)
(* The inductive invariant.                                                *)
(***************************************************************************)

(* A sink that has forwarded nothing forwards at most one event, even when *)
(* the closure sends onError and then onNext.                              *)
LEMMA SinkEvents ==
  ASSUME NEW s \in Sinks, NEW r \in {"true", "false"}
  PROVE  /\ Disposed(s).got = s.got
         /\ [s EXCEPT !.open = TRUE].got = s.got
         /\ Len(<< >>) = 0 /\ Len(<< r >>) = 1 /\ Len(<< "error" >>) = 1
         /\ << >> # << "true" >> /\ << "error" >> # << "true" >>
         /\ << "false" >> # << "true" >>
         /\ s.got = << >> => /\ OnNext(s, r).got \in {<< >>, << r >>}
                             /\ OnNext(OnError(s), "true").got \in {<< >>, << "error" >>}
<1>1. s.got = << >> => Append(s.got, r) = << r >> /\ Append(s.got, "error") = << "error" >>
  OBVIOUS
<1>2. QED
  BY <1>1 DEF Sinks, Disposed, OnNext, OnError

LEMMA InitIInv == Init => IInv
<1> SUFFICES ASSUME Init
             PROVE  IInv
  OBVIOUS
<1>1. Positions = {}
  BY DEF Init, Positions
<1>2. QueueInv /\ BlockInv /\ SessionFromWaitingSignIn
  BY <1>1 DEF QueueInv, BlockInv, SessionFromWaitingSignIn
<1>3. ReportInv /\ SaveInv
  BY DEF Init, ReportInv, SaveInv, NoSink
<1>4. QED
  BY <1>2, <1>3 DEF IInv

(* Subscribing and disposing.                                              *)
LEMMA SubscriberIInv ==
  ASSUME TypeOK, IInv, NEW a \in Attempts,
         \/ Dispose(a)
         \/ \E e \in Emails : performLogin(a, e) \/ performRegistration(a, e)
  PROVE  IInv'
<1> USE DEF server, request
<1>1. \A b \in Attempts : sink'[b].got = sink[b].got
  <2>1. sink[a] \in Sinks
    BY DEF TypeOK
  <2>2. QED
    BY <2>1, SinkEvents
       DEF TypeOK, Dispose, performLogin, performRegistration, Subscribe
<1>2. CASE Dispose(a)
  <2>1. QueuePart'
    BY <1>2, QueueKept DEF Dispose
  <2>2. ReportInv' /\ SaveInv'
    BY <1>1, <1>2 DEF Dispose, IInv, ReportInv, SaveInv
  <2>3. QED
    BY <2>1, <2>2 DEF IInv, QueuePart
<1>3. ASSUME NEW e \in Emails, NEW o \in {"login", "register"}, Subscribe(a, o, e)
      PROVE  IInv'
  <2>1. QueuePart'
    BY <1>3, QueueKept DEF Subscribe, BlockStages, TypeOK
  <2>2. ReportInv'
    BY <1>1, <1>3 DEF Subscribe, IInv, ReportInv, InProcess, TypeOK
  <2>3. SaveInv'
    <3>1. sink[a].got = << >> /\ << >> # << "true" >> /\ save[a] = "none"
      BY <1>3, SinkEvents DEF Subscribe, IInv, ReportInv, SaveInv, TypeOK
    <3>2. QED
      BY <1>1, <1>3, <3>1 DEF Subscribe, IInv, SaveInv, TypeOK
  <2>4. QED
    BY <2>1, <2>2, <2>3 DEF IInv, QueuePart
<1>4. QED
  BY <1>2, <1>3 DEF performLogin, performRegistration

(* The Auth server and the work queue.                                     *)
LEMMA AuthServerIInv ==
  ASSUME TypeOK, IInv, NEW a \in Attempts, AuthServer(a)
  PROVE  IInv'
<1> USE DEF server, request
<1>1. UNCHANGED << sink, op, email, docUid, save, profiles >> /\ accounts \subseteq accounts'
  BY DEF AuthServer, VerifyPassword, SignUp, Refuse, RetrieveUser, RetrieveUserFails
<1>2. CASE /\ mainQueue' = mainQueue /\ session' = session
           /\ \/ stage[a] = "asked" /\ stage' = [stage EXCEPT ![a] = "granted"]
                                    /\ email[a] \in accounts'
              \/ stage[a] = "detached" /\ stage' = [stage EXCEPT ![a] = "lost"]
  <2>1. QueuePart'
    BY <1>1, <1>2, QueueKept DEF BlockStages, TypeOK
  <2>2. ReportInv'
    BY <1>1, <1>2 DEF IInv, ReportInv, InProcess, TypeOK
  <2>3. SaveInv'
    BY <1>1, <1>2 DEF IInv, SaveInv, TypeOK
  <2>4. QED
    BY <2>1, <2>2, <2>3 DEF IInv, QueuePart
<1>3. ASSUME NEW ok \in BOOLEAN, stage[a] \in {"asked", "granted"}, AnswerSignIn(a, ok),
             ok => session' = email[a] /\ email[a] \in accounts',
             ~ok => session' = session
      PROVE  IInv'
  <2>1. QueuePart'
    BY <1>1, <1>3, QueueLonger DEF BlockStages, AnswerSignIn
  <2>2. ReportInv'
    BY <1>1, <1>3 DEF IInv, ReportInv, InProcess, TypeOK, AnswerSignIn
  <2>3. SaveInv'
    BY <1>1, <1>3 DEF IInv, SaveInv, TypeOK, AnswerSignIn
  <2>4. QED
    BY <2>1, <2>2, <2>3 DEF IInv, QueuePart
<1>4. CASE VerifyPassword(a)
  BY <1>4, <1>2 DEF VerifyPassword
<1>5. CASE SignUp(a)
  BY <1>5, <1>2, <1>3 DEF SignUp
<1>6. CASE Refuse(a)
  BY <1>6, <1>3 DEF Refuse
<1>7. CASE RetrieveUser(a)
  BY <1>7, <1>3 DEF RetrieveUser, IInv, SaveInv
<1>8. CASE RetrieveUserFails(a)
  BY <1>8, <1>3 DEF RetrieveUserFails
<1>9. QED
  BY <1>4, <1>5, <1>6, <1>7, <1>8 DEF AuthServer

(* The death of the process.                                               *)
LEMMA DieIInv ==
  ASSUME TypeOK, IInv, Die
  PROVE  IInv'
<1> USE DEF server, request
<1>1. Positions' = {}
  BY DEF Die, Positions
<1>2. QueuePart'
  BY <1>1 DEF QueuePart, QueueInv, BlockInv, SessionFromWaitingSignIn
<1>3. \A b \in Attempts : /\ sink'[b].got = sink[b].got
                          /\ stage'[b] \in InProcess \cup {"idle"} => stage'[b] = stage[b]
                          /\ stage'[b] \notin InProcess
  <2> SUFFICES ASSUME NEW b \in Attempts
               PROVE  /\ sink'[b].got = sink[b].got
                      /\ stage'[b] \in InProcess \cup {"idle"} => stage'[b] = stage[b]
                      /\ stage'[b] \notin InProcess
    OBVIOUS
  <2>1. sink'[b] = Disposed(sink[b]) /\ sink[b] \in Sinks
    BY DEF Die, TypeOK
  <2>2. sink'[b].got = sink[b].got
    BY <2>1 DEF Disposed, Sinks
  <2>3. stage'[b] = IF stage[b] \notin InProcess THEN stage[b]
                    ELSE IF stage[b] = "asked" /\ op[b] = "register" THEN "detached"
                    ELSE "lost"
    BY DEF Die
  <2>4. QED
    BY <2>2, <2>3 DEF InProcess
<1>4. ReportInv'
  <2> SUFFICES ASSUME NEW b \in Attempts
               PROVE  /\ Len(sink'[b].got) <= 1
                      /\ stage'[b] \in InProcess \cup {"idle"} => sink'[b].got = << >>
    BY DEF ReportInv, InProcess
  <2>1. /\ Len(sink[b].got) <= 1
        /\ stage[b] \in InProcess \cup {"idle"} => sink[b].got = << >>
    BY DEF IInv, ReportInv
  <2>2. QED
    BY <1>3, <2>1
<1>5. SaveInv'
  BY <1>3 DEF IInv, SaveInv, Die, InProcess
<1>6. QED
  BY <1>2, <1>4, <1>5 DEF IInv, QueuePart

(* The blocks of the main queue.                                           *)
LEMMA MainQueueIInv ==
  ASSUME TypeOK, IInv, NEW a \in Attempts, MainQueue(a)
  PROVE  IInv'
<1> USE DEF server, request
<1>1. ASSUME NEW ok \in BOOLEAN, NEW st \in BlockStages, RunBlock(a, st, ok)
      PROVE  /\ sink[a].got = << >> /\ sink[a] \in Sinks
             /\ stage[a] = st
             /\ 1 \in Positions /\ mainQueue[1] = [att |-> a, ok |-> ok]
  <2>1. mainQueue \in Seq(Blocks) /\ mainQueue # << >> /\ stage[a] = st
        /\ Head(mainQueue) = [att |-> a, ok |-> ok]
    BY <1>1 DEF RunBlock, TypeOK
  <2>2. 1 \in Positions /\ mainQueue[1] = [att |-> a, ok |-> ok]
    BY <2>1, ShortenedQueue DEF Positions
  <2>3. QED
    BY <2>1, <2>2 DEF IInv, ReportInv, InProcess, BlockStages, TypeOK
<1>2. ASSUME NEW ok \in BOOLEAN, NEW st \in BlockStages, RunBlock(a, st, ok),
             NEW r \in {"true", "false"}, NEW s,
             s \in {OnNext(sink[a], r), OnNext(OnError(sink[a]), "true")},
             r = "true" /\ op[a] = "register" => save[a] = "acked",
             op[a] # "register" \/ s = OnNext(sink[a], r),
             stage' = [stage EXCEPT ![a] = "done"],
             sink' = [sink EXCEPT ![a] = s],
             UNCHANGED << server, profiles, session, request, docUid, save >>
      PROVE  IInv'
  <2>1. QueuePart'
    BY <1>2, QueueShorter DEF BlockStages, Stages
  <2>2. sink[a].got = << >> /\ sink[a] \in Sinks
    BY <1>1, <1>2
  <2>3. s.got \in {<< >>, << r >>} \/ s.got \in {<< >>, << "error" >>}
    BY <1>2, <2>2, SinkEvents
  <2>4. Len(s.got) <= 1
    <3>1. Len(<< >>) = 0 /\ Len(<< r >>) = 1 /\ Len(<< "error" >>) = 1
      OBVIOUS
    <3>2. Len(s.got) \in {0, 1}
      BY ONLY <2>3, <3>1
    <3>3. \A k \in {0, 1} : k <= 1
      OBVIOUS
    <3>4. QED
      BY ONLY <3>2, <3>3
  <2>5. op[a] = "register" /\ s.got = << "true" >> => save[a] = "acked"
    <3>1. SUFFICES ASSUME op[a] = "register", s.got = << "true" >>, r = "false"
                   PROVE  FALSE
      BY <1>2
    <3>2. s.got \in {<< >>, << "false" >>}
      BY <1>2, <2>2, <3>1, SinkEvents
    <3>3. << >> # << "true" >> /\ << "false" >> # << "true" >>
      OBVIOUS
    <3>4. QED
      BY ONLY <3>1, <3>2, <3>3
  <2>6. ReportInv'
    BY <1>2, <2>4 DEF IInv, ReportInv, InProcess, TypeOK
  <2>7. SaveInv'
    BY <1>2, <2>5 DEF IInv, SaveInv, TypeOK
  <2>8. QED
    BY <2>1, <2>6, <2>7 DEF IInv, QueuePart
<1>3. ASSUME NEW ok \in BOOLEAN, LoginCallback(a, ok)
      PROVE  IInv'
  <2>1. sink' = [sink EXCEPT ![a] = IF ok THEN OnNext(sink[a], "true")
                                          ELSE OnNext(OnError(sink[a]), "true")]
    BY <1>3 DEF LoginCallback, TypeOK
  <2>2. QED
    BY <1>3, <2>1, <1>2 DEF LoginCallback, BlockStages
<1>4. CASE CreateUserFailed(a)
  BY <1>4, <1>2 DEF CreateUserFailed, BlockStages, TypeOK
<1>5. ASSUME NEW ok \in BOOLEAN, SetDataCallback(a, ok)
      PROVE  IInv'
  <2>1. ok => save[a] = "acked"
    <3>1. RunBlock(a, "saveBlock", ok) /\ "saveBlock" \in BlockStages
      BY <1>5 DEF SetDataCallback, BlockStages
    <3>2. stage[a] = "saveBlock" /\ 1 \in Positions /\ mainQueue[1] = [att |-> a, ok |-> ok]
      BY <3>1, <1>1
    <3>3. mainQueue[1].ok => save[mainQueue[1].att] = "acked"
      BY <3>2 DEF IInv, BlockInv
    <3>4. QED
      BY <3>2, <3>3
  <2>2. sink' = [sink EXCEPT ![a] = OnNext(sink[a], IF ok THEN "true" ELSE "false")]
    BY <1>5 DEF SetDataCallback, TypeOK
  <2>3. QED
    BY <1>5, <2>1, <2>2, <1>2 DEF SetDataCallback, BlockStages
<1>6. CASE saveInfoToFirestore(a)
  <2>1. QueuePart'
    BY <1>6, QueueShorter DEF saveInfoToFirestore, BlockStages, Stages, TypeOK
  <2>2. ReportInv'
    BY <1>6, <1>1 DEF saveInfoToFirestore, IInv, ReportInv, InProcess, TypeOK, BlockStages
  <2>3. email[a] \in accounts /\ sink[a].got # << "true" >>
    <3>1. RunBlock(a, "signInBlock", TRUE) /\ "signInBlock" \in BlockStages
      BY <1>6 DEF saveInfoToFirestore, BlockStages
    <3>2. /\ stage[a] = "signInBlock" /\ 1 \in Positions
          /\ mainQueue[1] = [att |-> a, ok |-> TRUE]
          /\ sink[a].got = << >> /\ sink[a] \in Sinks
      BY <3>1, <1>1
    <3>3. email[a] \in accounts
      BY <3>2 DEF IInv, BlockInv, IsSignIn
    <3>4. << >> # << "true" >>
      OBVIOUS
    <3>5. QED
      BY <3>2, <3>3, <3>4
  <2>4. SaveInv'
    BY <1>6, <2>3 DEF saveInfoToFirestore, IInv, SaveInv, TypeOK
  <2>5. QED
    BY <2>1, <2>2, <2>4 DEF IInv, QueuePart
<1>7. CASE EmptyUidCrash(a)
  BY <1>7, DieIInv DEF EmptyUidCrash
<1>8. QED
  BY <1>3, <1>4, <1>5, <1>6, <1>7 DEF MainQueue

(* The Firestore server.                                                   *)
LEMMA FirestoreIInv ==
  ASSUME TypeOK, IInv, NEW a \in Attempts, Firestore(a)
  PROVE  IInv'
<1> USE DEF server, request
<1>1. /\ save[a] = "pending" /\ docUid[a] # None /\ email[a] # None
      /\ UNCHANGED << server, session, request, sink, docUid >>
      /\ profiles' = profiles \/ WriteProfile(a)
  BY NoneAssumption
     DEF Firestore, CommitUnacknowledged, Acknowledge, Reject, IInv, SaveInv, TypeOK
<1>2. \A b \in Attempts : docUid[b] # None /\ profiles[docUid[b]] # None
                         => profiles'[docUid[b]] # None
  BY <1>1 DEF WriteProfile, TypeOK
<1>3. ASSUME NEW ok \in BOOLEAN,
             save' = [save EXCEPT ![a] = IF ok THEN "acked" ELSE "rejected"],
             AnswerSave(a, ok)
      PROVE  QueuePart' /\ ReportInv'
  <2>1. CASE stage[a] = "saving"
    <3>1. QueuePart'
      BY <2>1, <1>1, <1>3, QueueLonger DEF AnswerSave, BlockStages, TypeOK
    <3>2. ReportInv'
      BY <2>1, <1>1, <1>3 DEF AnswerSave, IInv, ReportInv, InProcess, TypeOK
    <3>3. QED
      BY <3>1, <3>2
  <2>2. CASE stage[a] # "saving"
    <3>1. stage' = stage /\ mainQueue' = mainQueue
      BY <2>2, <1>3 DEF AnswerSave
    <3>2. \A i \in Positions : ~ (mainQueue[i].att = a /\ mainQueue[i].ok
                                   /\ stage[a] = "saveBlock")
      BY <1>1 DEF IInv, BlockInv
    <3>3. QueueInv' /\ SessionFromWaitingSignIn'
      <4>1. UNCHANGED << stage, mainQueue, email, session >>
        BY <3>1, <1>1
      <4>2. Positions' = Positions
        BY <4>1 DEF Positions
      <4>3. QueueInv'
        BY <4>1, <4>2 DEF IInv, QueueInv
      <4>4. SessionFromWaitingSignIn'
        BY <4>1, <4>2 DEF IInv, SessionFromWaitingSignIn, IsSignIn
      <4>5. QED
        BY <4>3, <4>4
    <3>4. BlockInv'
      <4>1. \A i \in Positions : mainQueue[i].att \in Attempts
        <5>1. \A i \in Positions : mainQueue[i] \in Blocks
          BY DEF Positions, TypeOK
        <5>2. QED
          BY <5>1 DEF Blocks
      <4>2. UNCHANGED << stage, mainQueue, email, accounts >>
        BY <3>1, <1>1
      <4>3. Positions' = Positions
        BY <4>2 DEF Positions
      <4>4. ASSUME NEW i \in Positions, mainQueue[i].ok,
                   stage[mainQueue[i].att] = "saveBlock"
            PROVE  save'[mainQueue[i].att] = "acked"
        <5>1. save[mainQueue[i].att] = "acked" /\ mainQueue[i].att # a
          BY <4>4, <1>1 DEF IInv, BlockInv
        <5>2. QED
          BY <4>1, <5>1, <1>3 DEF TypeOK
      <4>5. \A i \in Positions : IsSignIn(mainQueue[i])' <=> IsSignIn(mainQueue[i])
        BY <4>2 DEF IsSignIn
      <4>6. QED
        BY <4>2, <4>3, <4>4, <4>5 DEF IInv, BlockInv
    <3>5. ReportInv'
      BY <3>1, <1>1 DEF IInv, ReportInv
    <3>6. QED
      BY <3>3, <3>4, <3>5 DEF QueuePart
  <2>3. QED
    BY <2>1, <2>2
<1>4. \A b \in Attempts : stage'[b] \in {"idle", "granted"} => stage'[b] = stage[b]
  BY DEF Firestore, CommitUnacknowledged, Acknowledge, Reject, AnswerSave, TypeOK
<1>5. CASE CommitUnacknowledged(a)
  <2>1. QueuePart'
    BY <1>5, QueueKept DEF CommitUnacknowledged
  <2>2. ReportInv' /\ SaveInv'
    BY <1>5, <1>2 DEF CommitUnacknowledged, IInv, ReportInv, SaveInv
  <2>3. QED
    BY <2>1, <2>2 DEF IInv, QueuePart
<1>6. CASE Acknowledge(a)
  <2>1. QueuePart' /\ ReportInv'
    BY <1>6, <1>3 DEF Acknowledge
  <2>2. profiles'[docUid[a]] # None
    BY <1>1, <1>6 DEF Acknowledge, WriteProfile, TypeOK
  <2>3. SaveInv'
    BY <1>1, <1>2, <1>4, <1>6, <2>2 DEF Acknowledge, IInv, SaveInv, TypeOK
  <2>4. QED
    BY <2>1, <2>3 DEF IInv, QueuePart
<1>7. CASE Reject(a)
  <2>1. QueuePart' /\ ReportInv'
    BY <1>7, <1>3 DEF Reject
  <2>2. SaveInv'
    BY <1>1, <1>4, <1>7 DEF Reject, IInv, SaveInv, TypeOK
  <2>3. QED
    BY <2>1, <2>2 DEF IInv, QueuePart
<1>8. QED
  BY <1>5, <1>6, <1>7 DEF Firestore

LEMMA NextIInv == TypeOK /\ IInv /\ [Next]_vars => IInv'
<1> SUFFICES ASSUME TypeOK, IInv, [Next]_vars
             PROVE  IInv'
  OBVIOUS
<1>1. ASSUME NEW a \in Attempts, AuthServer(a) \/ MainQueue(a) \/ Firestore(a)
      PROVE  IInv'
  BY <1>1, AuthServerIInv, MainQueueIInv, FirestoreIInv
<1>2. ASSUME NEW a \in Attempts,
             \/ Dispose(a)
             \/ \E e \in Emails : performLogin(a, e) \/ performRegistration(a, e)
      PROVE  IInv'
  BY <1>2, SubscriberIInv
<1>3. CASE doLogout \/ UNCHANGED vars
  <2>1. /\ UNCHANGED << accounts, profiles, op, email, stage, sink, docUid, save, mainQueue >>
        /\ session' \in {session, None}
    BY <1>3 DEF doLogout, vars, server, request
  <2>2. QueuePart'
    BY <2>1, QueueKept
  <2>3. ReportInv' /\ SaveInv'
    BY <2>1 DEF IInv, ReportInv, SaveInv
  <2>4. QED
    BY <2>2, <2>3 DEF IInv, QueuePart
<1>4. CASE Kill
  BY <1>4, DieIInv DEF Kill
<1>5. QED
  BY <1>1, <1>2, <1>3, <1>4 DEF Next

(* The conjunction the safety properties rest on holds in every behaviour. *)
THEOREM IInvHolds == Spec => []IInv
<1>1. QED
  BY InitIInv, NextIInv, TypeCorrect, PTL DEF Spec

(* An attempt never reports twice, although performLogin sends onNext(true) *)
(* after onError.                                                          *)
THEOREM OneResult == Spec => []AtMostOneResult
<1>1. IInv => AtMostOneResult
  BY DEF IInv, ReportInv, AtMostOneResult
<1>2. QED
  BY <1>1, IInvHolds, PTL

(* While the callback of a successful sign-in waits, the session is its    *)
(* own or that of a sign-in that waits behind it: saveInfoToFirestore reads *)
(* currentUser in a callback, after the work queue may have moved on.      *)
THEOREM SessionOfWaitingSignIn == Spec => []SessionFromWaitingSignIn
<1>1. IInv => SessionFromWaitingSignIn
  BY DEF IInv
<1>2. QED
  BY <1>1, IInvHolds, PTL

(* A registration that reported true left an account and a document.       *)
THEOREM SuccessDurable == Spec => []SuccessIsDurable
<1>1. TypeOK /\ IInv => SuccessIsDurable
  BY DEF IInv, SaveInv, SuccessIsDurable
<1>2. QED
  BY <1>1, IInvHolds, TypeCorrect, PTL

(* A registration writes under another user's uid only when that user's    *)
(* sign-in has overtaken it.                                               *)
THEOREM WrongUid == Spec => WrongUidOnlyIfOvertaken
<1> DEFINE Step == \A a \in Attempts :
                     docUid'[a] # docUid[a] /\ docUid'[a] # email[a]
                       => \E j \in 2 .. Len(mainQueue) :
                            IsSignIn(mainQueue[j]) /\ email[mainQueue[j].att] = docUid'[a]
<1>1. TypeOK /\ IInv /\ [Next]_vars => [Step]_vars
  <2> SUFFICES ASSUME TypeOK, IInv, Next, NEW a \in Attempts,
                      docUid'[a] # docUid[a], docUid'[a] # email[a]
               PROVE  \E j \in 2 .. Len(mainQueue) :
                        IsSignIn(mainQueue[j]) /\ email[mainQueue[j].att] = docUid'[a]
    OBVIOUS
  <2>1. PICK b \in Attempts : saveInfoToFirestore(b)
    BY DEF Next, performLogin, performRegistration, Subscribe, Dispose, AuthServer,
           VerifyPassword, SignUp, Refuse, RetrieveUser, RetrieveUserFails, MainQueue,
           LoginCallback, CreateUserFailed, SetDataCallback, EmptyUidCrash, Die, Kill,
           Firestore, CommitUnacknowledged, Acknowledge, Reject, doLogout
  <2>2. b = a /\ docUid'[a] = session /\ session # None
    BY <2>1 DEF saveInfoToFirestore, SaveUid, TypeOK
  <2>3. mainQueue \in Seq(Blocks) /\ mainQueue # << >>
        /\ Head(mainQueue) = [att |-> a, ok |-> TRUE] /\ stage[a] = "signInBlock"
    BY <2>1, <2>2 DEF saveInfoToFirestore, RunBlock, TypeOK
  <2>4. /\ Len(mainQueue) \in Nat \ {0}
        /\ mainQueue[1].att = a /\ mainQueue[1].ok
        /\ 1 \in Positions
    BY <2>3, ShortenedQueue DEF Positions
  <2>5. PICK j \in 1 .. Len(mainQueue) :
          IsSignIn(mainQueue[j]) /\ email[mainQueue[j].att] = session
    BY <2>2, <2>3, <2>4 DEF IInv, SessionFromWaitingSignIn, IsSignIn
  <2>6. j # 1
    BY <2>2, <2>4, <2>5
  <2>7. QED
    BY <2>2, <2>4, <2>5, <2>6
<1>2. QED
  BY <1>1, IInvHolds, TypeCorrect, PTL DEF Spec, WrongUidOnlyIfOvertaken

(***************************************************************************)
(* The main queue as a set: an attempt has one block in it at most.        *)
(***************************************************************************)

Queued == {mainQueue[i] : i \in Positions}

Block(a, ok) == [att |-> a, ok |-> ok]

(* An attempt with a block in the queue is in a stage that says so, and has *)
(* no other.                                                               *)
LEMMA QueuedFacts ==
  ASSUME TypeOK, IInv
  PROVE  /\ Queued \subseteq Blocks
         /\ \A b \in Queued : b.att \in Attempts /\ stage[b.att] \in BlockStages
         /\ \A b, c \in Queued : b.att = c.att => b = c
<1>1. \A i \in Positions : mainQueue[i] \in Blocks
  BY DEF TypeOK, Positions
<1>2. QED
  BY <1>1 DEF Queued, Blocks, IInv, QueueInv, BlockStages

(* What the properties ask of the queue, in terms of the set.              *)
LEMMA QueuedMeans ==
  ASSUME TypeOK, NEW a \in Attempts
  PROVE  /\ (\E i \in DOMAIN mainQueue : mainQueue[i].att = a /\ mainQueue[i].ok)
              <=> Block(a, TRUE) \in Queued
         /\ (\E i \in Positions : mainQueue[i].att = a /\ IsSignIn(mainQueue[i]))
              <=> Block(a, TRUE) \in Queued /\ stage[a] = "signInBlock"
<1>1. DOMAIN mainQueue = Positions /\ \A i \in Positions : mainQueue[i] \in Blocks
  BY DEF TypeOK, Positions
<1>2. \A b \in Blocks : b.att = a /\ b.ok <=> b = Block(a, TRUE)
  BY DEF Blocks, Block
<1>3. QED
  BY <1>1, <1>2 DEF Queued, IsSignIn, Block

(* A dispatched block is one more, whatever is in front of it.             *)
LEMMA QueuedLonger ==
  ASSUME TypeOK, NEW a \in Attempts, NEW ok \in BOOLEAN, Dispatch(a, ok)
  PROVE  Queued' = Queued \cup {Block(a, ok)}
<1>1. mainQueue \in Seq(Blocks) /\ Block(a, ok) \in Blocks
      /\ mainQueue' = Append(mainQueue, Block(a, ok))
  BY DEF Blocks, TypeOK, Dispatch, Block
<1>2. /\ Positions = 1 .. Len(mainQueue) /\ Len(mainQueue) \in Nat
      /\ Positions' = 1 .. Len(mainQueue) + 1
      /\ \A i \in Positions : mainQueue'[i] = mainQueue[i]
      /\ mainQueue'[Len(mainQueue) + 1] = Block(a, ok)
  BY <1>1, AppendedQueue DEF Positions
<1>3. Positions' = Positions \cup {Len(mainQueue) + 1}
  BY <1>2
<1>4. QED
  BY <1>2, <1>3 DEF Queued

(* The block that runs was the only one of its attempt.                    *)
LEMMA QueuedShorter ==
  ASSUME TypeOK, IInv, NEW a \in Attempts, NEW ok \in BOOLEAN, NEW st, RunBlock(a, st, ok)
  PROVE  /\ Block(a, ok) \in Queued /\ stage[a] = st
         /\ Queued' = {b \in Queued : b.att # a}
<1>1. mainQueue \in Seq(Blocks) /\ mainQueue # << >> /\ mainQueue' = Tail(mainQueue)
      /\ Head(mainQueue) = Block(a, ok) /\ stage[a] = st
  BY DEF TypeOK, RunBlock, Block
<1>2. /\ Len(mainQueue) \in Nat \ {0}
      /\ Positions = 1 .. Len(mainQueue)
      /\ Positions' = 1 .. Len(mainQueue) - 1
      /\ mainQueue[1] = Block(a, ok)
      /\ \A i \in 1 .. Len(mainQueue) - 1 : mainQueue'[i] = mainQueue[i + 1]
  BY <1>1, ShortenedQueue DEF Positions
<1>3. \A i \in Positions : mainQueue[i].att = a => i = 1
  BY <1>2 DEF IInv, QueueInv, Block
<1>4. ASSUME NEW i \in Positions'
      PROVE  mainQueue'[i] \in Queued /\ mainQueue'[i].att # a
  <2>1. i + 1 \in Positions /\ i + 1 # 1 /\ mainQueue'[i] = mainQueue[i + 1]
    BY <1>2
  <2>2. QED
    BY <1>3, <2>1 DEF Queued
<1>5. ASSUME NEW i \in Positions, mainQueue[i].att # a
      PROVE  mainQueue[i] \in Queued'
  <2>1. i # 1
    BY <1>2, <1>5 DEF Block
  <2>2. PICK k \in Positions' : k + 1 = i
    <3>1. i - 1 \in Positions' /\ (i - 1) + 1 = i
      BY <1>2, <2>1
    <3>2. QED
      BY <3>1
  <2>3. QED
    BY <1>2, <2>2 DEF Queued
<1>6. Queued' = {b \in Queued : b.att # a}
  BY <1>4, <1>5 DEF Queued
<1>7. Block(a, ok) \in Queued
  BY <1>2 DEF Queued
<1>8. QED
  BY <1>1, <1>6, <1>7

(* The death of the process empties it.                                    *)
LEMMA QueuedLost ==
  ASSUME Die
  PROVE  Queued' = {}
  BY DEF Die, Queued, Positions

(***************************************************************************)
(* What the document of an attempt tells of the attempt.                   *)
(***************************************************************************)

(* Only registrations save, once the callback of createUser has run.       *)
SavesFollowSignUp ==
  \A a \in Attempts :
    /\ save[a] # "none" => op[a] = "register"
    /\ stage[a] \in {"idle", "asked", "granted", "signInBlock", "detached"}
         => save[a] = "none"

(* The callback of setData is given an error only for a refused write.     *)
RefusalIsTold ==
  \A a \in Attempts :
    Block(a, FALSE) \in Queued /\ stage[a] = "saveBlock" => save[a] = "rejected"

SavesInv == SavesFollowSignUp /\ RefusalIsTold

(* Nothing is saved and nothing queued at first.                           *)
LEMMA InitSavesInv == Init => SavesInv
<1> SUFFICES ASSUME Init PROVE SavesInv
  OBVIOUS
<1>1. Queued = {}
  BY DEF Init, Queued, Positions
<1>2. QED
  BY <1>1 DEF Init, SavesInv, SavesFollowSignUp, RefusalIsTold

(* No step saves before the sign-up has been called back, or tells a       *)
(* refusal of a write that was not refused.                                *)
LEMMA NextSavesInv ==
  ASSUME TypeOK, IInv, SavesInv, [Next]_vars
  PROVE  SavesInv'
<1> USE DEF server, request, SavesInv
<1>1. ASSUME NEW a \in Attempts, NEW e \in Emails,
             performLogin(a, e) \/ performRegistration(a, e)
      PROVE  SavesInv'
  <2>1. PICK o \in {"login", "register"} : Subscribe(a, o, e)
    BY <1>1 DEF performLogin, performRegistration
  <2>2. SavesFollowSignUp'
    BY <2>1 DEF Subscribe, SavesFollowSignUp, TypeOK
  <2>3. RefusalIsTold'
    <3>1. Queued' = Queued
      BY <2>1 DEF Subscribe, Queued, Positions
    <3>2. QED
      BY <2>1, <3>1 DEF Subscribe, RefusalIsTold, TypeOK
  <2>4. QED
    BY <2>2, <2>3
<1>2. ASSUME NEW a \in Attempts, Dispose(a)
      PROVE  SavesInv'
  BY <1>2 DEF Dispose, SavesFollowSignUp, RefusalIsTold, Queued, Positions
<1>3. ASSUME NEW a \in Attempts, AuthServer(a)
      PROVE  SavesInv'
  <2>1. SavesFollowSignUp'
    BY <1>3 DEF AuthServer, VerifyPassword, SignUp, Refuse, RetrieveUser,
                RetrieveUserFails, AnswerSignIn, SavesFollowSignUp, TypeOK
  <2>2. CASE mainQueue' = mainQueue
    <3>1. Queued' = Queued
      BY <2>2 DEF Queued, Positions
    <3>2. \A b \in Attempts : stage'[b] = "saveBlock" => stage[b] = "saveBlock"
      BY <1>3 DEF AuthServer, VerifyPassword, SignUp, Refuse, RetrieveUser,
                  RetrieveUserFails, AnswerSignIn, TypeOK
    <3>3. save' = save
      BY <1>3 DEF AuthServer, VerifyPassword, SignUp, Refuse, RetrieveUser, RetrieveUserFails
    <3>4. QED
      BY <2>1, <3>1, <3>2, <3>3 DEF RefusalIsTold
  <2>3. ASSUME NEW ok \in BOOLEAN, AnswerSignIn(a, ok), save' = save
        PROVE  SavesInv'
    <3>1. Queued' = Queued \cup {Block(a, ok)}
      BY <2>3, QueuedLonger DEF AnswerSignIn
    <3>2. QED
      BY <2>1, <2>3, <3>1 DEF AnswerSignIn, RefusalIsTold, Block, TypeOK
  <2>4. QED
    BY <1>3, <2>2, <2>3 DEF AuthServer, VerifyPassword, SignUp, Refuse, RetrieveUser,
                            RetrieveUserFails
<1>4. ASSUME Die
      PROVE  SavesInv'
  <2>1. SavesFollowSignUp'
    BY <1>4 DEF Die, SavesFollowSignUp, InProcess, TypeOK
  <2>2. QED
    BY <1>4, <2>1, QueuedLost DEF RefusalIsTold
<1>5. ASSUME NEW a \in Attempts, NEW st, NEW ok \in BOOLEAN, RunBlock(a, st, ok),
             NEW next \in {"done", "saving"}, stage' = [stage EXCEPT ![a] = next],
             op' = op, \A b \in Attempts \ {a} : save'[b] = save[b],
             save'[a] = save[a] \/ op[a] = "register"
      PROVE  SavesInv'
  <2>1. SavesFollowSignUp'
    BY <1>5 DEF SavesFollowSignUp, TypeOK
  <2>2. Queued' = {b \in Queued : b.att # a}
    BY <1>5, QueuedShorter
  <2>3. RefusalIsTold'
    BY <1>5, <2>2 DEF RefusalIsTold, TypeOK
  <2>4. QED
    BY <2>1, <2>3
<1>6. ASSUME NEW a \in Attempts, MainQueue(a)
      PROVE  SavesInv'
  <2>1. ASSUME NEW ok \in BOOLEAN, LoginCallback(a, ok) \/ SetDataCallback(a, ok)
        PROVE  SavesInv'
    BY <2>1, <1>5 DEF LoginCallback, SetDataCallback
  <2>2. CASE CreateUserFailed(a)
    BY <2>2, <1>5 DEF CreateUserFailed
  <2>3. CASE saveInfoToFirestore(a)
    BY <2>3, <1>5 DEF saveInfoToFirestore, TypeOK
  <2>4. CASE EmptyUidCrash(a)
    BY <2>4, <1>4 DEF EmptyUidCrash
  <2>5. QED
    BY <1>6, <2>1, <2>2, <2>3, <2>4 DEF MainQueue
<1>7. ASSUME NEW a \in Attempts, Firestore(a)
      PROVE  SavesInv'
  <2>1. CASE CommitUnacknowledged(a)
    BY <2>1 DEF CommitUnacknowledged, SavesFollowSignUp, RefusalIsTold, Queued, Positions
  <2>2. ASSUME NEW ok \in BOOLEAN, save[a] = "pending", op' = op,
               save' = [save EXCEPT ![a] = IF ok THEN "acked" ELSE "rejected"],
               AnswerSave(a, ok)
        PROVE  SavesInv'
    <3>1. SavesFollowSignUp'
      BY <2>2 DEF AnswerSave, SavesFollowSignUp, TypeOK
    <3>2. CASE stage[a] = "saving"
      <4>1. Queued' = Queued \cup {Block(a, ok)}
        BY <2>2, <3>2, QueuedLonger DEF AnswerSave
      <4>2. QED
        BY <2>2, <3>1, <3>2, <4>1, QueuedFacts
           DEF AnswerSave, RefusalIsTold, Block, BlockStages, TypeOK
    <3>3. CASE stage[a] # "saving"
      <4>1. Queued' = Queued /\ stage' = stage
        BY <2>2, <3>3 DEF AnswerSave, Queued, Positions
      <4>2. QED
        BY <2>2, <3>1, <4>1 DEF RefusalIsTold, TypeOK
    <3>4. QED
      BY <3>2, <3>3
  <2>3. QED
    BY <1>7, <2>1, <2>2 DEF Firestore, Acknowledge, Reject
<1>8. CASE doLogout \/ UNCHANGED vars
  BY <1>8 DEF doLogout, vars, SavesFollowSignUp, RefusalIsTold, Queued, Positions
<1>9. CASE Kill
  BY <1>9, <1>4 DEF Kill
<1>10. QED
  BY <1>1, <1>2, <1>3, <1>6, <1>7, <1>8, <1>9 DEF Next

(* No save before the sign-up, and none that is told what did not happen.  *)
THEOREM SavesInvHolds == Spec => []SavesInv
<1>1. QED
  BY InitSavesInv, NextSavesInv, IInvHolds, TypeCorrect, PTL DEF Spec

(***************************************************************************)
(* Orphans.                                                                *)
(***************************************************************************)

Waits(a) == Block(a, TRUE) \in Queued /\ stage[a] = "signInBlock"

MaySave(a) ==
  /\ op[a] = "register"
  /\ save[a] = "pending" \/ stage[a] = "granted" \/ Waits(a)

(* MayStillSave in terms of the set of queued blocks.                      *)
LEMMA MayStillSaveMeans == TypeOK => \A a \in Attempts : MayStillSave(a) <=> MaySave(a)
<1>1. QED
  BY QueuedMeans DEF MayStillSave, MaySave, Waits

(* A step that may come to save for an attempt finds it in that state      *)
(* already, or its server has just made the account.                       *)
LEMMA NoNewSaver ==
  ASSUME TypeOK, IInv, SavesInv, TypeOK', Next, NEW b \in Attempts, MayStillSave(b)'
  PROVE  \/ MayStillSave(b) /\ email'[b] = email[b]
         \/ email'[b] \notin accounts
<1> USE DEF server, request
<1>1. /\ op'[b] = "register"
      /\ save'[b] = "pending" \/ stage'[b] = "granted" \/ Waits(b)'
  <2>1. (\A a \in Attempts : MayStillSave(a) <=> MaySave(a))'
    BY MayStillSaveMeans, PTL
  <2>2. QED
    BY <2>1 DEF MaySave
<1>2. ASSUME op[b] = "register", email'[b] = email[b],
             save[b] = "pending" \/ stage[b] = "granted" \/ Waits(b)
      PROVE  MayStillSave(b) /\ email'[b] = email[b]
  BY <1>2, MayStillSaveMeans DEF MaySave
<1>3. ASSUME NEW a \in Attempts, NEW e \in Emails,
             performLogin(a, e) \/ performRegistration(a, e)
      PROVE  MayStillSave(b) /\ email'[b] = email[b]
  <2>1. PICK o \in {"login", "register"} : Subscribe(a, o, e)
    BY <1>3 DEF performLogin, performRegistration
  <2>2. b # a
    BY <1>1, <2>1 DEF Subscribe, Waits, SavesInv, SavesFollowSignUp, TypeOK
  <2>3. Queued' = Queued
    BY <2>1 DEF Subscribe, Queued, Positions
  <2>4. QED
    BY <1>1, <1>2, <2>1, <2>2, <2>3 DEF Subscribe, Waits, TypeOK
<1>4. CASE (\E a \in Attempts : Dispose(a) \/ CommitUnacknowledged(a)) \/ doLogout
  BY <1>1, <1>2, <1>4
     DEF Dispose, CommitUnacknowledged, doLogout, Waits, Queued, Positions
<1>5. ASSUME NEW a \in Attempts, NEW ok \in BOOLEAN, AnswerSignIn(a, ok),
             stage[a] \in {"asked", "granted"}, ok => stage[a] = "granted",
             UNCHANGED << op, email, save >>
      PROVE  MayStillSave(b) /\ email'[b] = email[b]
  <2>1. Queued' = Queued \cup {Block(a, ok)}
    BY <1>5, QueuedLonger DEF AnswerSignIn
  <2>2. CASE b = a
    <3>1. CASE ok
      BY <1>1, <1>2, <1>5, <2>2, <3>1
    <3>2. CASE ~ok
      <4>1. Block(a, TRUE) \notin Queued
        BY <1>5, QueuedFacts DEF Block, BlockStages
      <4>2. ~Waits(a)'
        BY <2>1, <3>2, <4>1 DEF Waits, Block
      <4>3. stage'[a] = "signInBlock"
        BY <1>5 DEF AnswerSignIn, TypeOK
      <4>4. QED
        BY <1>1, <1>2, <1>5, <2>2, <4>2, <4>3
    <3>3. QED
      BY <3>1, <3>2
  <2>3. CASE b # a
    BY <1>1, <1>2, <1>5, <2>1, <2>3 DEF AnswerSignIn, Waits, Block, TypeOK
  <2>4. QED
    BY <2>2, <2>3
<1>6. ASSUME NEW a \in Attempts, AuthServer(a)
      PROVE  (MayStillSave(b) /\ email'[b] = email[b]) \/ email'[b] \notin accounts
  <2>1. CASE VerifyPassword(a)
    <3>1. Queued' = Queued
      BY <2>1 DEF VerifyPassword, Queued, Positions
    <3>2. QED
      BY <1>1, <1>2, <2>1, <3>1 DEF VerifyPassword, Waits, TypeOK
  <2>2. CASE SignUp(a)
    <3>1. CASE b = a
      BY <2>2, <3>1 DEF SignUp
    <3>2. CASE b # a /\ mainQueue' = mainQueue
      <4>1. Queued' = Queued
        BY <3>2 DEF Queued, Positions
      <4>2. QED
        BY <1>1, <1>2, <2>2, <3>2, <4>1 DEF SignUp, AnswerSignIn, Waits, TypeOK
    <3>3. CASE stage[a] = "asked" /\ AnswerSignIn(a, FALSE)
      BY <1>5, <2>2, <3>3 DEF SignUp
    <3>4. QED
      BY <2>2, <3>1, <3>2, <3>3 DEF SignUp
  <2>3. CASE Refuse(a)
    BY <1>5, <2>3 DEF Refuse
  <2>4. CASE RetrieveUser(a)
    BY <1>5, <2>4 DEF RetrieveUser
  <2>5. CASE RetrieveUserFails(a)
    BY <1>5, <2>5 DEF RetrieveUserFails
  <2>6. QED
    BY <1>6, <2>1, <2>2, <2>3, <2>4, <2>5 DEF AuthServer
<1>7. ASSUME Die
      PROVE  MayStillSave(b) /\ email'[b] = email[b]
  BY <1>1, <1>2, <1>7, QueuedLost DEF Die, Waits, InProcess, TypeOK
<1>8. ASSUME NEW a \in Attempts, NEW st, NEW ok \in BOOLEAN, RunBlock(a, st, ok),
             NEW next \in {"done", "saving"}, stage' = [stage EXCEPT ![a] = next],
             UNCHANGED << op, email >>, \A c \in Attempts \ {a} : save'[c] = save[c],
             save'[a] = save[a] \/ (st = "signInBlock" /\ ok)
      PROVE  MayStillSave(b) /\ email'[b] = email[b]
  <2>1. /\ Queued' = {c \in Queued : c.att # a}
        /\ Block(a, ok) \in Queued /\ stage[a] = st
    BY <1>8, QueuedShorter
  <2>2. CASE b = a
    <3>1. ~Waits(a)' /\ stage'[a] # "granted"
      BY <1>8, <2>1 DEF Waits, TypeOK
    <3>2. save[a] = "pending" \/ Waits(a)
      BY <1>1, <1>8, <2>1, <2>2, <3>1 DEF Waits
    <3>3. QED
      BY <1>1, <1>2, <1>8, <2>2, <3>2
  <2>3. CASE b # a
    BY <1>1, <1>2, <1>8, <2>1, <2>3 DEF Waits, TypeOK
  <2>4. QED
    BY <2>2, <2>3
<1>9. ASSUME NEW a \in Attempts, MainQueue(a)
      PROVE  MayStillSave(b) /\ email'[b] = email[b]
  <2>1. ASSUME NEW ok \in BOOLEAN, LoginCallback(a, ok) \/ SetDataCallback(a, ok)
        PROVE  MayStillSave(b) /\ email'[b] = email[b]
    BY <2>1, <1>8 DEF LoginCallback, SetDataCallback
  <2>2. CASE CreateUserFailed(a)
    BY <2>2, <1>8 DEF CreateUserFailed
  <2>3. CASE saveInfoToFirestore(a)
    BY <2>3, <1>8 DEF saveInfoToFirestore, TypeOK
  <2>4. CASE EmptyUidCrash(a)
    BY <2>4, <1>7 DEF EmptyUidCrash
  <2>5. QED
    BY <1>9, <2>1, <2>2, <2>3, <2>4 DEF MainQueue
<1>10. ASSUME NEW a \in Attempts, Acknowledge(a) \/ Reject(a)
       PROVE  MayStillSave(b) /\ email'[b] = email[b]
  <2>1. PICK ok \in BOOLEAN :
          /\ save' = [save EXCEPT ![a] = IF ok THEN "acked" ELSE "rejected"]
          /\ save[a] = "pending" /\ AnswerSave(a, ok) /\ UNCHANGED << op, email >>
    BY <1>10 DEF Acknowledge, Reject
  <2>2. CASE b = a
    BY <1>1, <1>2, <2>1, <2>2
  <2>3. CASE b # a /\ stage[a] = "saving"
    <3>1. Queued' = Queued \cup {Block(a, ok)}
      BY <2>1, <2>3, QueuedLonger DEF AnswerSave
    <3>2. QED
      BY <1>1, <1>2, <2>1, <2>3, <3>1 DEF AnswerSave, Waits, Block, TypeOK
  <2>4. CASE b # a /\ stage[a] # "saving"
    <3>1. Queued' = Queued /\ stage' = stage
      BY <2>1, <2>4 DEF AnswerSave, Queued, Positions
    <3>2. QED
      BY <1>1, <1>2, <2>1, <2>4, <3>1 DEF Waits, TypeOK
  <2>5. QED
    BY <2>2, <2>3, <2>4
<1>11. CASE Kill
  BY <1>7, <1>11 DEF Kill
<1>12. QED
  BY <1>3, <1>4, <1>6, <1>9, <1>10, <1>11 DEF Next, Firestore

(* A write puts into the place of an orphan a document that is not its own. *)
LEMMA OrphanStep ==
  ASSUME TypeOK, IInv, SavesInv, TypeOK', Next, NEW e \in Emails, Orphan(e)
  PROVE  Orphan(e)' \/ profiles'[e] \notin {None, e}
<1> USE DEF server, request
<1>1. accounts \subseteq accounts'
  BY DEF Next, performLogin, performRegistration, Subscribe, Dispose, AuthServer,
         VerifyPassword, SignUp, Refuse, RetrieveUser, RetrieveUserFails, MainQueue,
         LoginCallback, CreateUserFailed, saveInfoToFirestore, SetDataCallback,
         EmptyUidCrash, Die, Kill, Firestore, CommitUnacknowledged, Acknowledge, Reject,
         doLogout
<1>2. profiles' = profiles \/ \E a \in Attempts : save[a] = "pending" /\ WriteProfile(a)
  BY DEF Next, performLogin, performRegistration, Subscribe, Dispose, AuthServer,
         VerifyPassword, SignUp, Refuse, RetrieveUser, RetrieveUserFails, MainQueue,
         LoginCallback, CreateUserFailed, saveInfoToFirestore, SetDataCallback,
         EmptyUidCrash, Die, Kill, Firestore, CommitUnacknowledged, Acknowledge, Reject,
         doLogout
<1>3. profiles'[e] = None \/ profiles'[e] \notin {None, e}
  <2> SUFFICES ASSUME NEW a \in Attempts, save[a] = "pending", WriteProfile(a),
                      docUid[a] = e
               PROVE  profiles'[e] \notin {None, e}
    BY <1>2 DEF WriteProfile, Orphan, TypeOK
  <2>1. op[a] = "register" /\ email[a] \in accounts
    BY DEF SavesInv, SavesFollowSignUp, IInv, SaveInv
  <2>2. email[a] # e
    BY <2>1 DEF Orphan, MayStillSave
  <2>3. email[a] # None
    BY <2>1, NoneAssumption DEF TypeOK
  <2>4. profiles'[e] = email[a]
    BY DEF WriteProfile, TypeOK
  <2>5. QED
    BY <2>2, <2>3, <2>4
<1>4. \A b \in Attempts : email'[b] = e => ~MayStillSave(b)'
  BY NoNewSaver DEF Orphan
<1>5. e \in accounts'
  BY <1>1 DEF Orphan
<1>6. QED
  BY <1>3, <1>4, <1>5 DEF Orphan

(* An account that was left without its document never gets it.            *)
THEOREM OrphanStays == Spec => OrphanIsNotRepaired
<1>1. TypeOK /\ IInv /\ SavesInv /\ TypeOK' /\ [Next]_vars
        => [\A e \in Emails : Orphan(e) => Orphan(e)' \/ profiles'[e] \notin {None, e}]_vars
  BY OrphanStep
<1>2. QED
  BY <1>1, IInvHolds, SavesInvHolds, TypeCorrect, PTL DEF Spec, OrphanIsNotRepaired

(***************************************************************************)
(* The refinement.                                                         *)
(***************************************************************************)

HasEffect(a) == (op[a] = "login" /\ Block(a, TRUE) \in Queued) \/ save[a] = "acked"

(* The effect of an attempt in terms of the set of queued blocks.          *)
LEMMA EffectedMeans == TypeOK => \A a \in Attempts : Effected(a) <=> HasEffect(a)
<1>1. QED
  BY QueuedMeans DEF Effected, HasEffect

(* An attempt whose sink, operation and effect stay is the same request.   *)
Kept(a) ==
  /\ op'[a] = op[a] /\ sink'[a] = sink[a]
  /\ stage'[a] = "idle" <=> stage[a] = "idle"
  /\ Effected(a)' <=> Effected(a)

(* Such an attempt is in the same state of AuthRequest.                    *)
LEMMA KeptState ==
  ASSUME NEW a \in Attempts, Kept(a)
  PROVE  RequestState(a)' = RequestState(a)
  BY DEF Kept, RequestState

(* A step that keeps every attempt is a stutter of AuthRequest.            *)
LEMMA AllKept ==
  ASSUME \A a \in Attempts : Kept(a)
  PROVE  [Promise!Next]_requests
<1>1. \A a \in Attempts : RequestState(a)' = RequestState(a)
  BY KeptState
<1>2. requests' = requests
  BY <1>1 DEF requests
<1>3. QED
  BY <1>2

(* A step that concerns one attempt moves its request and no other.        *)
LEMMA OneMoves ==
  ASSUME NEW a \in Attempts, \A b \in Attempts \ {a} : Kept(b),
         \/ RequestState(a)' = RequestState(a)
         \/ RequestState(a) = "idle" /\ RequestState(a)' = "waiting"
         \/ RequestState(a) = "waiting" /\ RequestState(a)' = "effected"
         \/ RequestState(a) = "effected" /\ RequestState(a)' = "true"
         \/ RequestState(a) = "waiting" /\ RequestState(a)' \in {"false", "error"}
         \/ RequestState(a) \in {"waiting", "effected"} /\ RequestState(a)' = "silent"
  PROVE  [Promise!Next]_requests
<1>1. \A b \in Attempts \ {a} : RequestState(b)' = RequestState(b)
  BY KeptState
<1>2. requests' = [requests EXCEPT ![a] = RequestState(a)'] /\ requests[a] = RequestState(a)
  BY <1>1 DEF requests
<1>3. CASE RequestState(a)' = RequestState(a)
  <2>1. requests' = requests
    BY <1>1, <1>3 DEF requests
  <2>2. QED
    BY <2>1
<1>4. CASE RequestState(a) = "idle" /\ RequestState(a)' = "waiting"
  BY <1>2, <1>4 DEF Promise!Next, Promise!Start, Promise!Move
<1>5. CASE RequestState(a) = "waiting" /\ RequestState(a)' = "effected"
  BY <1>2, <1>5 DEF Promise!Next, Promise!Effect, Promise!Move
<1>6. CASE RequestState(a) = "effected" /\ RequestState(a)' = "true"
  BY <1>2, <1>6 DEF Promise!Next, Promise!Succeed, Promise!Move
<1>7. CASE RequestState(a) = "waiting" /\ RequestState(a)' \in {"false", "error"}
  BY <1>2, <1>7 DEF Promise!Next, Promise!Fail, Promise!Move
<1>8. CASE RequestState(a) \in {"waiting", "effected"} /\ RequestState(a)' = "silent"
  <2>1. {a} \in SUBSET {r \in Attempts : requests[r] \in {"waiting", "effected"}}
    BY <1>2, <1>8
  <2>2. requests' = [r \in Attempts |-> IF r \in {a} THEN "silent" ELSE requests[r]]
    BY <1>1, <1>8 DEF requests
  <2>3. Promise!Drop
    BY <2>1, <2>2 DEF Promise!Drop
  <2>4. QED
    BY <2>3 DEF Promise!Next
<1>9. QED
  BY <1>3, <1>4, <1>5, <1>6, <1>7, <1>8

(* While nothing was reported, the state of a request is told by its sink  *)
(* and its effect.                                                         *)
LEMMA SilentState ==
  ASSUME NEW a \in Attempts, stage[a] # "idle", sink[a].got = << >>
  PROVE  RequestState(a) = IF ~sink[a].open THEN "silent"
                           ELSE IF Effected(a) THEN "effected" ELSE "waiting"
  BY DEF RequestState

(* An answer of the closure moves an open sink to it and no other.         *)
LEMMA AnswerState ==
  ASSUME TypeOK, NEW a \in Attempts, stage'[a] # "idle", sink[a].got = << >>,
         NEW r \in {"true", "false", "error"},
         \/ sink'[a] = OnNext(sink[a], r)
         \/ r = "error" /\ sink'[a] = OnNext(OnError(sink[a]), "true")
  PROVE  RequestState(a)' = IF sink[a].open THEN r ELSE "silent"
<1>1. sink[a] \in Sinks
  BY DEF TypeOK
<1>2. CASE ~sink[a].open
  BY <1>2 DEF RequestState, OnNext, OnError
<1>3. CASE sink[a].open
  <2>1. sink'[a].got = << r >>
    BY <1>1, <1>3 DEF OnNext, OnError, Sinks
  <2>2. << r >> # << >> /\ << r >>[1] = r
    OBVIOUS
  <2>3. QED
    BY <1>3, <2>1, <2>2 DEF RequestState
<1>4. QED
  BY <1>2, <1>3

(* At first every request is idle.                                         *)
LEMMA InitRefines == Init => Promise!Init
<1>1. QED
  BY DEF Init, Promise!Init, requests, RequestState

(* Every step is a step of AuthRequest or leaves the requests alone.       *)
LEMMA NextRefines ==
  ASSUME TypeOK, IInv, SavesInv, TypeOK', Next
  PROVE  [Promise!Next]_requests
<1> USE DEF server, request
<1>1. \A a \in Attempts : Effected(a) <=> HasEffect(a)
  BY EffectedMeans
<1>2. \A a \in Attempts : Effected(a)' <=> HasEffect(a)'
  <2>1. (\A a \in Attempts : Effected(a) <=> HasEffect(a))'
    BY EffectedMeans, PTL
  <2>2. QED
    BY <2>1
<1>3. \A a \in Attempts : stage[a] \in InProcess \cup {"idle"} => sink[a].got = << >>
  BY DEF IInv, ReportInv
<1>4. ASSUME NEW a \in Attempts, NEW e \in Emails,
             performLogin(a, e) \/ performRegistration(a, e)
      PROVE  [Promise!Next]_requests
  <2>1. PICK o \in {"login", "register"} : Subscribe(a, o, e)
    BY <1>4 DEF performLogin, performRegistration
  <2>2. Queued' = Queued /\ Block(a, TRUE) \notin Queued
    <3>1. Queued' = Queued
      BY <2>1 DEF Subscribe, Queued, Positions
    <3>2. stage[a] \notin BlockStages
      BY <2>1 DEF Subscribe, BlockStages
    <3>3. QED
      BY <3>1, <3>2, QueuedFacts DEF Block
  <2>3. \A b \in Attempts \ {a} : Kept(b)
    <3>1. \A b \in Attempts \ {a} : /\ op'[b] = op[b] /\ sink'[b] = sink[b]
                                    /\ save'[b] = save[b] /\ stage'[b] = stage[b]
      BY <2>1 DEF Subscribe, TypeOK
    <3>2. QED
      BY <1>1, <1>2, <2>2, <3>1 DEF Kept, HasEffect
  <2>4. ~Effected(a)'
    BY <1>2, <2>1, <2>2
       DEF Subscribe, HasEffect, SavesInv, SavesFollowSignUp, Block, TypeOK
  <2>5. sink'[a].open /\ sink'[a].got = << >>
    BY <1>3, <2>1 DEF Subscribe, TypeOK, Sinks
  <2>6. RequestState(a) = "idle" /\ RequestState(a)' = "waiting"
    BY <2>1, <2>4, <2>5 DEF Subscribe, RequestState, TypeOK
  <2>7. QED
    BY <2>3, <2>6, OneMoves
<1>5. ASSUME NEW a \in Attempts, Dispose(a)
      PROVE  [Promise!Next]_requests
  <2>1. Queued' = Queued
    BY <1>5 DEF Dispose, Queued, Positions
  <2>2. \A b \in Attempts : Effected(b)' <=> Effected(b)
    BY <1>1, <1>2, <1>5, <2>1 DEF Dispose, HasEffect
  <2>3. \A b \in Attempts \ {a} : Kept(b)
    BY <1>5, <2>2 DEF Dispose, Kept, TypeOK
  <2>4. sink[a].open /\ ~sink'[a].open /\ sink'[a].got = sink[a].got
    BY <1>5 DEF Dispose, Disposed, TypeOK, Sinks
  <2>5. \/ RequestState(a)' = RequestState(a)
        \/ RequestState(a) \in {"waiting", "effected"} /\ RequestState(a)' = "silent"
    BY <1>5, <2>2, <2>4 DEF Dispose, RequestState
  <2>6. QED
    BY <2>3, <2>5, OneMoves
<1>6. ASSUME NEW a \in Attempts, NEW ok \in BOOLEAN, AnswerSignIn(a, ok),
             stage[a] \in {"asked", "granted"}, UNCHANGED << op, sink, save >>
      PROVE  [Promise!Next]_requests
  <2>1. Queued' = Queued \cup {Block(a, ok)} /\ Block(a, TRUE) \notin Queued
    BY <1>6, QueuedLonger, QueuedFacts DEF AnswerSignIn, Block, BlockStages
  <2>2. \A b \in Attempts \ {a} : Kept(b)
    BY <1>1, <1>2, <1>6, <2>1 DEF AnswerSignIn, Kept, HasEffect, Block, TypeOK
  <2>3. save[a] # "acked" /\ ~Effected(a)
    BY <1>1, <1>6, <2>1 DEF HasEffect, SavesInv, SavesFollowSignUp
  <2>4. sink[a].got = << >> /\ stage[a] # "idle" /\ stage'[a] # "idle"
    BY <1>3, <1>6 DEF AnswerSignIn, InProcess, TypeOK
  <2>5. \/ RequestState(a)' = RequestState(a)
        \/ RequestState(a) = "waiting" /\ RequestState(a)' = "effected"
    BY <1>6, <2>3, <2>4 DEF RequestState
  <2>6. QED
    BY <2>2, <2>5, OneMoves
<1>7. ASSUME NEW a \in Attempts, AuthServer(a)
      PROVE  [Promise!Next]_requests
  <2>1. CASE /\ mainQueue' = mainQueue
             /\ VerifyPassword(a) \/ SignUp(a)
    <3>1. Queued' = Queued
      BY <2>1 DEF Queued, Positions
    <3>2. /\ UNCHANGED << op, sink, save >>
          /\ \A b \in Attempts : stage'[b] = "idle" <=> stage[b] = "idle"
      BY <2>1 DEF VerifyPassword, SignUp, AnswerSignIn, TypeOK
    <3>3. \A b \in Attempts : Kept(b)
      BY <1>1, <1>2, <3>1, <3>2 DEF Kept, HasEffect
    <3>4. QED
      BY <3>3, AllKept
  <2>2. CASE SignUp(a) /\ stage[a] = "asked" /\ AnswerSignIn(a, FALSE)
    BY <2>2, <1>6 DEF SignUp
  <2>3. CASE Refuse(a)
    BY <2>3, <1>6 DEF Refuse
  <2>4. CASE RetrieveUser(a)
    BY <2>4, <1>6 DEF RetrieveUser
  <2>5. CASE RetrieveUserFails(a)
    BY <2>5, <1>6 DEF RetrieveUserFails
  <2>6. QED
    BY <1>7, <2>1, <2>2, <2>3, <2>4, <2>5 DEF AuthServer, VerifyPassword, SignUp
<1>8. ASSUME Die
      PROVE  [Promise!Next]_requests
  <2> DEFINE D == {a \in Attempts : RequestState(a) \in {"waiting", "effected"}}
  <2>1. ASSUME NEW a \in Attempts
        PROVE  RequestState(a)' = IF a \in D THEN "silent" ELSE RequestState(a)
    <3>1. ~sink'[a].open /\ sink'[a].got = sink[a].got
      BY <1>8 DEF Die, Disposed, TypeOK, Sinks
    <3>2. stage'[a] = "idle" <=> stage[a] = "idle"
      BY <1>8 DEF Die, InProcess
    <3>3. CASE stage[a] = "idle" \/ sink[a].got # << >>
      <4>1. RequestState(a)' = RequestState(a)
        BY <3>1, <3>2, <3>3 DEF RequestState
      <4>2. stage[a] # "idle" => sink[a].got[1] \in {"true", "false", "error"}
        <5>1. sink[a].got \in Seq({"true", "false", "error"})
          BY DEF TypeOK, Sinks
        <5>2. sink[a].got # << >> => sink[a].got[1] \in {"true", "false", "error"}
          BY <5>1
        <5>3. QED
          BY <3>3, <5>2
      <4>3. a \notin D
        BY <3>3, <4>2 DEF RequestState
      <4>4. QED
        BY <4>1, <4>3
    <3>4. CASE stage[a] # "idle" /\ sink[a].got = << >>
      <4>1. RequestState(a)' = "silent"
        BY <3>1, <3>2, <3>4 DEF RequestState
      <4>2. a \notin D => RequestState(a) = "silent"
        BY <3>4, SilentState
      <4>3. QED
        BY <4>1, <4>2
    <3>5. QED
      BY <3>3, <3>4
  <2>2. D = {r \in Attempts : requests[r] \in {"waiting", "effected"}}
    BY DEF requests
  <2>3. requests' = [r \in Attempts |-> IF r \in D THEN "silent" ELSE requests[r]]
    BY <2>1 DEF requests
  <2>4. Promise!Drop
    BY <2>2, <2>3 DEF Promise!Drop
  <2>5. QED
    BY <2>4 DEF Promise!Next
<1>9. ASSUME NEW a \in Attempts, NEW ok \in BOOLEAN, NEW st \in BlockStages,
             RunBlock(a, st, ok), op' = op,
             \A b \in Attempts \ {a} : /\ sink'[b] = sink[b] /\ save'[b] = save[b]
                                       /\ stage'[b] = stage[b]
      PROVE  /\ \A b \in Attempts \ {a} : Kept(b)
             /\ sink[a].got = << >> /\ stage[a] = st
             /\ Block(a, ok) \in Queued
             /\ ~ok => Block(a, TRUE) \notin Queued
             /\ Block(a, TRUE) \notin Queued'
             /\ st = "saveBlock" => save[a] = IF ok THEN "acked" ELSE "rejected"
  <2>1. /\ Block(a, ok) \in Queued /\ stage[a] = st
        /\ Queued' = {b \in Queued : b.att # a}
    BY <1>9, QueuedShorter
  <2>2. \A b \in Attempts \ {a} : Kept(b)
    BY <1>1, <1>2, <1>9, <2>1 DEF Kept, HasEffect, Block
  <2>3. sink[a].got = << >>
    BY <1>3, <2>1 DEF BlockStages, InProcess
  <2>4. ~ok => Block(a, TRUE) \notin Queued
    BY <2>1, QueuedFacts DEF Block
  <2>5. Block(a, TRUE) \notin Queued'
    BY <2>1 DEF Block
  <2>6. st = "saveBlock" => save[a] = IF ok THEN "acked" ELSE "rejected"
    <3>1. CASE ok
      <4>1. PICK i \in Positions : mainQueue[i] = Block(a, TRUE)
        BY <2>1, <3>1 DEF Queued
      <4>2. QED
        BY <2>1, <3>1, <4>1 DEF IInv, BlockInv, Block
    <3>2. CASE ~ok
      BY <2>1, <3>2 DEF SavesInv, RefusalIsTold
    <3>3. QED
      BY <3>1, <3>2
  <2>7. QED
    BY <2>1, <2>2, <2>3, <2>4, <2>5, <2>6
<1>10. ASSUME NEW a \in Attempts, MainQueue(a)
       PROVE  [Promise!Next]_requests
  <2> USE DEF BlockStages
  <2>1. ASSUME NEW ok \in BOOLEAN, LoginCallback(a, ok)
        PROVE  [Promise!Next]_requests
    <3>1. /\ \A b \in Attempts \ {a} : Kept(b)
          /\ sink[a].got = << >> /\ stage[a] = "signInBlock"
          /\ Block(a, ok) \in Queued
          /\ ~ok => Block(a, TRUE) \notin Queued
      <4>1. /\ RunBlock(a, "signInBlock", ok) /\ op' = op
            /\ \A b \in Attempts \ {a} : /\ sink'[b] = sink[b] /\ save'[b] = save[b]
                                         /\ stage'[b] = stage[b]
        BY <2>1 DEF LoginCallback, TypeOK
      <4>2. QED
        BY <1>9, <4>1
    <3>2. Effected(a) <=> ok
      BY <1>1, <2>1, <3>1
         DEF LoginCallback, HasEffect, SavesInv, SavesFollowSignUp
    <3>3. RequestState(a)' = IF sink[a].open THEN (IF ok THEN "true" ELSE "error")
                             ELSE "silent"
      <4>1. CASE ok
        BY <2>1, <3>1, <4>1, AnswerState DEF LoginCallback, TypeOK
      <4>2. CASE ~ok
        BY <2>1, <3>1, <4>2, AnswerState DEF LoginCallback, TypeOK
      <4>3. QED
        BY <4>1, <4>2
    <3>4. RequestState(a) = IF ~sink[a].open THEN "silent"
                            ELSE IF ok THEN "effected" ELSE "waiting"
      BY <3>1, <3>2, SilentState
    <3>5. QED
      BY <3>1, <3>3, <3>4, OneMoves
  <2>2. CASE CreateUserFailed(a)
    <3>1. /\ \A b \in Attempts \ {a} : Kept(b)
          /\ sink[a].got = << >> /\ stage[a] = "signInBlock"
      BY <1>9, <2>2 DEF CreateUserFailed, TypeOK
    <3>2. ~Effected(a)
      BY <1>1, <2>2, <3>1
         DEF CreateUserFailed, HasEffect, SavesInv, SavesFollowSignUp
    <3>3. RequestState(a)' = IF sink[a].open THEN "false" ELSE "silent"
      BY <2>2, <3>1, AnswerState DEF CreateUserFailed, TypeOK
    <3>4. RequestState(a) = IF ~sink[a].open THEN "silent" ELSE "waiting"
      BY <3>1, <3>2, SilentState
    <3>5. QED
      BY <3>1, <3>3, <3>4, OneMoves
  <2>3. CASE saveInfoToFirestore(a)
    <3>1. /\ \A b \in Attempts \ {a} : Kept(b)
          /\ stage[a] = "signInBlock"
      BY <1>9, <2>3 DEF saveInfoToFirestore, TypeOK
    <3>2. ~Effected(a) /\ ~Effected(a)'
      BY <1>1, <1>2, <2>3, <3>1
         DEF saveInfoToFirestore, HasEffect, SavesInv, SavesFollowSignUp, TypeOK
    <3>3. RequestState(a)' = RequestState(a)
      BY <2>3, <3>1, <3>2 DEF saveInfoToFirestore, RequestState, TypeOK
    <3>4. QED
      BY <3>1, <3>3, OneMoves
  <2>4. CASE EmptyUidCrash(a)
    BY <2>4, <1>8 DEF EmptyUidCrash
  <2>5. ASSUME NEW ok \in BOOLEAN, SetDataCallback(a, ok)
        PROVE  [Promise!Next]_requests
    <3>1. /\ \A b \in Attempts \ {a} : Kept(b)
          /\ sink[a].got = << >> /\ stage[a] = "saveBlock"
          /\ save[a] = IF ok THEN "acked" ELSE "rejected"
          /\ ~ok => Block(a, TRUE) \notin Queued
      <4>1. /\ RunBlock(a, "saveBlock", ok) /\ op' = op
            /\ \A b \in Attempts \ {a} : /\ sink'[b] = sink[b] /\ save'[b] = save[b]
                                         /\ stage'[b] = stage[b]
        BY <2>5 DEF SetDataCallback, TypeOK
      <4>2. QED
        BY <1>9, <4>1
    <3>2. Effected(a) <=> ok
      BY <1>1, <2>5, <3>1 DEF HasEffect
    <3>3. RequestState(a)' = IF sink[a].open THEN (IF ok THEN "true" ELSE "false")
                             ELSE "silent"
      <4>1. CASE ok
        BY <2>5, <3>1, <4>1, AnswerState DEF SetDataCallback, TypeOK
      <4>2. CASE ~ok
        BY <2>5, <3>1, <4>2, AnswerState DEF SetDataCallback, TypeOK
      <4>3. QED
        BY <4>1, <4>2
    <3>4. RequestState(a) = IF ~sink[a].open THEN "silent"
                            ELSE IF ok THEN "effected" ELSE "waiting"
      BY <3>1, <3>2, SilentState
    <3>5. QED
      BY <3>1, <3>3, <3>4, OneMoves
  <2>6. QED
    BY <1>10, <2>1, <2>2, <2>3, <2>4, <2>5 DEF MainQueue
<1>11. ASSUME NEW a \in Attempts, Firestore(a)
       PROVE  [Promise!Next]_requests
  <2>1. CASE CommitUnacknowledged(a)
    <3>1. \A b \in Attempts : Kept(b)
      BY <1>1, <1>2, <2>1 DEF CommitUnacknowledged, Kept, HasEffect, Queued, Positions
    <3>2. QED
      BY <3>1, AllKept
  <2>2. ASSUME NEW ok \in BOOLEAN, save[a] = "pending", UNCHANGED << op, sink >>,
               save' = [save EXCEPT ![a] = IF ok THEN "acked" ELSE "rejected"],
               AnswerSave(a, ok)
        PROVE  [Promise!Next]_requests
    <3>1. op[a] = "register" /\ stage[a] # "idle"
      BY <2>2 DEF SavesInv, SavesFollowSignUp
    <3>2. \A b \in Attempts : stage'[b] = "idle" <=> stage[b] = "idle"
      BY <2>2 DEF AnswerSave, TypeOK
    <3>3. \A b \in Attempts \ {a} : Block(b, TRUE) \in Queued' <=> Block(b, TRUE) \in Queued
      <4>1. CASE stage[a] = "saving"
        BY <2>2, <4>1, QueuedLonger DEF AnswerSave, Block
      <4>2. CASE stage[a] # "saving"
        BY <2>2, <4>2 DEF AnswerSave, Queued, Positions
      <4>3. QED
        BY <4>1, <4>2
    <3>4. \A b \in Attempts \ {a} : Kept(b)
      BY <1>1, <1>2, <2>2, <3>2, <3>3 DEF Kept, HasEffect, TypeOK
    <3>5. ~Effected(a) /\ (Effected(a)' <=> ok)
      BY <1>1, <1>2, <2>2, <3>1 DEF HasEffect, TypeOK
    <3>6. \/ RequestState(a)' = RequestState(a)
          \/ RequestState(a) = "waiting" /\ RequestState(a)' = "effected"
      BY <2>2, <3>1, <3>2, <3>5 DEF RequestState
    <3>7. QED
      BY <3>4, <3>6, OneMoves
  <2>3. QED
    BY <1>11, <2>1, <2>2 DEF Firestore, Acknowledge, Reject
<1>12. CASE doLogout
  <2>1. \A b \in Attempts : Kept(b)
    BY <1>1, <1>2, <1>12 DEF doLogout, Kept, HasEffect, Queued, Positions
  <2>2. QED
    BY <2>1, AllKept
<1>13. CASE Kill
  BY <1>8, <1>13 DEF Kill
<1>14. QED
  BY <1>4, <1>5, <1>7, <1>10, <1>11, <1>12, <1>13 DEF Next

(* A stutter of AuthManager is one of AuthRequest.                         *)
LEMMA StutterRefines ==
  ASSUME UNCHANGED vars
  PROVE  UNCHANGED requests
<1>1. \A a \in Attempts : RequestState(a)' = RequestState(a)
  BY DEF vars, RequestState, Effected
<1>2. QED
  BY <1>1 DEF requests

(* Every subscriber is promised what AuthRequest says.                     *)
THEOREM RefinesAuthRequest == Spec => ImplementsAuthRequest
<1>1. TypeOK /\ IInv /\ SavesInv /\ TypeOK' /\ [Next]_vars => [Promise!Next]_requests
  BY NextRefines, StutterRefines
<1>2. QED
  BY <1>1, InitRefines, IInvHolds, SavesInvHolds, TypeCorrect, PTL
     DEF Spec, ImplementsAuthRequest, Promise!Spec
=============================================================================
