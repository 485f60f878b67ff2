---------------------------- MODULE AuthManager ----------------------------
(***************************************************************************)
(* Service/AuthManager.swift together with the Firebase calls it makes:    *)
(* performLogin, performRegistration (createUser, then setData of the      *)
(* user's document) and doLogout.                                          *)
(*                                                                         *)
(* Four parties run concurrently: the main queue of the process, the       *)
(* serial work queue of FirebaseAuth (the only writer of currentUser), the *)
(* Firebase Auth server and the Firestore server.  A subscription to an    *)
(* observable returned by performLogin or performRegistration is an        *)
(* attempt.  The uid the server gives to an account is named by the        *)
(* account's email, so "users/uid" is profiles[email].                     *)
(***************************************************************************)
EXTENDS Naturals, Sequences, FiniteSets

CONSTANTS
  Emails,    (* the email addresses an account can be made for              *)
  Attempts,  (* the subscriptions made during a run; bounds the model       *)
  None       (* no user, no document: the nil of the code                   *)

ASSUME NoneAssumption == None \notin Emails

VARIABLES
  accounts,   (* the accounts the Auth server holds                         *)
  profiles,   (* users/uid at the Firestore server: the email stored there  *)
  session,    (* currentUser, in memory and in the keychain                 *)
  op,         (* what an attempt subscribed to                              *)
  email,      (* the email it was given                                     *)
  stage,      (* where the attempt is, see Stages                           *)
  sink,       (* its AnonymousObservableSink: open?, and what it forwarded  *)
  docUid,     (* the uid saveInfoToFirestore read for it                    *)
  save,       (* its setData, kept on disk by Firestore until answered      *)
  created,    (* the attempts whose sign-up the Auth server carried out     *)
  mainQueue   (* callbacks dispatched to the main queue, not yet run        *)

vars == << accounts, profiles, session, op, email, stage, sink, docUid, save,
           created, mainQueue >>

server  == << accounts, created >>
request == << op, email >>

(***************************************************************************)
(* idle        not subscribed                                              *)
(* asked       signIn / createUser sent, no answer yet                     *)
(* granted     the server gave a token, the second request (the user's     *)
(*             account info) is out                                        *)
(* signInBlock the callback of signIn / createUser is on the main queue    *)
(* saving      setData has been called, no answer yet                      *)
(* saveBlock   the callback of setData is on the main queue                *)
(* done        nothing more will happen                                    *)
(* lost        the process died with the attempt in it                     *)
(* detached    the process died, createUser may yet reach the server       *)
(***************************************************************************)
Stages == {"idle", "asked", "granted", "signInBlock", "saving", "saveBlock",
           "done", "lost", "detached"}
InProcess == {"asked", "granted", "signInBlock", "saving", "saveBlock"}

NoSink == [open |-> FALSE, got |-> << >>]

(* The sink of Observable.create: after an error, or once disposed, what   *)
(* the subscribe closure still sends is dropped.                           *)
OnNext(s, r)  == IF s.open THEN [s EXCEPT !.got = Append(@, r)] ELSE s
OnError_KeepsOpen(s) == [open |-> s.open, got |-> Append(s.got, "error")]
OnError(s)   == IF s.open THEN [open |-> FALSE, got |-> Append(s.got, "error")]
                          ELSE s
Disposed(s)  == [s EXCEPT !.open = FALSE]

Init ==
  /\ accounts \in SUBSET Emails
  /\ profiles \in {p \in [Emails -> Emails \cup {None}] :
                     \A e \in Emails : p[e] = None \/ (p[e] = e /\ e \in accounts)}
  /\ session \in accounts \cup {None}
  /\ op = [a \in Attempts |-> "none"]
  /\ email = [a \in Attempts |-> None]
  /\ stage = [a \in Attempts |-> "idle"]
  /\ sink = [a \in Attempts |-> NoSink]
  /\ docUid = [a \in Attempts |-> None]
  /\ save = [a \in Attempts |-> "none"]
  /\ created = {}
  /\ mainQueue = << >>
-----------------------------------------------------------------------------
(* Subscribing.  A definition whose name has an underscore is the mutant   *)
(* of the one after it: the same step with a plausible bug in it.          *)

Subscribe(a, o, e) ==
  /\ stage[a] = "idle"
  /\ op' = [op EXCEPT ![a] = o]
  /\ email' = [email EXCEPT ![a] = e]
  /\ stage' = [stage EXCEPT ![a] = "asked"]
  /\ sink' = [sink EXCEPT ![a].open = TRUE]
  /\ UNCHANGED << server, profiles, session, docUid, save, mainQueue >>

performLogin(a, e)        == Subscribe(a, "login", e)
performRegistration(a, e) == Subscribe(a, "register", e)

(* flatMapLatest moving on, or the view model going away.  The dispose     *)
(* closures cancel neither the request nor a save.                         *)
Dispose(a) ==
  /\ sink[a].open
  /\ sink' = [sink EXCEPT ![a] = Disposed(@)]
  /\ UNCHANGED << server, profiles, session, request, stage, docUid, save, mainQueue >>
-----------------------------------------------------------------------------
(* The Auth server and the work queue of FirebaseAuth.                     *)

(* signInFlowAuthDataResultCallback: dispatch the completion to main.      *)
Dispatch_Overtakes(a, ok) == mainQueue' = << [att |-> a, ok |-> ok] >> \o mainQueue

Dispatch(a, ok) == mainQueue' = Append(mainQueue, [att |-> a, ok |-> ok])

AnswerSignIn(a, ok) ==
  /\ stage' = [stage EXCEPT ![a] = "signInBlock"]
  /\ Dispatch(a, ok)

VerifyPassword(a) ==
  /\ stage[a] = "asked"
  /\ op[a] = "login"
  /\ email[a] \in accounts
  /\ stage' = [stage EXCEPT ![a] = "granted"]
  /\ UNCHANGED << server, profiles, session, request, sink, docUid, save, mainQueue >>

(* The server creates the account; its answer may be lost, and the client  *)
(* that sent the request may be gone.                                      *)
SignUp(a) ==
  /\ stage[a] \in {"asked", "detached"}
  /\ op[a] = "register"
  /\ email[a] \notin accounts
  /\ accounts' = accounts \cup {email[a]}
  /\ created' = created \cup {a}
  /\ \/ /\ stage[a] = "asked"
        /\ stage' = [stage EXCEPT ![a] = "granted"]
        /\ UNCHANGED mainQueue
     \/ /\ stage[a] = "asked"
        /\ AnswerSignIn(a, FALSE)
     \/ /\ stage[a] = "detached"
        /\ stage' = [stage EXCEPT ![a] = "lost"]
        /\ UNCHANGED mainQueue
  /\ UNCHANGED << profiles, session, request, sink, docUid, save >>

(* Wrong password, no such account, email already in use, no network.      *)
Refuse(a) ==
  /\ stage[a] = "asked"
  /\ AnswerSignIn(a, FALSE)
  /\ UNCHANGED << server, profiles, session, request, sink, docUid, save >>

(* The second request answers and, in the same block of the work queue,    *)
(* updateCurrentUser saves the user to the keychain and to memory.         *)
RetrieveUser(a) ==
  /\ stage[a] = "granted"
  /\ session' = email[a]
  /\ AnswerSignIn(a, TRUE)
  /\ UNCHANGED << server, profiles, request, sink, docUid, save >>

(* The second request fails, or the keychain does: nobody is signed in,    *)
(* whatever the first request did.                                         *)
RetrieveUserFails_Forced(a) ==
  /\ stage[a] = "granted"
  /\ session' = email[a]
  /\ AnswerSignIn(a, FALSE)
  /\ UNCHANGED << server, profiles, request, sink, docUid, save >>

RetrieveUserFails(a) ==
  /\ stage[a] = "granted"
  /\ AnswerSignIn(a, FALSE)
  /\ UNCHANGED << server, profiles, session, request, sink, docUid, save >>
-----------------------------------------------------------------------------
(* Blocks of the main queue.                                               *)

RunBlock_Repeats(a, st, ok) ==
  /\ mainQueue # << >>
  /\ Head(mainQueue) = [att |-> a, ok |-> ok]
  /\ stage[a] = st
  /\ UNCHANGED mainQueue

RunBlock(a, st, ok) ==
  /\ mainQueue # << >>
  /\ Head(mainQueue) = [att |-> a, ok |-> ok]
  /\ stage[a] = st
  /\ mainQueue' = Tail(mainQueue)

(* The completion of signIn: no return after onError.                      *)
LoginCallback_NoOnError(a, ok) ==
  /\ RunBlock(a, "signInBlock", ok)
  /\ op[a] = "login"
  /\ stage' = [stage EXCEPT ![a] = "done"]
  /\ sink' = [sink EXCEPT ![a] = OnNext(@, "true")]
  /\ UNCHANGED << server, profiles, session, request, docUid, save >>

LoginCallback_ErrorReturns(a, ok) ==
  /\ RunBlock(a, "signInBlock", ok)
  /\ op[a] = "login"
  /\ stage' = [stage EXCEPT ![a] = "done"]
  /\ sink' = [sink EXCEPT ![a] = IF ok THEN OnNext(@, "true") ELSE @]
  /\ UNCHANGED << server, profiles, session, request, docUid, save >>

LoginCallback(a, ok) ==
  /\ RunBlock(a, "signInBlock", ok)
  /\ op[a] = "login"
  /\ stage' = [stage EXCEPT ![a] = "done"]
  /\ sink' = [sink EXCEPT ![a] = OnNext(IF ok THEN @ ELSE OnError(@), "true")]
  /\ UNCHANGED << server, profiles, session, request, docUid, save >>

(* "failed to create User: ", onNext(false), return.                       *)
CreateUserFailed_NoReturn(a) ==
  /\ RunBlock(a, "signInBlock", FALSE)
  /\ op[a] = "register"
  /\ session # None
  /\ docUid' = [docUid EXCEPT ![a] = session]
  /\ save' = [save EXCEPT ![a] = "pending"]
  /\ stage' = [stage EXCEPT ![a] = "saving"]
  /\ sink' = [sink EXCEPT ![a] = OnNext(@, "false")]
  /\ UNCHANGED << server, profiles, session, request >>

CreateUserFailed_Silent(a) ==
  /\ RunBlock(a, "signInBlock", FALSE)
  /\ op[a] = "register"
  /\ stage' = [stage EXCEPT ![a] = "done"]
  /\ UNCHANGED << server, profiles, session, request, sink, docUid, save >>

CreateUserFailed(a) ==
  /\ RunBlock(a, "signInBlock", FALSE)
  /\ op[a] = "register"
  /\ stage' = [stage EXCEPT ![a] = "done"]
  /\ sink' = [sink EXCEPT ![a] = OnNext(@, "false")]
  /\ UNCHANGED << server, profiles, session, request, docUid, save >>

(* The user whose uid saveInfoToFirestore stores under: currentUser at the *)
(* time of the callback, not the user the callback was given.              *)
SaveUid(a) == session

(* saveInfoToFirestore, subscribed to at once; its disposable goes to the  *)
(* bag of the shared AuthManager, which is never emptied.                  *)
saveInfoToFirestore(a) ==
  /\ RunBlock(a, "signInBlock", TRUE)
  /\ op[a] = "register"
  /\ SaveUid(a) # None
  /\ docUid' = [docUid EXCEPT ![a] = SaveUid(a)]
  /\ save' = [save EXCEPT ![a] = "pending"]
  /\ stage' = [stage EXCEPT ![a] = "saving"]
  /\ UNCHANGED << server, profiles, session, request, sink >>

SetDataCallback_IgnoresError(a, ok) ==
  /\ RunBlock(a, "saveBlock", ok)
  /\ stage' = [stage EXCEPT ![a] = "done"]
  /\ sink' = [sink EXCEPT ![a] = OnNext(@, "true")]
  /\ UNCHANGED << server, profiles, session, request, docUid, save >>

SetDataCallback(a, ok) ==
  /\ RunBlock(a, "saveBlock", ok)
  /\ stage' = [stage EXCEPT ![a] = "done"]
  /\ sink' = [sink EXCEPT ![a] = OnNext(@, IF ok THEN "true" ELSE "false")]
  /\ UNCHANGED << server, profiles, session, request, docUid, save >>

(* doLogout: signOut is synchronous.  When the keychain fails nothing      *)
(* changes, a stuttering step here.                                        *)
doLogout ==
  /\ session # None
  /\ session' = None
  /\ UNCHANGED << server, profiles, request, stage, sink, docUid, save, mainQueue >>
-----------------------------------------------------------------------------
(* Firestore: a mutation is sent until the server answers, also after a    *)
(* restart of the application.  Nothing bounds the time to the answer.     *)

WriteProfile(a) == profiles' = [profiles EXCEPT ![docUid[a]] = email[a]]

AnswerSave(a, ok) ==
  IF stage[a] = "saving"
  THEN /\ stage' = [stage EXCEPT ![a] = "saveBlock"]
       /\ Dispatch(a, ok)
  ELSE UNCHANGED << stage, mainQueue >>

(* The server applied the write and the acknowledgement was lost: the      *)
(* mutation stays in the queue and is sent again.                          *)
CommitUnacknowledged(a) ==
  /\ save[a] = "pending"
  /\ WriteProfile(a)
  /\ UNCHANGED << server, session, request, stage, sink, docUid, save, mainQueue >>

Acknowledge(a) ==
  /\ save[a] = "pending"
  /\ WriteProfile(a)
  /\ save' = [save EXCEPT ![a] = "acked"]
  /\ AnswerSave(a, TRUE)
  /\ UNCHANGED << server, session, request, sink, docUid >>

Reject(a) ==
  /\ save[a] = "pending"
  /\ save' = [save EXCEPT ![a] = "rejected"]
  /\ AnswerSave(a, FALSE)
  /\ UNCHANGED << server, profiles, session, request, sink, docUid >>
-----------------------------------------------------------------------------
(* The death of the process.  The session, the servers and Firestore's     *)
(* mutation queue survive; attempts, sinks and queued blocks do not.       *)
Die ==
  /\ stage' = [a \in Attempts |->
                 IF stage[a] \notin InProcess THEN stage[a]
                 ELSE IF stage[a] = "asked" /\ op[a] = "register" THEN "detached"
                 ELSE "lost"]
  /\ sink' = [a \in Attempts |-> Disposed(sink[a])]
  /\ mainQueue' = << >>
  /\ UNCHANGED << server, profiles, session, request, docUid, save >>

Kill ==
  /\ \E a \in Attempts : stage[a] \in InProcess
  /\ Die

(* uid is "" when nobody is signed in any more, and document("") raises.   *)
EmptyUidCrash(a) ==
  /\ mainQueue # << >>
  /\ Head(mainQueue) = [att |-> a, ok |-> TRUE]
  /\ stage[a] = "signInBlock"
  /\ op[a] = "register"
  /\ SaveUid(a) = None
  /\ Die
-----------------------------------------------------------------------------
AuthServer(a) == VerifyPassword(a) \/ SignUp(a) \/ Refuse(a)
                 \/ RetrieveUser(a) \/ RetrieveUserFails(a)

MainQueue(a) == \/ \E ok \in BOOLEAN : LoginCallback(a, ok)
                \/ CreateUserFailed(a)
                \/ saveInfoToFirestore(a)
                \/ EmptyUidCrash(a)
                \/ \E ok \in BOOLEAN : SetDataCallback(a, ok)

Firestore(a) == CommitUnacknowledged(a) \/ Acknowledge(a) \/ Reject(a)

Next ==
  \/ \E a \in Attempts :
       \/ \E e \in Emails : performLogin(a, e) \/ performRegistration(a, e)
       \/ Dispose(a)
       \/ AuthServer(a)
       \/ MainQueue(a)
       \/ Firestore(a)
  \/ doLogout
  \/ Kill

Spec == Init /\ [][Next]_vars

(* The HTTP requests of FirebaseAuth time out, so they are answered in the *)
(* end, and the main queue is served.  Firestore has no time-out.          *)
Fairness == \A a \in Attempts : WF_vars(AuthServer(a)) /\ WF_vars(MainQueue(a))

FairSpec == Spec /\ Fairness
-----------------------------------------------------------------------------
Sinks  == [open : BOOLEAN, got : Seq({"true", "false", "error"})]
Blocks == [att : Attempts, ok : BOOLEAN]

(* Every variable has its type, and an attempt that has been subscribed to *)
(* has an email (the form gives performLogin and performRegistration one). *)
TypeOK ==
  /\ accounts \subseteq Emails
  /\ profiles \in [Emails -> Emails \cup {None}]
  /\ session \in Emails \cup {None}
  /\ op \in [Attempts -> {"none", "login", "register"}]
  /\ email \in [Attempts -> Emails \cup {None}]
  /\ stage \in [Attempts -> Stages]
  /\ sink \in [Attempts -> Sinks]
  /\ docUid \in [Attempts -> Emails \cup {None}]
  /\ save \in [Attempts -> {"none", "pending", "acked", "rejected"}]
  /\ created \subseteq Attempts
  /\ mainQueue \in Seq(Blocks)
  /\ \A a \in Attempts : stage[a] # "idle" => email[a] \in Emails

(* An attempt reports at most one result.  performLogin sends onError and  *)
(* then onNext(true) for a failed login (AuthManager.swift:26-29): only    *)
(* the stopped sink keeps the second one from the subscribers.             *)
AtMostOneResult == \A a \in Attempts : Len(sink[a].got) <= 1

(* A registration reports true only when the account exists and Firestore  *)
(* has acknowledged a document for it, so a restart right after it finds   *)
(* both (AuthManager.swift:60-63, 82-88).                                  *)
SuccessIsDurable ==
  \A a \in Attempts : op[a] = "register" /\ sink[a].got = << "true" >>
    => /\ email[a] \in accounts
       /\ docUid[a] # None
       /\ profiles[docUid[a]] # None

Positions   == 1 .. Len(mainQueue)
IsSignIn(b) == b.ok /\ stage[b.att] = "signInBlock"

(* While the callback of a successful sign-in waits on the main queue, the *)
(* session is its own or that of a sign-in whose callback waits behind it, *)
(* unless the user has been signed out: the work queue is serial, so the   *)
(* callbacks wait in the order in which the sessions were set.             *)
SessionFromWaitingSignIn ==
  \A i \in Positions : IsSignIn(mainQueue[i]) /\ session # None =>
     \E j \in i .. Len(mainQueue) :
        IsSignIn(mainQueue[j]) /\ email[mainQueue[j].att] = session

(* saveInfoToFirestore takes another user's uid only when that user's      *)
(* sign-in completed after this one and its callback waits behind this one *)
(* (AuthManager.swift:60, 72).                                             *)
WrongUidOnlyIfOvertaken ==
  [][\A a \in Attempts :
       docUid'[a] # docUid[a] /\ docUid'[a] # email[a]
         => \E j \in 2..Len(mainQueue) :
              IsSignIn(mainQueue[j]) /\ email[mainQueue[j].att] = docUid'[a]]_vars

(* The registration a has an account of its own and may still write a      *)
(* document for it.                                                        *)
MayStillSave(a) ==
  /\ op[a] = "register"
  /\ \/ save[a] = "pending"
     \/ stage[a] = "granted"
     \/ \E i \in Positions :
          mainQueue[i].att = a /\ IsSignIn(mainQueue[i])

(* An account without a document, and no registration under its email that *)
(* may yet write one.                                                      *)
Orphan(e) ==
  /\ e \in accounts
  /\ profiles[e] = None
  /\ \A a \in Attempts : email[a] = e => ~MayStillSave(a)

(* There is no way back.  An account left without its document (setData    *)
(* refused, or the process killed between createUser and setData) stays    *)
(* without one: the server refuses a second sign-up, whose error branch    *)
(* returns at AuthManager.swift:58, and a login writes no document.  Only  *)
(* another user's registration can put a document, its own, in that place. *)
OrphanIsNotRepaired ==
  [][\A e \in Emails : Orphan(e) => Orphan(e)' \/ profiles'[e] \notin {None, e}]_vars

(* A login reports to its subscriber, unless it was disposed of (the       *)
(* process dying included).                                                *)
LoginAnswered ==
  \A a \in Attempts : op[a] = "login" /\ stage[a] = "asked"
    ~> sink[a].got # << >> \/ ~sink[a].open

(* A registration reports, is disposed of, or gets as far as setData,      *)
(* which need never answer.                                                *)
RegistrationAnsweredOrSaving ==
  \A a \in Attempts : op[a] = "register" /\ stage[a] = "asked"
    ~> sink[a].got # << >> \/ ~sink[a].open \/ stage[a] = "saving"

(* What the text printed at AuthManager.swift:56 says: when a registration *)
(* takes the error branch, its user was not created.                       *)
FailedToCreateUser ==
  [][\A a \in Attempts : CreateUserFailed(a) => a \notin created]_vars
-----------------------------------------------------------------------------
(* The inductive invariant behind the safety properties.                   *)

(* An attempt has at most one block on the main queue, and its stage says  *)
(* so.                                                                     *)
QueueInv ==
  /\ \A i \in Positions : stage[mainQueue[i].att] \in {"signInBlock", "saveBlock"}
  /\ \A i, j \in Positions : mainQueue[i].att = mainQueue[j].att => i = j

(* Nothing has been reported before the last callback of an attempt.       *)
ReportInv ==
  \A a \in Attempts :
    /\ Len(sink[a].got) <= 1
    /\ stage[a] \in InProcess \cup {"idle"} => sink[a].got = << >>

(* How the save of an attempt, its stage and the servers agree.            *)
SaveInv ==
  \A a \in Attempts :
    /\ stage[a] = "idle" => save[a] = "none"
    /\ save[a] = "none" <=> docUid[a] = None
    /\ save[a] # "none" => email[a] \in accounts
    /\ save[a] = "acked" => profiles[docUid[a]] # None
    /\ stage[a] = "granted" => email[a] \in accounts
    /\ op[a] = "register" /\ sink[a].got = << "true" >> => save[a] = "acked"

(* What a waiting callback is entitled to report.                          *)
BlockInv ==
  \A i \in Positions : mainQueue[i].ok =>
    /\ IsSignIn(mainQueue[i]) => email[mainQueue[i].att] \in accounts
    /\ stage[mainQueue[i].att] = "saveBlock" => save[mainQueue[i].att] = "acked"

(* The safety properties above follow from this conjunction, which every   *)
(* step of AuthManager preserves.                                          *)
IInv == QueueInv /\ ReportInv /\ SaveInv /\ BlockInv /\ SessionFromWaitingSignIn
=============================================================================
