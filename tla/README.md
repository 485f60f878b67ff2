# TLA+ models of MBER

MBER is an iOS application (MVVM with coordinators, RxSwift, Firebase): a login
screen, a registration screen and a map. Its own code is `src/MBER/MBER`, 1727
lines of Swift; `src/MBER/Pods` holds the libraries, of which only the behaviour
the application depends on is modelled, from the lines it runs. There are no tests
in the repository and its README names the architecture only, so every definition
here is translated from the source. `PROJECT.json` gives the lines of each.

## 1. Inventory

| Component | State it keeps | Operations | Interacts with |
|---|---|---|---|
| `AuthManager` (Service) | a disposeBag that is never emptied | `performLogin`, `performRegistration`, `saveInfoToFirestore`, `doLogout` | FirebaseAuth, Firestore; the view models subscribe to its observables |
| FirebaseAuth, Firestore (pods and servers) | accounts, documents, `currentUser` (keychain), the mutation queue (disk) | sign-in and sign-up in two requests each, `updateCurrentUser`, `setData`, `signOut` | a serial work queue, the main queue, the network |
| `LoginViewModel`, `RegistrationViewModel` | latest form values, the running request (`flatMapLatest`), whether `isLoginCompleted` has ended | button taps, validation | controllers bind to them, coordinators subscribe to their outputs |
| Coordinators (`App`, `Login`, `Registration`, `Home`) | `childCoordinators`, `isCompleted`, `disposeBag` | `start`, `add`, `remove`, pushes and pops, `switchToHomeVC`, `switchToLoginVC` | each other, one `UINavigationController`, `loginCheck()` |
| Firestore client, the way of a write (`remote_store.cc`, `stream.cc`, `local_store.cc`, `sync_engine.cc`, ...) | mutation queues on disk, the write pipeline, the write stream, callbacks, the credentials | `SetData`, user changes, token requests, stream open/close/idle/back-off, responses and errors | FirebaseAuth's notices and tokens, the server, `AuthManager`'s callback |
| Firestore's worker queue (`async_queue.cc`, `executor_libdispatch.mm`, `task.cc`) | `tasks_`, `schedule_`, a reference count and a state per task | enqueue, delay, cancel, dispose, complete | libdispatch, every thread that calls Firestore |
| Progress HUD (`UIViewController.hud`) | one static `JGProgressHUD`: target, fade, put-off dismiss | `showActivityIndicator` | both authentication screens |
| Controllers | the views, the keyboard offset | `bind`, taps | view models, HUD |
| `HomeViewModel`, `HomeController` | `CLLocationManager`, authorization | `enableLocationServices`, authorization changes, location updates | CoreLocation, MapKit |
| `SceneDelegate` | the window, the root coordinator | launch | `AppCoordinator` |
| `NetworkManager`, `HomeModel`, `User`, `Trip`, `AuthCoordinator`, custom views | none that any operation of this version uses | - | - |

How they interact: a tap goes from a controller through a relay of the view model
to an observable of `AuthManager`; FirebaseAuth answers on its work queue and
dispatches the completion to the main queue; the result travels back through
`flatMapLatest` and a `Signal` to two subscribers, the controller (HUD) and the
coordinator (navigation), which outlive or die before the request.

What makes each of them correct, and what is hard about it:

- **AuthManager.** One result per attempt; `true` only for what is durable; the
  document of a user stored under that user's uid; a way back after a partial
  failure. Hard: four parties run concurrently, `currentUser` is read in a callback
  while the work queue may already have replaced it, answers get lost, the process
  dies between the two halves of a registration, Firestore retries for ever.
- **Coordinators.** The visible screen has a living coordinator; nothing is
  navigated twice or popped by the wrong party; the map is for signed-in users.
  Hard: lifetimes are reference counts, swipes are heard by nobody, results arrive
  after their screen has gone.
- **HUD.** It is up only for a request that is out, and goes away. Hard: one object
  for all screens that ignores calls made during a fade.
- **Firestore's writes.** Each write is kept until the server settles it, settles
  once, and its caller hears the truth once; no batch goes out with the token of
  another user. Hard: responses are matched with requests only by their order, over a
  pipeline that copies the front of a queue on disk, over streams that are closed and
  opened again by timers, errors, changes of user and of connectivity.
- **Firestore's worker queue.** No task is used after it was deleted, none is left
  behind, and `Dispose` leaves quiet. Hard: libdispatch cannot take back what it was
  given, operations cancel themselves and dispose of their queue.
- **Forms.** The button is enabled exactly when the values are valid, and what is sent
  is what is shown. Hard: two readers of the same values join at different points.
- **Home.** A user who grants the location is asked for the rest and gets updates.

## 2. Modules and plan

Built, in this order:

| Module | What it models |
|---|---|
| `AuthManager` | `Service/AuthManager.swift` with the two servers, the work queue, the main queue and deaths of the process |
| `MCAuthManager` | its instance for TLC (symmetry) |
| `AuthRequest` | abstract: what a subscriber of `AuthManager` is promised |
| `AuthManagerRefinement` | the refinement mapping from `AuthManager` to `AuthRequest` |
| `AuthManagerProofs` | the invariants of `AuthManager` and that refinement, proved for every set of emails and attempts |
| `Coordinators` | the coordinator tree, object lifetimes, the navigation stack |
| `CoordinatorsProofs` | its inductive invariant and its safety properties, proved with swipes and logouts or without |
| `ProgressHUD` | the shared HUD and the two screens that use it |
| `ProgressHUDProofs` | its invariants, proved |
| `SignUpForm` | the values of the registration form, from the controls to the button and the request |
| `LoginForm` | the same for the login form, whose subjects replay |
| `HomeLocation` | the location permission of Home |
| `Screens` | the three screens one after the other: composes `SignUpForm`, `LoginForm`, `HomeLocation` |
| `ScreensProofs` | their invariants and what the forms send, proved for all lengths |
| `FirestoreWrites` | the way of a `setData` through the Firestore client to the server and back |
| `MCFirestoreWrites` | its instance for TLC (symmetry) |
| `DurableWrite` | abstract: what `setData` promises; `FirestoreWrites` implements it |
| `FirestoreWritesProofs` | the inductive invariant of `FirestoreWrites` and its properties of stream and queues, proved |
| `DurableWriteProofs` | `FirestoreWrites` implements `DurableWrite`, proved |
| `FirestoreUsersProofs` | whose queue, whose token: proved |
| `Executor` | Firestore's worker queue: `AsyncQueue` over `ExecutorLibdispatch` and `Task` |
| `ExecutorProofs` | its invariants, proved for every number of tasks and threads |

Planned next:

1. The action properties about `FirestoreWrites` that the composition with
   `AuthManager` needs.
2. `GrpcStream`: `remote/grpc_stream.cc` and `grpc_completion.cc`, which
   `FirestoreWrites` takes as one step per call: the buffered writer, the completions
   on gRPC's thread, and the shutdown that waits for them.
3. `MBER`: the composition of `AuthManager` with `FirestoreWrites` in the place of its
   `save`, and of `Coordinators` with `ProgressHUD`.
4. `KeyboardLayout`: `getKeyboardFrameHeight` and the transform it feeds.

## 3. AuthManager

A subscription to `performLogin` or `performRegistration` is an *attempt*. `stage`
is how far it has come, `sink` is the RxSwift sink between the callbacks and the
subscriber (after `onError`, or once disposed, it drops what it gets), `mainQueue` is
the callbacks that FirebaseAuth and Firestore have dispatched and that have not run.
`session` is `currentUser`; `accounts` and `profiles` are the two servers (a uid is
named by the email it belongs to). `save` is a `setData`, which lives on disk until
it is answered. `created` remembers which sign-ups the server carried out.

| Action | Code |
|---|---|
| `performLogin`, `performRegistration` | the subscription, the request goes out |
| `Dispose` | `flatMapLatest` moves on, or the screen goes: the request is not cancelled |
| `VerifyPassword`, `SignUp`, `Refuse` | the first request at the server; `SignUp` may lose its answer, and may happen after the client died |
| `RetrieveUser`, `RetrieveUserFails` | the account-info request, then `updateCurrentUser` in the same block of the work queue |
| `LoginCallback` | `AuthManager.swift:25-30`, `onError` without `return` |
| `CreateUserFailed`, `saveInfoToFirestore` | `AuthManager.swift:54-64` |
| `CommitUnacknowledged`, `Acknowledge`, `Reject` | the write at the Firestore server |
| `SetDataCallback` | `AuthManager.swift:82-89` |
| `doLogout` | `AuthManager.swift:39-49` |
| `Kill`, `EmptyUidCrash` | the process dies; `document("")` raises when the user has been signed out meanwhile |

Runs:

- `auth` (3 attempts, 2 emails, symmetric). Three attempts are a login and a
  registration racing and a retry; two emails are enough for a wrong uid. Invariants
  `AtMostOneResult`, `SuccessIsDurable`, `SessionFromWaitingSignIn`, `IInv`; action
  properties `WrongUidOnlyIfOvertaken` (the one situation in which a document goes
  under another user's uid) and `OrphanIsNotRepaired` (an account left without a
  document stays without one: the code has no way back).
- `auth_promises` (2 attempts). Every attempt implements one request of `AuthRequest`
  (`ImplementsAuthRequest`): it takes effect at most once, reports at most one result,
  success only after the effect and failure only without it, nothing once disposed of.
  `LoginAnswered`, `RegistrationAnsweredOrSaving` say that it answers. Fairness:
  the requests of FirebaseAuth are HTTP requests with a time-out, so the server's
  part ends in an answer or an error, and the main queue is served. There is no
  fairness for Firestore: `setData` has no time-out and never answers offline, so a
  registration may wait for ever; the property stops at `saving`.
- `auth_failed_to_create` (a violation). The text printed at
  `AuthManager.swift:56` says that the user was not created. TLC shows the error
  branch for a user that was: the account-info request after the sign-up failed, or
  the answer to the sign-up was lost. The retry is then refused and
  `OrphanIsNotRepaired` says what remains.

### What is proved

`AuthManagerProofs` proves, for every `Emails`, `Attempts` and `None \notin Emails`
(the only assumption):

| Theorem | Statement |
|---|---|
| `TypeCorrect` | `Spec => []TypeOK` |
| `IInvHolds` | `Spec => []IInv` |
| `OneResult` | `Spec => []AtMostOneResult` |
| `SuccessDurable` | `Spec => []SuccessIsDurable` |
| `SessionOfWaitingSignIn` | `Spec => []SessionFromWaitingSignIn` |
| `WrongUid` | `Spec => WrongUidOnlyIfOvertaken` |
| `OrphanStays` | `Spec => OrphanIsNotRepaired` |
| `RefinesAuthRequest` | `Spec => ImplementsAuthRequest` |

The properties are not inductive. That a sink gets one result needs to know that
nothing was reported before the last callback (`ReportInv`) and that an attempt has
one block on the main queue (`QueueInv`). That `true` is durable needs the agreement
of `save`, `stage` and the servers (`SaveInv`) and what a waiting block may say
(`BlockInv`). `WrongUidOnlyIfOvertaken` needs `SessionFromWaitingSignIn`: the work
queue is serial, so callbacks wait on the main queue in the order in which their
sessions were set. `IInv` is the conjunction; run `auth` checks it too. The proof
that a step preserves it has one lemma per group of actions.

The refinement and `OrphanStays` need one more invariant, `SavesInv`: only
registrations save, not before the callback of their sign-up has run, and a refused
write is never told as stored (`SavesInvHolds`). Both look at the main queue as a set
of blocks, one per attempt at most; `QueuedLonger` and `QueuedShorter` say what a
dispatch and a run do to it. Then every action moves the request of one attempt and
no other (`OneMoves`), and each such move is an action of `AuthRequest`
(`NextRefines`). An orphan stays one because a step that comes to save for its email
has either been on that way before or finds that its server has just made the account
(`NoNewSaver`), which exists already.

Only model-checked here: the two liveness properties.

## 4. Coordinators

`ui` holds, for each coordinator, its kind and who holds it in `childCoordinators`,
and the stack of screens with their owners. `armed` is the set of coordinators whose
`isCompleted` still has the handler their parent subscribed. `Living` is what is left
without the logins and registrations that nothing but one another holds; the
application is held by the scene, and every started `HomeCoordinator` by a closure in
its own `disposeBag`, which captures it. `Becomes` lets the others go. The handlers are functions on `ui`
named as in the code and the actions apply them.

Requests are reduced to what navigation depends on, in the same words as
`AuthManager`: asked, signed in, ended. A second tap while a request is out replaces
it (`flatMapLatest`) and is, for navigation, the same request. Names of coordinators
are used again when nothing refers to them, so `MaxId` bounds those alive at a time
(homes, which never go, count until the next launch).

The HUD takes the touches of a screen whose request is out, but UIKit may let one
through while it fades; here no tap is ruled out, so that nothing rests on the HUD
(`ProgressHUD` models it). Two switches say what else may happen:

- `InteractivePop`: UIKit lets the user swipe a screen away, as in this version.
- `LogoutWired`: a control feeds `logoutButtonTapped`, which `HomeCoordinator`
  handles; in this version none does.

The runs:

- `coordinators_buttons`: buttons and logout, no swipes, `MaxId` 8. `TopIsServed` and
  `NoRegistrationLeaks` hold: the buttons the user sees always work, and a registration
  coordinator of the Login screen the application started with does not outlive its
  screen. Of the Login screens that a logout brings this is not true. The late result of
  an earlier login can push a Home over a Registration screen that waits; after another
  logout and a tap a second Registration screen is on top, and it is that one which the
  result of the first pops: its coordinator stays behind. It takes eight coordinators,
  and it was the attempt to prove the stronger statement that showed it. The converse of
  `NoRegistrationLeaks` does not hold: when a tap on the register button gets through
  while a login is out, the login completes with a Registration screen above it and
  its coordinator goes, with the children it holds; that screen is then without a
  coordinator, under a Home.
- `coordinators_as_shipped`: swipes, no logout, `MaxId` 8. A swipe brings screens to
  the top that have lost their coordinator, but not before a Home was shown
  (`ServedUntilHome`). A registration lies on the login that opened it, so its pop
  uncovers the right screen (`RegistrationOnItsLogin`). The map without a session is
  the work of a failed login (`HomeWithoutSessionAfterFailedLogin`). No coordinator
  starts two homes (`OneHomePerCoordinator`).
- `coordinators_live`: swipes, `MaxId` 4. `LoginReachesHome`;
  fairness only of the main queue that runs the callback of a login.
- `coordinators_failed_login` (a violation): `HomeIsForSignedIn`, which is what
  `LoginCoordinator.start` establishes (`LoginCoordinator.swift:24-28`). The handler of
  `isLoginCompleted` ignores its value (line 58), and a failed login emits `false`.

`MaxId` leaves room for two authentication rounds in a launch (a login, a
registration and a home each), enough for every pair of coordinators to interfere.
The bound is in the guard `Room` of the taps, which keeps a name free for each request
that is out, so that the bound never keeps a result from its handler.
Swipes and logouts together are no run, since no control of this version logs out;
`OneHomePerCoordinator` and `ServedUntilHome` are proved for them all the same.
Whoever wires a logout up should know that `RegistrationOnItsLogin` and
`HomeWithoutSessionAfterFailedLogin` do not hold then: a login swiped away under a
later Home still gets its result.
Left out: the `UIWindow` each switch makes, which shows the same stack.

### What is proved

`CoordinatorsProofs` proves for every `MaxId` of at least 3 and both values of each
switch, unless the theorem says otherwise:

| Theorem | Statement |
|---|---|
| `Invariance`, `TypeCorrect` | `Spec => []Inv`, `Spec => []TypeOK` |
| `OneHomeEach` | `Spec => []OneHomePerCoordinator` |
| `ServedUntilTheFirstHome` | `Spec => []ServedUntilHome` |
| `ServedWithoutSwipes` | `Spec => []TopIsServed`, if `~InteractivePop` |
| `NoLeakWithoutSwipes` | `Spec => []NoRegistrationLeaks`, if `~InteractivePop` |
| `RegistrationAboveItsLogin` | `Spec => []RegistrationOnItsLogin`, if `~LogoutWired` |
| `MapWithoutSession` | `Spec => []HomeWithoutSessionAfterFailedLogin`, if `~LogoutWired` |

`Inv` is `General`, which holds whatever the switches, with `Plain` if nothing logs out
and `Buttons` if nothing is swiped. `General` says who may be whose child (`Tree`): a
login is a child of the application or of a home, a registration of a login, a home of
either. References are therefore at most two deep under something that never goes, and
`AliveIsKept` replaces `Living`, a union over sets of orphans, by `Kept`, which looks at
a coordinator and its parent; every other lemma uses `Kept`. The rest of `General` is
the stack (each coordinator has one screen at most), the requests, the room kept for
their results, that a coordinator which has brought a Home has completed or has neither
screen nor request left (`HomesOK`), and `ServedOK`.

The properties are not inductive by themselves. That a coordinator brings one Home at
most needs to know of one that has brought a Home that it has no request left and
nothing to ask with. `TopIsServed` needs `Buttons`: a completing registration pops, and
what it uncovers has its coordinator only because it is the login that holds the
registration; and the login the application started with, with its registration, is on
top only until a Home is shown. `RegistrationOnItsLogin` needs that only the Login
screen at the root asks, and that a registration with a coordinator is on top.

A step is a handler followed by `deinit` (`Becomes`). `BecomesWhole` shows once that
what `deinit` takes away disturbs no part of the invariant, and one lemma per handler
(`GoToRegisterWhole`, `HomeWhole`, `LogoutWhole`, ...) shows that the handler leaves the
invariant in order. TLC has checked `Inv` with both switches on and with each of them
alone. `LoginReachesHome` is liveness and only model-checked.

## 5. ProgressHUD

`show`, `dismiss` and the two clean-ups are the functions of `JGProgressHUD.m` the
application reaches. `stack`, `request`, `served` and `ended` are what decides who calls
them: the screens over one Login screen, the screens that wait, whether
`LoginCoordinator` exists and whether `isLoginCompleted` has completed. Whether UIKit
lets a tap through during a fade is left open. A popped screen is taken to go at once.
The module has no constants: its state space is finite and TLC covers it.

- `hud`: `StandsForARequest` (the HUD stands on a screen only while the screen waits,
  or on Login after a failed login). The exception is real: after a failed login and
  a swipe back, a tap shows the HUD and sends nothing, and only a restart takes the
  HUD down.
  `LoginIndicatorGoesAway`, `RegistrationIndicatorGoesAway`: once its request is
  answered it goes. Fairness: UIKit runs the completion of every animation, and
  FirebaseAuth times out; a registration need never be answered.

### What is proved

`ProgressHUDProofs` proves `TypeOK` (`TypeCorrect`) and `StandsForARequest`
(`IndicatorMeansRequest`) for a stack of any height. `StandsForARequest` speaks of a HUD
at rest, so a step earlier it needs to know the same of a HUD that fades in and will
not be dismissed, and that a put-off dismiss exists only during a fade (`Shown`). That a
waiting screen is on the stack needs the shape of the stack: Login at the bottom and
nowhere else, and no Home over a Registration that waits while `LoginCoordinator`
exists (`Stacked`), because the completion of a registration replaces whatever is on
top. The two liveness properties are model-checked.

## 6. The screens

`SignUpForm`: `values` is what `combineLatest` holds of each relay, `latest` what
`withLatestFrom` took last, `isEnabled` what `isFormValid` made of it. `Bind` runs the
statements of `RegistrationController.bind` in their order, on the main thread and
before the screen is visible; `Edit` is a change of one control. `withLatestFrom` is
connected to the shared sequence before the controls, `isFormValid` after them, so the
first values reach only the former: `share()` replays nothing.

`LoginForm` is the same for the login: its subjects hold a value from the start, so
each of the two `combineLatest` gives its reader the current values when it subscribes.

`HomeLocation`: `status` is the authorization, which belongs to iOS and outlives the
screen; `prompt` is the question iOS shows; `events` are the callbacks of the location
manager's delegate. iOS shows one question at a time, asks for Always once, and calls
the delegate when it is set and at every change: this is the documented behaviour of
CoreLocation, which is not in the repository.

`Screens` puts them one after the other: launch, login, the registrations pushed over
it, Home. Every registration screen is a new one; the login screen stays.

- `screens`: lengths 0, 2, 3, 6 and 7 for names and passwords on the registration
  form and 0, 6 and 7 on the login form, both sides of each bound; the lengths matter
  only through these comparisons. Two changes in the Settings, enough to withdraw a
  permission and to give it back.
  `ButtonsAgreeWithScreens`, `FormsSendWhatIsShown`: on both forms, from the moment
  the screen can be seen, although the two readers of the values join `bind()` at
  different points. `AskedForAlways`: a user who allows the location When In Use is
  asked for Always, once. Fairness: the main run loop delivers what CoreLocation reports.

Location updates are started where `HomeViewModel` is made and nowhere else, so a user
who grants Always to the question that Home itself asks gets none before the next Home:
`HomeController.bind` waits for locations that nobody has asked for. The model shows
this in one line of `enableLocationServices`; a property would only repeat it.

### What is proved

`ScreensProofs` proves `ButtonsAgree` and `FormsSend` for every set of lengths (natural
numbers, 0 among them: an empty field) and every `NoValue` that is none of the values. The invariant says, statement by statement of `bind()`, what has
arrived where: on the registration form a relay has a value once its control is bound,
the tuple is complete after the fifth statement, and the button is still disabled then,
rightly, because the form shows nothing yet (`SignUpInv`); on the login form the
subjects have what is shown from the start and each reader gets it when it joins
(`LoginInv`). `AskedForAlways` is liveness and model-checked.

## 7. FirestoreWrites

Four queues run concurrently. FirebaseAuth's work queue sets `session` and dispatches
a notice, and after it the completion of `createUser`, to the main queue (`mainQueue`).
There, `saveInfoToFirestore` and `SetData` are the block of that completion, cut where it
reads `currentUser`, `CredentialChange` is the observer of the credentials provider,
`TokenCallback` the answer to `GetToken`.
They put operations on Firestore's worker queue (`tasks`). `remote` is
`RemoteStore` with its `WriteStream`: the pipeline, the state of the stream, the idle
timer, the close count, and the gRPC call with the requests the server has not answered
and the answers the client has not read. `queue` holds the mutation queues on disk, one
per user, `waiting` the callbacks.

| Definitions | Code |
|---|---|
| `FillWritePipeline`, `NextBatches`, `StartIfNeeded` | `remote_store.cc:370-416` |
| `Start`, `Close`, `Stop`, `Becomes` | `stream.cc:84-125, 222-280` |
| `RestartNetwork`, `HandleCredentialChange`, `ConnectivityChanged` | `remote_store.cc:550-567, 83-98`, `sync_engine.cc:244-260` |
| `ReadUser`, `AnswerToken`, `TokenCallback` | `FIRAuth.m:2169-2221`, `firebase_credentials_provider_apple.mm:77-128` |
| `ResumeStartWithCredentials`, `BackoffElapsed`, `IdleTimeout` | `stream.cc:127-190` |
| `HandshakeComplete`, `MutationResult`, `CallFailed`, `HandleWriteError` | `remote_store.cc:418-527` |
| `NotifyUser`, `RemoveBatch`, `KillAfterNotify` | `sync_engine.cc:342-379, 419-434` |
| `Commit`, `Refuse`, `Break`, `LateCommit` | the server and the network |

Abstractions: one document per registration, so the local views of documents do not
matter; the stream tokens, which only the server reads; the delays, so a timer may fire
as soon as it is set. From the start of the gRPC call to `OnStreamStart` nothing else
can happen to the stream but its end, so the call is open when the credentials arrive.
Errors of the handshake are `Break`: permanent or not, the stream is started again.
`told` is set when the callback is handed to the main queue; what happens to it there is
`AuthManager`'s subject. The watch stream is never started, because MBER listens to
nothing. The server ending a call with the status OK is left out: the client asserts
that this does not happen while writes wait (`remote_store.cc:456`).

The block of a registration reads `currentUser` twice. `AuthManager.swift:72` reads it
through FirebaseAuth's work queue, for the uid of the document (`saveInfoToFirestore`).
The first `setData` of a process then makes the Firestore client (line 82), and the
constructor of its credentials provider reads it again
(`FSTFirestoreComponent.mm:104`, `firebase_credentials_provider_apple.mm:34`,
`FIRAuth.m:2223`), for the user of the first mutation queue (`SetData`). No other block
of the main queue comes in between, but FirebaseAuth's work queue may set another user.
Then the document lies in that user's queue and is sent with his token, though its uid is
that of the user read first: the code has this window, once per process. `strayed` records
the registrations that fell into it. The second read is of the bare instance variable,
without the work queue; what it may give is a user set before or after, which is what the
model lets it give, and a crash on a user released meanwhile is a `Kill`.

- `firestore_writes`: two registrations, one sign-in, sign-out or new token besides
  them (`MaxSignIns`), one fault (`MaxFaults`: a broken call, a failed token, a change
  of connectivity, a death of the process), and a pipeline of two (`MaxPendingWrites`; in
  the code 10). Both batches are on the wire at once, with no, one or two answers of
  theirs not yet read, and one of them may be refused while the other waits. Nearly a
  million states, with the two registrations interchangeable (`MCFirestoreWrites`). The
  pipeline that a further write finds full is the subject of `firestore_live`.
  `PipelineIsQueuePrefix`, `AnswersCorrelate`: the pipeline is the front of the current
  user's queue, and what is on the wire is the pipeline, which is why a response without
  an id can be taken for the answer to its front. `OneLiveRequest`: a stream that waits
  for credentials has exactly one request for them that will be heeded.
  `TokenOfQueueUser`: a call carries the token of the user whose queue it sends, because
  a token asked for before a change of credentials is thrown away on the main queue and
  the change itself closes the call on the worker queue.
  `CallbacksHaveBatches`: ids are never used twice although each user's queue hands them
  out by itself and a restart starts again from the disk. `IdleOnlyWhenDone`: the idle
  timer never closes a stream that has something to send. `OwnDocumentInOwnQueue`: the
  document stored under its own user's uid is in that user's queue and in no other exactly
  when it has not strayed. When there is a client, it cannot stray: the notice of the new
  user was dispatched before the completion, so the worker queue gets the change of user
  before the write, whoever is signed in by then. When there is none, it strays if the
  second read finds another user, and in no other case. `ImplementsDurableWrite`: nothing is told twice, lost, or
  acknowledged before it is applied.
- `firestore_live`: `TypeOK`, `WriteAnswered`, with a pipeline of one, which the second
  write finds full, without changes of the session and with one fault. Fairness: the queues, the timers, the server and FirebaseAuth's answers. The fault is
  bounded, that is, the network comes back in the end; offline for ever there is no
  answer, as `auth_promises` says.

What the abstract specification allows and the code does:

- the callback may hear "ok" and the process die before the batch leaves the disk
  (`HandleSuccessfulWrite` calls back first): the write is then sent again
  (`TellTooEarly`);
- a write told as rejected may still have been applied, by a call that was given up
  before its answer came (`LateCommit`);
- a write left on disk by a process that died is sent only when a process makes a
  Firestore client, that is, at the next registration, and only while the user who
  wrote it is signed in. This is why `OrphanIsNotRepaired` speaks of registrations that
  may still save.

A finding about mutants: leaving out `token_counter` breaks none of the properties,
because each change of credentials also restarts the network and so raises the close
count, which is what `OneLiveRequest` rests on.

### What is proved

For every set of registrations, every size of the pipeline and every bound of the model
(`FirestoreAssumption`: `None` is no registration, the pipeline holds one batch at
least):

| Theorem | Statement |
|---|---|
| `Invariance`, `TypeCorrect` | `Spec => []IInv`, `Spec => []TypeOK` |
| `PipelineFollowsQueue` | `Spec => []PipelineIsQueuePrefix` |
| `AnswersInStep` | `Spec => []AnswersCorrelate` |
| `IdleTimerOnlyWhenDone` | `Spec => []IdleOnlyWhenDone` |
| `OneAnswerPerStart` | `Spec => []OneLiveRequest` |
| `CallbacksWaitForBatches` | `Spec => []CallbacksHaveBatches` |
| `EveryWriteOnce`, `WritesAreDurable` | `Spec => []DInv`, `Spec => ImplementsDurableWrite` |
| `UsersAgree` | `Spec => []UInv` |
| `CallsCarryTheirToken` | `Spec => []TokenOfQueueUser` |
| `DocumentsInOwnQueue` | `Spec => []OwnDocumentInOwnQueue` |

The argument has three invariants, one on top of the other.

*The stream* (`FirestoreWritesProofs`). `IInv` is `TypeOK` and four parts. `Boot`:
before `Initialize` has run there is no stream, no token request and no callback, and
`init` is the first task or none. `Rows`: the ids in each queue ascend, are different
over all users, and are below the next one; a callback has its row. `Stream`: the
pipeline is a prefix of the current user's queue, a call exists only in an open stream,
and there the answers and requests together are the pipeline or the handshake; a stream
that is idle or stopped has nothing to send (`RemoteOK`).
`Tokens`: the answers on their way, in the three queues they pass, carry a close count
that is not ahead of the stream's, and exactly one carries the current one if the
stream is `Starting`, none otherwise. The properties of the run are parts of these, and
none is inductive by itself: that the pipeline stays a prefix when it is filled needs
the ascending ids, since `NextBatches` seeks by id; that the row removed is the first
needs the prefix; that `ResumeStartWithCredentials` meets a stream that is `Starting`
needs the one live request. What an operator on the stream does to it is a lemma
(`FillOK`, `RetryOK`, `RestartOK`, `HandshakeOK`, `PoppedOK`, ...), and each action has
one lemma that applies them.

*The write* (`DurableWriteProofs`). `DInv`: the completion of a registration, its task
and its row exclude each other and are one each (`OneCall`, `OneRow`); nothing is told,
applied or on its way of a write that has no row yet (`Untouched`); a callback that
waits has not been told, and an answer on the wire is of a write the server has applied
(`Tells`). With it every action is a step of `DurableWrite` or a stutter, one lemma per
action that moves something: `WriteMutations` is `Accept`, `MutationResult`
`Acknowledge`, `HandleWriteError` `Reject`, `Commit` and `LateCommit` `Apply`,
`KillAfterNotify` `TellTooEarly`.

*The users* (`FirestoreUsersProofs`). The user of a call was read on FirebaseAuth's
queue, tested on the main queue and used on the worker queue; the user of a row is
decided on the worker queue, two dispatches after the uid was. `RunsAs(ts, u, k, v)`
says that the k-th of the tasks `ts` will run when the SyncEngine, now at `u`, is at
`v`. `UInv` follows a user through the queues with it: the last notice on the main
queue is that of the session, and without a notice the tasks lead to the session
(`Sessions`); a token whose count is current is of the user the tasks lead to, as soon
as no notice is in front of it, and a resume of the user it will run under
(`TokenUsers`); the notice of a new user is right in front of the completion of his
registration, and a write runs as the user it is stored under exactly when it has not
strayed (`Own`). That a registration has not strayed before its call is `Strays`.

TLC has checked `IInv`, `DInv`, `UInv` and `Strays` on the instance of `firestore_writes`.
`WriteAnswered` is liveness and only model-checked.

## 8. Executor

A step is what one thread does under one mutex. `tasks`, `schedule` are the members of
`ExecutorLibdispatch`; `held` is what a call has taken out of them; `state`, `refs`,
`attached` are the members of `Task`; `dispatched` is what libdispatch has been given
and cannot give back; `current`, `step` say how far `ExecuteAndRelease` has come.
Delayed tasks may run at any time. The caller's contracts are guards: an operation
does not enqueue by `Enqueue` (asserted, `async_queue.cc:150-157`) and the queue is
destroyed when nobody else is in a call.

- `executor`: three tasks, the queue's thread and two others, so that two cancellations,
  or one and a disposal, and the operation itself meet. `RefCountIsOwners`,
  `NoUseAfterFree`, `QuietAfterDispose`, `CancelWaits`; under the fairness of the threads
  and of the dispatch queue `TasksFreed`: no thread waits for ever and no task is left.

`QuietAfterDispose` excepts an operation that has cancelled itself, and has to. The idle
timer is one: `Stop` leads through `Close` to `CancelIdleCheck` (`stream.cc:183-195,
229-280`), which takes the running task out of `tasks_`; a `Dispose` from another
thread then does not wait for it, although `async_queue.h:115-118` says that it waits
for the operations that run. `FirestoreClient::Dispose` (`firestore_client.cc:233-262`)
is not hurt by it, because it waits for an operation it enqueues itself, and MBER never
disposes of Firestore.

### What is proved

`ExecutorProofs` proves for every `Tasks` and `Threads`, with `Queue \in Threads` and
`None \notin Tasks`:

| Theorem | Statement |
|---|---|
| `Invariance` | `Spec => []IInv` |
| `TypeCorrect` | `Spec => []TypeOK` |
| `RefCountsCorrect` | `Spec => []RefCountIsOwners` |
| `NoTaskUsedAfterFree` | `Spec => []NoUseAfterFree` |
| `DisposedIsQuiet` | `Spec => []QuietAfterDispose` |
| `CancelWaitsAlways` | `Spec => CancelWaits` |

`RefCountIsOwners` is not inductive: that a call releases what it took needs to know
that no two calls hold the same task and that it is out of `tasks_` (`Calls`), and that
a task runs at most once needs where each state of a task can be found (`Places`,
`Running`, `Closed`). `IInv` is the conjunction, and there is one lemma per action.
`TasksFreed` is liveness and only model-checked.

## 9. What is only model-checked

TLC checks every property on the instances above; the theorems cover every safety
property of `AuthManager`, `Coordinators`, `ProgressHUD`, `Screens`, `FirestoreWrites`
and `Executor` for every value of the constants. Model-checked only: liveness, which no
prover here does. The two runs that expect a violation state something the code does not
do; there is nothing to prove.

## 10. Not modelled

The application's own code: layout, colours and texts; the regular expression for
emails; MapKit; the keyboard offset; the empty or unused parts of the inventory;
`AuthCoordinator.swift`, which is not in the Xcode target.

The vendored code: `src/MBER/Pods` holds about 660 000 lines of libraries, most of
them gRPC, BoringSSL, abseil and leveldb with their tables. They are no part of this
program's logic; what is modelled of them is what the application's own behaviour rests
on: the sign-in flow of FirebaseAuth, the sinks of RxSwift, JGProgressHUD, and of
Firestore the way of a write and its worker queue. Of Firestore, queries, watch streams,
transactions, garbage collection and the local views are left out because MBER calls
none of them. The share of all implementation lines that `PROJECT.json` maps is small
for that reason, and stays so.

Definitions whose name has an underscore (`OnError_KeepsOpen`) are mutants: the
definition they precede with a plausible bug in it. Each property of a passing run
fails when its mutant replaces the definition (`PROJECT.json`, "mutants").
