--------------------------- MODULE Coordinators ----------------------------
(***************************************************************************)
(* The coordinator tree (Coordinators/), its reference counts, and the     *)
(* navigation stack the coordinators push to and pop from.                 *)
(*                                                                         *)
(* A coordinator exists as long as something refers to it: its parent's    *)
(* childCoordinators, or, for a HomeCoordinator that has been started, the *)
(* closure in its own disposeBag that captures self                        *)
(* (HomeCoordinator.swift:24-38).  When it goes, so do its disposeBag and  *)
(* with it every navigation its screen could ask for.                      *)
(*                                                                         *)
(* Sign-in requests are reduced to what navigation depends on: asked,      *)
(* signedIn (FirebaseAuth has set currentUser, the callback has not run),  *)
(* and, for a login, ended (isLoginCompleted has emitted false for an      *)
(* error and completed, LoginViewModel.swift:40).                          *)
(***************************************************************************)
EXTENDS Naturals, Sequences, FiniteSets, SequencesExt

CONSTANTS
  MaxId,           (* coordinators made between two launches; bounds the model *)
  InteractivePop,  (* UIKit lets the user swipe a screen away                  *)
  LogoutWired      (* HomeController feeds logoutButtonTapped; it does not in  *)
                   (* this version                                             *)

ASSUME MaxIdAssumption == MaxId \in Nat /\ MaxId >= 3
ASSUME SwitchAssumption == InteractivePop \in BOOLEAN /\ LogoutWired \in BOOLEAN

VARIABLES
  ui,       (* the tree and the stack, see Uis                              *)
  request,  (* the sign-in a Login or Registration screen has asked for     *)
  session   (* Auth.auth().currentUser != nil, kept in the keychain         *)

vars == << ui, request, session >>

Ids  == 0 .. MaxId
App  == 0
Nobody == MaxId + 1
Kinds == {"none", "app", "login", "registration", "home"}

(* kind: what a coordinator is, "none" before it is made.  held: whose     *)
(* childCoordinators it is in.  armed: the handler of its isCompleted that *)
(* its parent subscribed still has its captured variable, which the        *)
(* handler sets to nil.                                                    *)
Screens == [kind : {"login", "registration", "home"}, owner : Ids]
Uis == [kind : [Ids -> Kinds], held : [Ids -> Ids \cup {Nobody}],
        armed : SUBSET Ids, stack : Seq(Screens)]
-----------------------------------------------------------------------------
(* The statements of the coordinators, as functions of the tree and stack. *)

(* The coordinators that nothing but one another refers to go.  The        *)
(* application is always referred to, and a home by its own closure.       *)
Living(u) ==
  LET orphans == {S \in SUBSET {c \in Ids : u.kind[c] \in {"login", "registration"}} :
                    \A c \in S : u.held[c] \in S \cup {Nobody}}
  IN  {c \in Ids : u.kind[c] # "none"} \ UNION orphans

Alive(u, c) == c \in Living(u)

Free(u)  == {c \in Ids : u.kind[c] = "none"}
Fresh(u) == CHOOSE c \in Free(u) : TRUE

add(u, k, parent, arm) ==
  LET c == Fresh(u)
  IN  [u EXCEPT !.kind[c] = k, !.held[c] = parent,
                !.armed = IF arm THEN @ \cup {c} ELSE @]

remove(u, c) == [u EXCEPT !.held[c] = Nobody, !.armed = @ \ {c}]

push(u, k, c) == [u EXCEPT !.stack = Append(@, [kind |-> k, owner |-> c])]

(* popViewController does nothing to the root.                             *)
pop(u) == IF Len(u.stack) > 1 THEN [u EXCEPT !.stack = Front(@)] ELSE u

(* isCompleted.accept: the handler is in the parent's disposeBag.  The one *)
(* for a login only removes it, the others also pop the top screen.        *)
isCompleted_Keeps(u, c) ==
  IF c \in u.armed /\ Alive(u, u.held[c])
  THEN IF u.kind[c] = "login" THEN remove(u, c) ELSE pop(u)
  ELSE u

isCompleted_NoPop(u, c) ==
  IF c \in u.armed /\ Alive(u, u.held[c]) THEN remove(u, c) ELSE u

isCompleted(u, c) ==
  IF c \in u.armed /\ Alive(u, u.held[c])
  THEN remove(IF u.kind[c] = "login"
                   \/ u.kind[u.held[c]] = "registration" THEN u ELSE pop(u), c)
  ELSE u

(* LoginCoordinator.start                                                  *)
startLogin_NoStart(u, c, loggedIn) ==
  IF loggedIn THEN add(u, "home", c, TRUE) ELSE push(u, "login", c)

startLogin(u, c, loggedIn) ==
  IF loggedIn
  THEN push(add(u, "home", c, TRUE), "home", Fresh(u))
  ELSE push(u, "login", c)

(* AppCoordinator.start                                                    *)
Empty == [kind |-> [c \in Ids |-> IF c = App THEN "app" ELSE "none"],
          held |-> [c \in Ids |-> Nobody], armed |-> {}, stack |-> << >>]
startApp(loggedIn) ==
  startLogin(add(Empty, "login", App, TRUE), Fresh(Empty), loggedIn)

(* The handler of isLoginCompleted: { [weak self] _ in ... }               *)
onLoginCompleted_NotCompleted(u, c, result) ==
  IF Alive(u, c)
  THEN push(add(u, "home", c, FALSE), "home", Fresh(u))
  ELSE u

onLoginCompleted_Unretained(u, c, result) ==
  IF Alive(u, c) THEN isCompleted(u, c) ELSE u

onLoginCompleted(u, c, result) ==
  IF Alive(u, c)
  THEN push(add(isCompleted(u, c), "home", c, FALSE), "home", Fresh(u))
  ELSE u

(* LoginCoordinator.pushRegistrationVC                                     *)
pushRegistrationVC_Completes(u, c) ==
  LET v == isCompleted(u, c)
  IN  push(add(v, "registration", c, TRUE), "registration", Fresh(v))

pushRegistrationVC(u, c) == push(add(u, "registration", c, TRUE), "registration", Fresh(u))

(* RegistrationCoordinator.switchToHomeVC: the home is added, then         *)
(* isCompleted takes this coordinator out of the tree, and home starts.    *)
switchToHomeVC(u, c) == push(isCompleted(add(u, "home", c, TRUE), c), "home", Fresh(u))

(* HomeCoordinator.switchToLoginVC, after isCompleted.                     *)
switchToLoginVC(u, c, loggedIn) ==
  startLogin(add(u, "login", c, TRUE), Fresh(u), loggedIn)
-----------------------------------------------------------------------------
Top == Last(ui.stack)
OnStack(u, c) == \E i \in DOMAIN u.stack : u.stack[i].owner = c

Waits(c) == request[c] \in {"asked", "signedIn"}

(* A bound of the model: there are names for k more coordinators, besides  *)
(* one for each request that is out, so that the bound never keeps a       *)
(* result from its handler.                                                *)
Room(k) == Cardinality(Free(ui)) >= k + Cardinality({c \in Ids : Waits(c)})

(* deinit: a coordinator that nothing refers to goes, with its children's  *)
(* place in it; its name is kept while its screen or a request of its is   *)
(* still about.  u and gone are bound by \E to be evaluated once.          *)
Gone(u, req) == {c \in Ids \ Living(u) : ~OnStack(u, c) /\ req[c] # "asked"}

Becomes(next, req) ==
  \E u \in {next} : \E gone \in {Gone(u, req)} :
    /\ ui' = [u EXCEPT !.kind  = [c \in Ids |-> IF c \in gone THEN "none" ELSE @[c]],
                       !.held  = [c \in Ids |-> IF {c, @[c]} \cap gone # {}
                                                THEN Nobody ELSE @[c]],
                       !.armed = {c \in @ : {c, u.held[c]} \cap gone = {}}]
    /\ request' = [c \in Ids |-> IF c \in gone THEN "none" ELSE req[c]]

(* The progress HUD takes the touches of a screen whose request is out,    *)
(* but may let one through while it fades: no tap is ruled out here.       *)
Touchable(k, c) == Top = [kind |-> k, owner |-> c]

Init ==
  /\ session \in BOOLEAN
  /\ ui = startApp(session)
  /\ request = [c \in Ids |-> "none"]

(* The process is killed and launched again.                               *)
Relaunch ==
  /\ Becomes(startApp(session), [c \in Ids |-> "none"])
  /\ UNCHANGED session

TapGoToRegister(c) ==
  /\ Touchable("login", c)
  /\ Alive(ui, c)
  /\ Room(1)
  /\ Becomes(pushRegistrationVC(ui, c), request)
  /\ UNCHANGED session

(* The button works without the coordinator too: LoginController subscribes *)
(* to isLoginCompleted itself.  Once the signal has ended it does nothing.  *)
(* A second tap while a request is out replaces it (flatMapLatest): for     *)
(* navigation, still one request.                                           *)
TapLogin(c) ==
  /\ Touchable("login", c)
  /\ request[c] = "none"
  /\ Room(1)
  /\ Becomes(ui, [request EXCEPT ![c] = "asked"])
  /\ UNCHANGED session

TapSignUp(c) ==
  /\ Touchable("registration", c)
  /\ ~Waits(c)
  /\ Room(1)
  /\ Becomes(ui, [request EXCEPT ![c] = "asked"])
  /\ UNCHANGED session

(* RegistrationCoordinator binds goToLoginPageButtonTapped to isCompleted. *)
TapGoToLogin(c) ==
  /\ Touchable("registration", c)
  /\ Alive(ui, c)
  /\ Becomes(isCompleted(ui, c), request)
  /\ UNCHANGED session

(* FirebaseAuth's work queue sets currentUser.                             *)
SignIn(c) ==
  /\ request[c] = "asked"
  /\ session' = TRUE
  /\ Becomes(ui, [request EXCEPT ![c] = "signedIn"])

(* The result of a login reaches the main queue.                           *)
LoginSucceeded(c) ==
  /\ ui.kind[c] = "login"
  /\ request[c] = "signedIn"
  /\ Becomes(onLoginCompleted(ui, c, TRUE), [request EXCEPT ![c] = "none"])
  /\ UNCHANGED session

LoginFailed_KeepsSignal(c) ==
  /\ ui.kind[c] = "login"
  /\ request[c] = "asked"
  /\ Becomes(onLoginCompleted(ui, c, FALSE), [request EXCEPT ![c] = "none"])
  /\ UNCHANGED session

LoginFailed(c) ==
  /\ ui.kind[c] = "login"
  /\ request[c] = "asked"
  /\ Becomes(onLoginCompleted(ui, c, FALSE), [request EXCEPT ![c] = "ended"])
  /\ UNCHANGED session

(* The result of a registration: dropped with the view model, which goes   *)
(* with the screen.                                                        *)
RegistrationSucceeded(c) ==
  /\ ui.kind[c] = "registration"
  /\ request[c] = "signedIn"
  /\ Becomes(IF OnStack(ui, c) /\ Alive(ui, c) THEN switchToHomeVC(ui, c) ELSE ui,
             [request EXCEPT ![c] = "none"])
  /\ UNCHANGED session

(* false, from createUser or from setData, is filtered out.                *)
RegistrationFailed(c) ==
  /\ ui.kind[c] = "registration"
  /\ request[c] \in {"asked", "signedIn"}
  /\ Becomes(ui, [request EXCEPT ![c] = "none"])
  /\ UNCHANGED session

(* The edge swipe pops the screen; no coordinator hears of it.             *)
SwipeBack ==
  /\ InteractivePop
  /\ Len(ui.stack) > 1
  /\ Becomes(pop(ui), request)
  /\ UNCHANGED session

(* logoutButtonTapped: doLogout succeeds, isCompleted, switchToLoginVC.    *)
(* LoginCoordinator.start asks for currentUser again: a sign-in may have   *)
(* completed on the work queue since.                                      *)
Logout(c) ==
  /\ LogoutWired
  /\ Touchable("home", c)
  /\ Room(2)
  /\ \/ /\ session' = FALSE
        /\ Becomes(switchToLoginVC(isCompleted(ui, c), c, FALSE), request)
     \/ \E d \in Ids :
          /\ request[d] = "asked"
          /\ session' = TRUE
          /\ Becomes(switchToLoginVC(isCompleted(ui, c), c, TRUE),
                     [request EXCEPT ![d] = "signedIn"])

Next ==
  \/ \E c \in Ids :
       \/ TapGoToRegister(c) \/ TapLogin(c) \/ TapSignUp(c) \/ TapGoToLogin(c)
       \/ SignIn(c)
       \/ LoginSucceeded(c) \/ LoginFailed(c)
       \/ RegistrationSucceeded(c) \/ RegistrationFailed(c)
       \/ Logout(c)
  \/ SwipeBack
  \/ Relaunch

Spec == Init /\ [][Next]_vars

(* The main queue runs the callback of a login.                            *)
FairSpec == Spec /\ \A c \in Ids : WF_vars(LoginSucceeded(c))
-----------------------------------------------------------------------------
(* Every variable has its type, and the stack always has a screen.         *)
TypeOK ==
  /\ ui \in Uis
  /\ ui.stack # << >>
  /\ request \in [Ids -> {"none", "asked", "signedIn", "ended"}]
  /\ session \in BOOLEAN

(* Without swipes, the user never looks at a screen whose coordinator is   *)
(* gone, so that its buttons navigate, whatever the taps, results and      *)
(* logouts (BaseCoordinator.swift:14, Coordinator.swift:19-25).            *)
TopIsServed == Alive(ui, Top.owner)

(* Without swipes, a registration coordinator of the Login screen the      *)
(* application started with goes with its screen: none is left in          *)
(* childCoordinators, whichever way the registration ends                  *)
(* (LoginCoordinator.swift:84-90).  After a logout a late result of an     *)
(* earlier Login screen can cover a registration, whose own result then    *)
(* pops another screen.                                                    *)
NoRegistrationLeaks ==
  \A c \in Ids :
    ui.kind[c] = "registration" /\ Alive(ui, c) /\ ui.held[ui.held[c]] = App
      => OnStack(ui, c)

(* The map without a session is the work of a failed login and of nothing  *)
(* else (LoginCoordinator.swift:57-63).                                    *)
HomeWithoutSessionAfterFailedLogin ==
  Top.kind = "home" /\ ~session => \E c \in Ids : request[c] = "ended"

(* With swipes, a screen may come to the top that has lost its             *)
(* coordinator, but never before a Home was shown: until the first sign-in *)
(* every visible screen works (LoginCoordinator.swift:58-60,               *)
(* RegistrationCoordinator.swift:42-54).                                   *)
ServedUntilHome == ~TopIsServed => \E h \in Ids : ui.kind[h] = "home"

(* A Registration screen always lies on the Login screen that opened it,   *)
(* so the pop of its completion uncovers that screen                       *)
(* (LoginCoordinator.swift:86).                                            *)
RegistrationOnItsLogin ==
  \A i \in DOMAIN ui.stack :
    ui.stack[i].kind = "registration" =>
      i > 1 /\ ui.stack[i - 1] = [kind |-> "login", owner |-> ui.held[ui.stack[i].owner]]

(* Whatever the order of swipes, late results and logouts, a coordinator   *)
(* brings one Home at most: a second result finds it completed and gone    *)
(* (LoginCoordinator.swift:58-63, RegistrationCoordinator.swift:42-54).    *)
OneHomePerCoordinator ==
  \A c \in Ids :
    Cardinality({h \in Ids : ui.kind[h] = "home" /\ ui.held[h] = c}) <= 1

(* A login that FirebaseAuth carried out for a screen with a coordinator   *)
(* ends on the map.                                                        *)
LoginReachesHome ==
  \A c \in Ids : ui.kind[c] = "login" /\ Alive(ui, c) /\ request[c] = "signedIn"
    ~> Top.kind = "home"

(* LoginCoordinator shows Home when loginCheck finds a user and Login when *)
(* it does not (LoginCoordinator.swift:24-28): Home is for a signed-in     *)
(* user.                                                                   *)
HomeIsForSignedIn == Top.kind = "home" => session
=============================================================================
