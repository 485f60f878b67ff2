---------------------------- MODULE ProgressHUD ----------------------------
(***************************************************************************)
(* The one JGProgressHUD of the application                                *)
(* (UIViewController.hud, Extensions/UIViewController+Ext.swift:28-39) and *)
(* the two screens that show it while their request is out.                *)
(*                                                                         *)
(* The HUD takes one target at a time: show is ignored while it has one or *)
(* while it fades in or out; dismiss during a fade is put off until the    *)
(* fade ends; dismiss takes down whatever is up, whoever showed it.  It    *)
(* holds its target weakly, so a screen that is popped takes it along.     *)
(*                                                                         *)
(* The screens lie on a stack over the Login screen of a launch without a  *)
(* session.  Results and fades end on the main queue in any order.         *)
(***************************************************************************)
EXTENDS Sequences, SequencesExt

VARIABLES
  hud,      (* its target, its fade, and whether a dismiss is put off       *)
  request,  (* the screens that wait for a result                           *)
  stack,    (* the screens, the visible one last                            *)
  served,   (* LoginCoordinator exists                                      *)
  ended     (* isLoginCompleted has completed: LoginViewModel.swift:40      *)

vars == << hud, request, stack, served, ended >>

Clients == {"login", "registration"}
Screens == Clients \cup {"home"}
Huds == [target : Clients \cup {"none"}, fade : {"no", "in", "out"}, late : BOOLEAN]

Hidden == [target |-> "none", fade |-> "no", late |-> FALSE]
-----------------------------------------------------------------------------
(* JGProgressHUD.                                                          *)

show(h, view) ==
  IF h.fade # "no" \/ h.target # "none" THEN h
  ELSE [h EXCEPT !.target = view, !.fade = "in"]

dismiss(h) ==
  IF h.fade # "no" THEN [h EXCEPT !.late = TRUE]
  ELSE IF h.target = "none" THEN h
  ELSE [h EXCEPT !.fade = "out"]

cleanUpAfterPresentation_ForgetsLate(h) == [h EXCEPT !.fade = "no", !.late = FALSE]

cleanUpAfterPresentation(h) ==
  LET shown == [h EXCEPT !.fade = "no"]
  IN  IF h.late THEN [dismiss(shown) EXCEPT !.late = FALSE] ELSE shown

cleanUpAfterDismissal == Hidden

(* The view that is the target is deallocated.                             *)
Released(h, view) == IF h.target = view THEN [h EXCEPT !.target = "none"] ELSE h
-----------------------------------------------------------------------------
Top == Last(stack)

(* The HUD takes the touches of the screen it stands on.  During a fade    *)
(* UIKit may let them through or not.                                      *)
Touchable(s) == Top = s /\ (hud.target # s \/ hud.fade # "no")

Init ==
  /\ hud = Hidden
  /\ request = {}
  /\ stack = << "login" >>
  /\ served = TRUE
  /\ ended = FALSE

Relaunch ==
  /\ hud' = Hidden
  /\ request' = {}
  /\ stack' = << "login" >>
  /\ served' = TRUE
  /\ ended' = FALSE

(* The HUD is shown before the tap reaches the view model, where it has no *)
(* effect any more once isLoginCompleted has completed.                    *)
TapLogin ==
  /\ Touchable("login")
  /\ hud' = show(hud, "login")
  /\ request' = IF ended THEN request ELSE request \cup {"login"}
  /\ UNCHANGED << stack, served, ended >>

TapSignUp ==
  /\ Touchable("registration")
  /\ hud' = show(hud, "registration")
  /\ request' = request \cup {"registration"}
  /\ UNCHANGED << stack, served, ended >>

TapGoToRegister ==
  /\ Touchable("login")
  /\ served
  /\ stack' = Append(stack, "registration")
  /\ UNCHANGED << hud, request, served, ended >>

(* The edge swipe, or goToLoginPageButton while the coordinators exist.    *)
(* The view model of a Registration screen goes with it, and with that the *)
(* subscription to its result.                                             *)
Back_KeepsRequest ==
  /\ Len(stack) > 1
  /\ stack' = Front(stack)
  /\ hud' = IF Top = "registration" THEN Released(hud, "registration") ELSE hud
  /\ UNCHANGED << request, served, ended >>

Back ==
  /\ Len(stack) > 1
  /\ stack' = Front(stack)
  /\ IF Top = "registration"
     THEN /\ hud' = Released(hud, "registration")
          /\ request' = request \ {"registration"}
     ELSE UNCHANGED << hud, request >>
  /\ UNCHANGED << served, ended >>

(* isLoginCompleted emits: LoginController dismisses, then the coordinator *)
(* pushes Home and goes, whatever the value.                               *)
LoginAnswered_NoDismiss(ok) ==
  /\ "login" \in request
  /\ request' = request \ {"login"}
  /\ hud' = IF ok THEN dismiss(hud) ELSE hud
  /\ ended' = ~ok
  /\ stack' = IF served THEN Append(stack, "home") ELSE stack
  /\ served' = FALSE

LoginAnswered(ok) ==
  /\ "login" \in request
  /\ request' = request \ {"login"}
  /\ hud' = dismiss(hud)
  /\ ended' = ~ok
  /\ stack' = IF served THEN Append(stack, "home") ELSE stack
  /\ served' = FALSE

(* onRegistering(false), then onRegistered: on success the coordinator, if *)
(* there is one, replaces the screen by Home.                              *)
RegistrationAnswered_FailureStays(ok) ==
  /\ "registration" \in request
  /\ request' = request \ {"registration"}
  /\ IF ok /\ served
     THEN /\ stack' = Append(Front(stack), "home")
          /\ hud' = Released(hud, "registration")
     ELSE /\ hud' = IF ok THEN dismiss(hud) ELSE hud
          /\ UNCHANGED stack
  /\ UNCHANGED << served, ended >>

RegistrationAnswered(ok) ==
  /\ "registration" \in request
  /\ request' = request \ {"registration"}
  /\ IF ok /\ served
     THEN /\ stack' = Append(Front(stack), "home")
          /\ hud' = Released(dismiss(hud), "registration")
     ELSE /\ hud' = dismiss(hud)
          /\ UNCHANGED stack
  /\ UNCHANGED << served, ended >>

animationFinished ==
  /\ hud.fade # "no"
  /\ hud' = IF hud.fade = "in" THEN cleanUpAfterPresentation(hud)
                               ELSE cleanUpAfterDismissal
  /\ UNCHANGED << request, stack, served, ended >>

Next ==
  \/ TapLogin \/ TapSignUp \/ TapGoToRegister \/ Back
  \/ \E ok \in BOOLEAN : LoginAnswered(ok) \/ RegistrationAnswered(ok)
  \/ animationFinished
  \/ Relaunch

Spec == Init /\ [][Next]_vars

(* UIKit runs the completion of every animation, and the requests of       *)
(* FirebaseAuth time out.  A registration may wait for Firestore for ever. *)
FairSpec ==
  /\ Spec
  /\ WF_vars(animationFinished)
  /\ WF_vars(\E ok \in BOOLEAN : LoginAnswered(ok))
-----------------------------------------------------------------------------
(* Every variable has its type; a screen that waits is on the stack.       *)
TypeOK ==
  /\ hud \in Huds
  /\ request \subseteq Clients
  /\ stack \in Seq(Screens)
  /\ {served, ended} \subseteq BOOLEAN
  /\ request \subseteq {stack[i] : i \in DOMAIN stack}

(* The HUD stands on a screen only while that screen waits: no order of    *)
(* taps, results, swipes and fades leaves it up otherwise, although one    *)
(* dismiss may have been meant for the other screen                        *)
(* (UIViewController+Ext.swift:34-38).  The exception is the Login screen  *)
(* after a failed login: a tap shows the HUD and sends nothing, and        *)
(* nothing takes it down (LoginController.swift:105-125).                  *)
StandsForARequest ==
  hud.target # "none" /\ hud.fade = "no" =>
     hud.target \in request \/ (hud.target = "login" /\ ended)

(* The HUD of a login that was sent goes away, and so it does when the     *)
(* login fails (LoginController.swift:121-125).                            *)
LoginIndicatorGoesAway ==
  hud.target = "login" /\ "login" \in request ~> hud.target # "login"

(* Once a registration has been answered its HUD goes away                 *)
(* (RegistrationViewModel.swift:65-68).                                    *)
RegistrationIndicatorGoesAway ==
  hud.target = "registration" /\ "registration" \notin request
    ~> hud.target # "registration"
=============================================================================
