------------------------- MODULE ProgressHUDProofs -------------------------
(***************************************************************************)
(* Proofs about ProgressHUD: whatever the order of taps, results, swipes   *)
(* and fades, the HUD stands only on a screen that waits for a result.     *)
(***************************************************************************)
EXTENDS ProgressHUD, SequenceTheorems, TLAPS

(* The Login screen of the launch is under all the others.  As long as its *)
(* coordinator exists no Home covers a Registration screen that waits.     *)
Stacked ==
  /\ stack # << >> /\ stack[1] = "login"
  /\ \A i \in DOMAIN stack : i > 1 => stack[i] # "login"
  /\ served /\ "registration" \in request => Top = "registration"

(* A dismiss is put off only during a fade, and a HUD that is up, or will  *)
(* be, without one has a screen that waits.                                *)
Shown ==
  /\ hud.fade = "no" => ~hud.late
  /\ hud.target # "none" /\ hud.fade # "out" /\ ~hud.late =>
       hud.target \in request \/ (hud.target = "login" /\ ended)

IInv == TypeOK /\ Stacked /\ Shown
-----------------------------------------------------------------------------
(* What lies on a stack after a push.                                      *)
LEMMA Pushed ==
  ASSUME NEW s \in Seq(Screens), s # << >>, NEW k \in Screens
  PROVE  /\ Append(s, k) \in Seq(Screens) /\ Append(s, k) # << >>
         /\ Len(s) \in Nat \ {0} /\ Len(Append(s, k)) = Len(s) + 1
         /\ \A i \in 1 .. Len(s) : Append(s, k)[i] = s[i]
         /\ Append(s, k)[Len(s) + 1] = k /\ Last(Append(s, k)) = k
<1>1. /\ Append(s, k) \in Seq(Screens) /\ Len(s) \in Nat \ {0} /\ Len(Append(s, k)) = Len(s) + 1
      /\ \A i \in 1 .. Len(s) : Append(s, k)[i] = s[i]
      /\ Append(s, k)[Len(s) + 1] = k
  OBVIOUS
<1>2. Append(s, k) # << >>
  BY <1>1
<1>3. QED
  BY <1>1, <1>2 DEF Last

(* What lies on a stack after a pop.                                       *)
LEMMA Popped ==
  ASSUME NEW s \in Seq(Screens), Len(s) > 1
  PROVE  /\ Front(s) \in Seq(Screens) /\ Front(s) # << >>
         /\ Len(s) \in Nat /\ Len(Front(s)) = Len(s) - 1
         /\ \A i \in 1 .. Len(s) - 1 : Front(s)[i] = s[i]
         /\ Last(s) = s[Len(s)]
<1>1. Len(s) \in Nat /\ Front(s) = SubSeq(s, 1, Len(s) - 1) /\ Last(s) = s[Len(s)]
  BY DEF Front, Last
<1>2. Front(s) \in Seq(Screens) /\ Len(Front(s)) = Len(s) - 1
      /\ \A i \in 1 .. Len(s) - 1 : Front(s)[i] = s[i]
  BY <1>1
<1>3. Front(s) # << >>
  <2>1. \A t \in Seq(Screens) : t = << >> => Len(t) = 0
    OBVIOUS
  <2>2. Len(Front(s)) # 0
    BY <1>1, <1>2
  <2>3. QED
    BY <1>2, <2>1, <2>2
<1>4. QED
  BY <1>1, <1>2, <1>3

(* A screen that is pushed is no Login screen.                             *)
LEMMA PushedStack ==
  ASSUME IInv, NEW k \in {"registration", "home"}, stack' = Append(stack, k)
  PROVE  /\ stack' \in Seq(Screens) /\ stack' # << >> /\ stack'[1] = "login"
         /\ \A i \in DOMAIN stack' : i > 1 => stack'[i] # "login"
         /\ {stack[i] : i \in DOMAIN stack} \subseteq {stack'[i] : i \in DOMAIN stack'}
         /\ Top' = k
<1>1. stack \in Seq(Screens) /\ stack # << >> /\ k \in Screens
  BY DEF IInv, TypeOK, Stacked, Screens, Clients
<1>2. /\ stack' \in Seq(Screens) /\ stack' # << >>
      /\ Len(stack) \in Nat \ {0} /\ Len(stack') = Len(stack) + 1
      /\ \A i \in 1 .. Len(stack) : stack'[i] = stack[i]
      /\ stack'[Len(stack) + 1] = k /\ Top' = k
  BY <1>1, Pushed DEF Top
<1>3. DOMAIN stack = 1 .. Len(stack) /\ DOMAIN stack' = 1 .. Len(stack) + 1
  BY <1>1, <1>2
<1>4. \A i \in DOMAIN stack' : i > 1 => stack'[i] # "login"
  <2>1. \A i \in DOMAIN stack' : i \in DOMAIN stack \/ i = Len(stack) + 1
    BY <1>2, <1>3
  <2>2. QED
    BY <1>2, <1>3, <2>1 DEF IInv, Stacked
<1>5. \A i \in DOMAIN stack : i \in DOMAIN stack' /\ stack'[i] = stack[i]
  BY <1>2, <1>3
<1>6. stack'[1] = "login"
  BY <1>2, <1>3 DEF IInv, Stacked
<1>7. QED
  BY <1>2, <1>4, <1>5, <1>6

(* A pop takes the top screen, which is not the Login screen.              *)
LEMMA PoppedStack ==
  ASSUME IInv, Len(stack) > 1
  PROVE  LET s == Front(stack)
         IN /\ s \in Seq(Screens) /\ s # << >> /\ s[1] = "login"
            /\ \A i \in DOMAIN s : i > 1 => s[i] # "login"
            /\ {stack[i] : i \in DOMAIN stack} \ {Top} \subseteq {s[i] : i \in DOMAIN s}
            /\ Top \in {"registration", "home"}
<1> DEFINE s == Front(stack)
<1>1. stack \in Seq(Screens)
  BY DEF IInv, TypeOK
<1>2. /\ s \in Seq(Screens) /\ s # << >> /\ Len(stack) \in Nat /\ Len(s) = Len(stack) - 1
      /\ \A i \in 1 .. Len(stack) - 1 : s[i] = stack[i]
      /\ Top = stack[Len(stack)]
  BY <1>1, Popped DEF Top
<1>3. DOMAIN stack = 1 .. Len(stack) /\ DOMAIN s = 1 .. Len(stack) - 1
  BY <1>1, <1>2
<1> HIDE DEF s
<1>4. s[1] = "login" /\ \A i \in DOMAIN s : i > 1 => s[i] # "login"
  BY <1>2, <1>3 DEF IInv, Stacked
<1>5. Top \in {"registration", "home"}
  <2>1. Len(stack) \in DOMAIN stack /\ stack[Len(stack)] \in Screens
    BY <1>1, <1>2, <1>3
  <2>2. QED
    BY <1>2, <2>1 DEF IInv, Stacked, Screens, Clients
<1>6. \A i \in DOMAIN stack : stack[i] # Top => i \in DOMAIN s /\ s[i] = stack[i]
  BY <1>2, <1>3
<1>7. QED
  BY <1>2, <1>4, <1>5, <1>6 DEF s
-----------------------------------------------------------------------------
(* After a dismiss the HUD is on its way down, or will be once its fade    *)
(* has ended, or was not up.                                               *)
LEMMA Dismissed ==
  ASSUME NEW h \in Huds, h.fade = "no" => ~h.late
  PROVE  LET d == dismiss(h)
         IN /\ d \in Huds /\ (d.fade = "no" => ~d.late)
            /\ d.target = "none" \/ d.fade = "out" \/ d.late
BY DEF dismiss, Huds

(* The end of a fade.                                                      *)
LEMMA FadeEnds ==
  ASSUME NEW h \in Huds, h.fade = "in"
  PROVE  LET c == cleanUpAfterPresentation(h)
         IN /\ c \in Huds /\ ~c.late
            /\ h.late => c.target = "none" \/ c.fade = "out"
            /\ ~h.late => c.target = h.target /\ c.fade = "no"
<1> DEFINE n == [h EXCEPT !.fade = "no"]
<1>1. n \in Huds /\ n.fade = "no" /\ n.target = h.target /\ n.late = h.late
  BY DEF Huds
<1>2. CASE h.late
  <2>1. /\ dismiss(n) \in Huds /\ dismiss(n).late = n.late
        /\ dismiss(n).target = "none" \/ dismiss(n).fade = "out"
    BY <1>1 DEF dismiss, Huds
  <2>2. cleanUpAfterPresentation(h) = [dismiss(n) EXCEPT !.late = FALSE]
    BY <1>2 DEF cleanUpAfterPresentation
  <2>3. QED
    BY <1>2, <2>1, <2>2 DEF Huds
<1>3. CASE ~h.late
  BY <1>1, <1>3 DEF cleanUpAfterPresentation
<1>4. QED
  BY <1>2, <1>3 DEF Huds

(* A screen takes the HUD along, or leaves it where it is.                 *)
LEMMA ReleasedHud ==
  ASSUME NEW h \in Huds, NEW view
  PROVE  /\ Released(h, view) \in Huds
         /\ Released(h, view).fade = h.fade /\ Released(h, view).late = h.late
         /\ Released(h, view).target = "none" \/ Released(h, view) = h
         /\ Released(h, view).target # view \/ view = "none"
BY DEF Released, Huds

(* What show leaves behind on a screen that waits.                         *)
LEMMA ShownHud ==
  ASSUME NEW h \in Huds, h.fade = "no" => ~h.late, NEW view \in Clients
  PROVE  /\ show(h, view) \in Huds
         /\ show(h, view).fade = "no" => ~show(h, view).late
         /\ show(h, view) = h \/ (show(h, view).target = view)
BY DEF show, Huds
-----------------------------------------------------------------------------
(* A launch.                                                               *)
LEMMA LaunchInv ==
  ASSUME hud = Hidden, request = {}, stack = << "login" >>, served \in BOOLEAN, ended \in BOOLEAN
  PROVE  IInv
BY DEF IInv, TypeOK, Stacked, Shown, Hidden, Huds, Screens, Clients

(* The initial states.                                                     *)
LEMMA InitInv == Init => IInv
BY LaunchInv DEF Init

(* Every step keeps IInv.                                                  *)
LEMMA NextInv == IInv /\ [Next]_vars => IInv'
<1> SUFFICES ASSUME IInv, [Next]_vars
             PROVE  IInv'
  OBVIOUS
<1>0. /\ hud \in Huds /\ request \subseteq Clients /\ stack \in Seq(Screens)
      /\ served \in BOOLEAN /\ ended \in BOOLEAN
      /\ request \subseteq {stack[i] : i \in DOMAIN stack} /\ stack # << >>
      /\ hud.fade = "no" => ~hud.late
  BY DEF IInv, TypeOK, Stacked, Shown
<1>1. CASE TapLogin
  <2>1. /\ hud' \in Huds /\ (hud'.fade = "no" => ~hud'.late)
        /\ hud' = hud \/ hud'.target = "login"
    BY <1>0, <1>1, ShownHud DEF TapLogin, Clients
  <2>2. request' = request \cup (IF ended THEN {} ELSE {"login"})
    BY <1>1 DEF TapLogin
  <2>3. "login" \in {stack[i] : i \in DOMAIN stack}
    BY <1>0 DEF IInv, Stacked
  <2>4. UNCHANGED << stack, served, ended >> /\ Top' = Top
    BY <1>1 DEF TapLogin, Top
  <2>5. TypeOK'
    BY <1>0, <2>1, <2>2, <2>3, <2>4 DEF TypeOK, Clients
  <2>6. Stacked'
    BY <2>2, <2>4 DEF IInv, Stacked
  <2>7. Shown'
    BY <2>1, <2>2, <2>4 DEF IInv, Shown
  <2>8. QED
    BY <2>5, <2>6, <2>7 DEF IInv
<1>2. CASE TapSignUp
  <2>1. /\ hud' \in Huds /\ (hud'.fade = "no" => ~hud'.late)
        /\ hud' = hud \/ hud'.target = "registration"
    BY <1>0, <1>2, ShownHud DEF TapSignUp, Clients
  <2>2. request' = request \cup {"registration"} /\ UNCHANGED << stack, served, ended >>
        /\ Top' = Top /\ Top = "registration"
    BY <1>2 DEF TapSignUp, Touchable, Top
  <2>3. "registration" \in {stack[i] : i \in DOMAIN stack}
    <3>1. Len(stack) \in DOMAIN stack /\ Top = stack[Len(stack)]
      BY <1>0 DEF Top, Last
    <3>2. QED
      BY <3>1, <2>2
  <2>4. TypeOK'
    BY <1>0, <2>1, <2>2, <2>3 DEF TypeOK, Clients
  <2>5. Stacked' /\ Shown'
    BY <2>1, <2>2 DEF IInv, Stacked, Shown
  <2>6. QED
    BY <2>4, <2>5 DEF IInv
<1>3. CASE TapGoToRegister
  <2>1. stack' = Append(stack, "registration") /\ UNCHANGED << hud, request, served, ended >>
    BY <1>3 DEF TapGoToRegister
  <2>2. /\ stack' \in Seq(Screens) /\ stack' # << >> /\ stack'[1] = "login"
        /\ \A i \in DOMAIN stack' : i > 1 => stack'[i] # "login"
        /\ {stack[i] : i \in DOMAIN stack} \subseteq {stack'[i] : i \in DOMAIN stack'}
        /\ Top' = "registration"
    BY <2>1, PushedStack
  <2>3. TypeOK' /\ Stacked' /\ Shown'
    BY <1>0, <2>1, <2>2 DEF IInv, TypeOK, Stacked, Shown
  <2>4. QED
    BY <2>3 DEF IInv
<1>4. CASE Back
  <2>1. /\ Len(stack) > 1 /\ stack' = Front(stack) /\ UNCHANGED << served, ended >>
        /\ Top = "registration" => /\ hud' = Released(hud, "registration")
                                   /\ request' = request \ {"registration"}
        /\ Top # "registration" => UNCHANGED << hud, request >>
    BY <1>4 DEF Back
  <2>2. /\ stack' \in Seq(Screens) /\ stack' # << >> /\ stack'[1] = "login"
        /\ \A i \in DOMAIN stack' : i > 1 => stack'[i] # "login"
        /\ {stack[i] : i \in DOMAIN stack} \ {Top} \subseteq {stack'[i] : i \in DOMAIN stack'}
        /\ Top \in {"registration", "home"}
    BY <2>1, PoppedStack
  <2>3. /\ hud' \in Huds /\ hud'.fade = hud.fade /\ hud'.late = hud.late
        /\ hud'.target = "none" \/ hud'.target = hud.target
        /\ Top = "registration" => hud'.target # "registration"
    BY <1>0, <2>1, <2>2, ReleasedHud
  <2>4. request' \subseteq request /\ Top \notin request' /\ request \ {"registration"} \subseteq request'
        /\ (Top # "registration" => request' = request)
    BY <1>0, <2>1, <2>2 DEF Clients
  <2>5. TypeOK'
    BY <1>0, <2>1, <2>2, <2>3, <2>4 DEF TypeOK
  <2>6. Stacked'
    BY <2>1, <2>2, <2>4 DEF IInv, Stacked
  <2>7. Shown'
    BY <1>0, <2>1, <2>3, <2>4 DEF IInv, Shown
  <2>8. QED
    BY <2>5, <2>6, <2>7 DEF IInv
<1>5. ASSUME NEW ok \in BOOLEAN, LoginAnswered(ok)
      PROVE  IInv'
  <2>1. /\ request' = request \ {"login"} /\ hud' = dismiss(hud) /\ ended' = ~ok /\ served' = FALSE
        /\ stack' = IF served THEN Append(stack, "home") ELSE stack
    BY <1>5 DEF LoginAnswered
  <2>2. /\ stack' \in Seq(Screens) /\ stack' # << >> /\ stack'[1] = "login"
        /\ \A i \in DOMAIN stack' : i > 1 => stack'[i] # "login"
        /\ {stack[i] : i \in DOMAIN stack} \subseteq {stack'[i] : i \in DOMAIN stack'}
    <3>1. CASE served
      <4>1. stack' = Append(stack, "home")
        BY <2>1, <3>1
      <4>2. QED
        BY <4>1, PushedStack
    <3>2. CASE ~served
      <4>1. stack' = stack
        BY <2>1, <3>2
      <4>2. QED
        BY <1>0, <4>1 DEF IInv, Stacked
    <3>3. QED
      BY <3>1, <3>2
  <2>3. /\ hud' \in Huds /\ (hud'.fade = "no" => ~hud'.late)
        /\ hud'.target = "none" \/ hud'.fade = "out" \/ hud'.late
    BY <1>0, <2>1, Dismissed
  <2>4. TypeOK'
    BY <1>0, <2>1, <2>2, <2>3 DEF TypeOK
  <2>5. Stacked' /\ Shown'
    BY <2>1, <2>2, <2>3 DEF Stacked, Shown
  <2>6. QED
    BY <2>4, <2>5 DEF IInv
<1>6. ASSUME NEW ok \in BOOLEAN, RegistrationAnswered(ok)
      PROVE  IInv'
  <2>1. "registration" \in request /\ request' = request \ {"registration"} /\ UNCHANGED << served, ended >>
    BY <1>6 DEF RegistrationAnswered
  <2>2. /\ dismiss(hud) \in Huds /\ (dismiss(hud).fade = "no" => ~dismiss(hud).late)
        /\ dismiss(hud).target = "none" \/ dismiss(hud).fade = "out" \/ dismiss(hud).late
    BY <1>0, Dismissed
  <2>3. CASE ok /\ served
    <3>1. stack' = Append(Front(stack), "home") /\ hud' = Released(dismiss(hud), "registration")
      BY <1>6, <2>3 DEF RegistrationAnswered
    <3>2. Top = "registration" /\ Len(stack) > 1
      <4>1. Top = "registration"
        BY <2>1, <2>3 DEF IInv, Stacked
      <4>2. Len(stack) \in Nat \ {0} /\ Top = stack[Len(stack)]
        BY <1>0 DEF Top, Last
      <4>3. Len(stack) # 1
        BY <4>1, <4>2 DEF IInv, Stacked
      <4>4. QED
        BY <4>1, <4>2, <4>3
    <3>3. LET s == Front(stack)
          IN /\ s \in Seq(Screens) /\ s # << >> /\ s[1] = "login"
             /\ \A i \in DOMAIN s : i > 1 => s[i] # "login"
             /\ {stack[i] : i \in DOMAIN stack} \ {Top} \subseteq {s[i] : i \in DOMAIN s}
      BY <3>2, PoppedStack
    <3> DEFINE s == Front(stack)
    <3>4. /\ s \in Seq(Screens) /\ s # << >> /\ s[1] = "login" /\ stack' = Append(s, "home")
          /\ \A i \in DOMAIN s : i > 1 => s[i] # "login"
          /\ {stack[i] : i \in DOMAIN stack} \ {Top} \subseteq {s[i] : i \in DOMAIN s}
      BY <3>1, <3>3
    <3> HIDE DEF s
    <3>5. /\ stack' \in Seq(Screens) /\ stack' # << >>
          /\ Len(s) \in Nat \ {0} /\ Len(stack') = Len(s) + 1
          /\ \A i \in 1 .. Len(s) : stack'[i] = s[i]
          /\ stack'[Len(s) + 1] = "home"
      BY <3>4, Pushed DEF Screens
    <3>6. DOMAIN s = 1 .. Len(s) /\ DOMAIN stack' = 1 .. Len(s) + 1
      BY <3>4, <3>5
    <3>7. \A i \in DOMAIN stack' : i \in DOMAIN s \/ i = Len(s) + 1
      BY <3>5, <3>6
    <3>8. stack'[1] = "login" /\ \A i \in DOMAIN stack' : i > 1 => stack'[i] # "login"
      BY <3>4, <3>5, <3>6, <3>7
    <3>9. \A i \in DOMAIN s : i \in DOMAIN stack' /\ stack'[i] = s[i]
      BY <3>5, <3>6
    <3>10. request' \subseteq {stack'[i] : i \in DOMAIN stack'}
      <4>1. request' \subseteq {stack[i] : i \in DOMAIN stack} \ {Top}
        BY <1>0, <2>1, <3>2
      <4>2. {s[i] : i \in DOMAIN s} \subseteq {stack'[i] : i \in DOMAIN stack'}
        BY <3>9
      <4>3. QED
        BY <3>4, <4>1, <4>2
    <3>11. /\ hud' \in Huds /\ (hud'.fade = "no" => ~hud'.late)
           /\ hud'.target = "none" \/ hud'.fade = "out" \/ hud'.late
      BY <2>2, <3>1, ReleasedHud
    <3>12. TypeOK'
      BY <1>0, <2>1, <3>5, <3>10, <3>11 DEF TypeOK
    <3>13. Stacked' /\ Shown'
      BY <2>1, <3>5, <3>8, <3>11 DEF Stacked, Shown
    <3>14. QED
      BY <3>12, <3>13 DEF IInv
  <2>4. CASE ~(ok /\ served)
    <3>1. hud' = dismiss(hud) /\ stack' = stack
      BY <1>6, <2>4 DEF RegistrationAnswered
    <3>2. TypeOK' /\ Stacked' /\ Shown'
      BY <1>0, <2>1, <2>2, <3>1 DEF IInv, TypeOK, Stacked, Shown
    <3>3. QED
      BY <3>2 DEF IInv
  <2>5. QED
    BY <2>3, <2>4
<1>7. CASE animationFinished
  <2>1. /\ hud.fade \in {"in", "out"} /\ UNCHANGED << request, stack, served, ended >>
        /\ hud.fade = "in" => hud' = cleanUpAfterPresentation(hud)
        /\ hud.fade = "out" => hud' = Hidden
    BY <1>0, <1>7 DEF animationFinished, Huds, cleanUpAfterDismissal
  <2>2. /\ hud' \in Huds /\ ~hud'.late
        /\ \/ hud'.target = "none" \/ hud'.fade = "out"
           \/ hud.fade = "in" /\ ~hud.late /\ hud'.target = hud.target
    <3>1. CASE hud.fade = "in"
      BY <1>0, <2>1, <3>1, FadeEnds
    <3>2. CASE hud.fade = "out"
      <4>1. Hidden \in Huds /\ Hidden.target = "none" /\ Hidden.late = FALSE
        BY DEF Hidden, Huds, Clients
      <4>2. QED
        BY <2>1, <3>2, <4>1
    <3>3. QED
      BY <2>1, <3>1, <3>2
  <2>3. TypeOK' /\ Stacked'
    BY <1>0, <2>1, <2>2 DEF IInv, TypeOK, Stacked, Top
  <2>4. Shown'
    BY <2>1, <2>2 DEF IInv, Shown
  <2>5. QED
    BY <2>3, <2>4 DEF IInv
<1>8. CASE Relaunch
  <2>1. /\ hud' = Hidden /\ request' = {} /\ stack' = << "login" >>
        /\ served' \in BOOLEAN /\ ended' \in BOOLEAN
    BY <1>8 DEF Relaunch
  <2>2. QED
    BY <2>1 DEF IInv, TypeOK, Stacked, Shown, Hidden, Huds, Screens, Clients, Top
<1>9. CASE UNCHANGED vars
  BY <1>9 DEF vars, IInv, TypeOK, Stacked, Shown, Top
<1>10. QED
  BY <1>1, <1>2, <1>3, <1>4, <1>5, <1>6, <1>7, <1>8, <1>9 DEF Next

(* IInv is an invariant.                                                   *)
THEOREM Invariance == Spec => []IInv
<1>1. QED
  BY InitInv, NextInv, PTL DEF Spec

(* Every variable has its type, and a screen that waits is on the stack:   *)
(* no result comes for a screen that is gone.                              *)
THEOREM TypeCorrect == Spec => []TypeOK
<1>1. IInv => TypeOK
  BY DEF IInv
<1>2. QED
  BY <1>1, Invariance, PTL

(* No order of taps, results, swipes and fades leaves the one HUD of the   *)
(* application standing on a screen that does not wait, although a dismiss *)
(* may have been meant for the other screen and may be put off, except     *)
(* after a failed login.                                                   *)
THEOREM IndicatorMeansRequest == Spec => []StandsForARequest
<1>1. IInv => StandsForARequest
  BY DEF IInv, Shown, StandsForARequest
<1>2. QED
  BY <1>1, Invariance, PTL
=============================================================================
