--------------------------- MODULE ScreensProofs ---------------------------
(***************************************************************************)
(* Proofs about Screens: on either form the button agrees with what the    *)
(* user sees and the values that are sent are those, for every set of      *)
(* lengths.                                                                *)
(***************************************************************************)
EXTENDS Screens, TLAPS

(* The registration form.  Once a control is bound its relay has what it   *)
(* shows; the button is bound last, and a form that is being bound shows   *)
(* nothing yet.                                                            *)
SignUpInv ==
  /\ TypeOK
  /\ values = [f \in Fields |-> IF IsBound(f) THEN shown[f] ELSE NoValue]
  /\ latest = IF bound >= 5 THEN shown ELSE NoValue
  /\ bound < 6 => shown = Empty
  /\ isEnabled <=> bound = 6 /\ Acceptable(shown)

(* The login form.  Its subjects have what the fields show all the time.   *)
LoginForms == [email : Emails, password : LoginLengths]

LoginInv ==
  /\ loginBound \in 0 .. 5 /\ loginShown \in LoginForms /\ loginIsEnabled \in BOOLEAN
  /\ subjects = loginShown
  /\ loginLatest = IF loginBound = 5 THEN loginShown ELSE NoValue
  /\ loginBound < 5 => loginShown = Login!Empty
  /\ loginIsEnabled <=> loginBound >= 4 /\ Login!Acceptable(loginShown)

IInv == SignUpInv /\ LoginInv
-----------------------------------------------------------------------------
(* A form is the function of its fields.                                   *)
LEMMA FormIs == \A r \in Forms : r = [f \in Fields |-> r[f]]
BY DEF Forms, Fields

(* bind() of RegistrationController, statement by statement.               *)
LEMMA SignUpBindings ==
  ASSUME bound \in 0 .. 6
  PROVE  /\ Len(Bindings) = 6
         /\ IsBound("email") <=> bound >= 2
         /\ IsBound("fullName") <=> bound >= 3
         /\ IsBound("password") <=> bound >= 4
         /\ IsBound("userType") <=> bound >= 5
         /\ IsBound("isFormValid") <=> bound >= 6
<1>1. \/ bound = 0 \/ bound = 1 \/ bound = 2 \/ bound = 3
      \/ bound = 4 \/ bound = 5 \/ bound = 6
  OBVIOUS
<1>2. QED
  BY <1>1 DEF Bindings, IsBound

(* bind() of LoginController.                                              *)
LEMMA LoginBindings ==
  ASSUME loginBound \in 0 .. 5
  PROVE  /\ Len(Login!Bindings) = 5
         /\ "isValidForm" \in Login!Readers <=> loginBound >= 4
         /\ "isLoginCompleted" \in Login!Readers <=> loginBound >= 5
<1>1. \/ loginBound = 0 \/ loginBound = 1 \/ loginBound = 2
      \/ loginBound = 3 \/ loginBound = 4 \/ loginBound = 5
  OBVIOUS
<1>2. QED
  BY <1>1 DEF Login!Bindings, Login!IsBound, Login!Readers

(* isFormValid accepts what the application takes for a registration,      *)
(* isValidForm what it takes for a login.                                  *)
LEMMA ValidIsAcceptable ==
  /\ \A r \in Forms : isFormValid(r) <=> Acceptable(r)
  /\ \A r \in LoginForms : Login!isValidForm(r) <=> Login!Acceptable(r)
  /\ Empty \in Forms /\ ~Acceptable(Empty)
  /\ Login!Empty \in LoginForms /\ ~Login!Acceptable(Login!Empty)
<1>1. \A n \in Lengths \cup LoginLengths : (n > 2 <=> n \notin 0 .. 2) /\ (n > 6 <=> n \notin 0 .. 6)
  BY LengthAssumption, LoginLengthAssumption
<1>2. /\ \A r \in Forms : r.fullName \in Lengths /\ r.password \in Lengths
      /\ \A r \in LoginForms : r.password \in LoginLengths
  BY DEF Forms, LoginForms
<1>3. Empty \in Forms /\ Login!Empty \in LoginForms
  BY LengthAssumption, LoginLengthAssumption
     DEF Empty, Forms, Emails, Login!Empty, LoginForms
<1>4. QED
  BY <1>1, <1>2, <1>3
     DEF isFormValid, Acceptable, Login!isValidForm, Login!Acceptable, Empty, Login!Empty

(* What a control shows is a value.                                        *)
LEMMA ShownIsValue ==
  ASSUME NEW r \in Forms, NEW f \in Fields
  PROVE  r[f] \in Choices(f) /\ r[f] # NoValue
BY NoValueAssumption, LengthAssumption DEF Forms, Fields, Choices, Emails
-----------------------------------------------------------------------------
(* The registration form is bound statement by statement.                  *)
LEMMA SignUpBind ==
  ASSUME SignUpInv, Bind
  PROVE  SignUpInv'
<1>1. /\ bound \in 0 .. 5 /\ bound' = bound + 1 /\ bound' \in 0 .. 6
      /\ shown = Empty /\ shown' = shown /\ sent' = sent /\ ~isEnabled
  BY SignUpBindings DEF SignUpInv, TypeOK, Bind, Bindings
<1>2. /\ IsBound("email")' <=> bound' >= 2
      /\ IsBound("fullName")' <=> bound' >= 3
      /\ IsBound("password")' <=> bound' >= 4
      /\ IsBound("userType")' <=> bound' >= 5
  <2>1. \/ bound' = 1 \/ bound' = 2 \/ bound' = 3
        \/ bound' = 4 \/ bound' = 5 \/ bound' = 6
    BY <1>1
  <2>2. QED
    BY <2>1 DEF IsBound, Bindings
<1>3. /\ IsBound("email") <=> bound >= 2
      /\ IsBound("fullName") <=> bound >= 3
      /\ IsBound("password") <=> bound >= 4
      /\ IsBound("userType") <=> bound >= 5
      /\ ~IsBound("isFormValid")
  BY <1>1, SignUpBindings
<1>4. shown \in Forms /\ \A f \in Fields : shown[f] # NoValue
  BY ShownIsValue DEF SignUpInv, TypeOK
<1>5. values = [f \in Fields |-> IF IsBound(f) THEN shown[f] ELSE NoValue]
  BY DEF SignUpInv
<1>6. ASSUME NEW b \in Fields, \A f \in Fields : IsBound(f)' <=> IsBound(f) \/ f = b,
             Accept(b, shown[b])
      PROVE  /\ values' = [f \in Fields |-> IF IsBound(f)' THEN shown[f] ELSE NoValue]
             /\ latest' = IF \A f \in Fields : IsBound(f)' THEN shown ELSE latest
             /\ isEnabled' = isEnabled
  <2> DEFINE new == [values EXCEPT ![b] = shown[b]]
  <2>1. new = [f \in Fields |-> IF IsBound(f)' THEN shown[f] ELSE NoValue]
    BY <1>5, <1>6
  <2>2. (\A g \in Fields : new[g] # NoValue) <=> \A f \in Fields : IsBound(f)'
    BY <1>4, <2>1
  <2>3. (\A f \in Fields : IsBound(f)') => new = shown
    <3>1. shown = [f \in Fields |-> shown[f]]
      BY <1>4, FormIs
    <3>2. QED
      BY <2>1, <3>1
  <2>4. /\ values' = new
        /\ latest' = IF \A g \in Fields : new[g] # NoValue THEN new ELSE latest
        /\ isEnabled' = isEnabled
    BY <1>3, <1>6 DEF Accept
  <2>5. QED
    BY <2>1, <2>2, <2>3, <2>4
<1>7. /\ values' = [f \in Fields |-> IF IsBound(f)' THEN shown[f] ELSE NoValue]
      /\ latest' = IF bound' >= 5 THEN shown ELSE NoValue
      /\ isEnabled' = isEnabled
  <2>1. ASSUME NEW b \in Fields, Bindings[bound + 1] = b,
               \A f \in Fields : IsBound(f)' <=> IsBound(f) \/ f = b
        PROVE  /\ values' = [f \in Fields |-> IF IsBound(f)' THEN shown[f] ELSE NoValue]
               /\ latest' = IF \A f \in Fields : IsBound(f)' THEN shown ELSE latest
               /\ isEnabled' = isEnabled
    <3>1. Accept(b, shown[b])
      BY <2>1 DEF Bind
    <3>2. QED
      BY <1>6, <2>1, <3>1
  <2>2. (\A f \in Fields : IsBound(f)') <=> bound' >= 5
    BY <1>1, <1>2 DEF Fields
  <2>3. CASE bound = 0 \/ bound = 5
    <3>1. Bindings[bound + 1] \notin Fields
      BY <2>3 DEF Bindings, Fields
    <3>2. UNCHANGED << values, latest, isEnabled >>
      BY <3>1 DEF Bind
    <3>3. \A f \in Fields : IsBound(f)' <=> IsBound(f)
      BY <1>1, <1>2, <1>3, <2>3 DEF Fields
    <3>4. bound' >= 5 <=> bound >= 5
      BY <1>1, <2>3
    <3>5. QED
      BY <1>5, <3>2, <3>3, <3>4 DEF SignUpInv
  <2>4. CASE bound \in 1 .. 4
    <3>1. PICK b \in Fields : Bindings[bound + 1] = b /\ \A f \in Fields : IsBound(f)' <=> IsBound(f) \/ f = b
      <4>1. CASE bound = 1
        BY <1>1, <1>2, <1>3, <4>1 DEF Bindings, Fields
      <4>2. CASE bound = 2
        BY <1>1, <1>2, <1>3, <4>2 DEF Bindings, Fields
      <4>3. CASE bound = 3
        BY <1>1, <1>2, <1>3, <4>3 DEF Bindings, Fields
      <4>4. CASE bound = 4
        BY <1>1, <1>2, <1>3, <4>4 DEF Bindings, Fields
      <4>5. QED
        BY <2>4, <4>1, <4>2, <4>3, <4>4
    <3>2. latest = NoValue
      BY <2>4 DEF SignUpInv
    <3>3. QED
      BY <2>1, <2>2, <3>1, <3>2
  <2>5. QED
    BY <1>1, <2>3, <2>4
<1>8. TypeOK'
  <2>1. \A f \in Fields : values'[f] \in Choices(f) \cup {NoValue}
    BY <1>4, <1>7, ShownIsValue
  <2>2. QED
    BY <1>1, <1>4, <1>7, <2>1 DEF SignUpInv, TypeOK, Bindings
<1>9. ~Acceptable(shown)
  BY <1>1, ValidIsAcceptable
<1>10. QED
  BY <1>1, <1>7, <1>8, <1>9 DEF SignUpInv

(* The user changes a field.                                               *)
LEMMA SignUpEdit ==
  ASSUME SignUpInv, NEW f \in Fields, NEW v \in Choices(f), Edit(f, v)
  PROVE  SignUpInv'
<1>1. /\ bound = 6 /\ bound' = bound /\ sent' = sent /\ shown' = [shown EXCEPT ![f] = v]
      /\ Accept(f, v) /\ shown \in Forms
  BY DEF SignUpInv, TypeOK, Edit, Bindings
<1>2. IsBound("isFormValid") /\ \A g \in Fields : IsBound(g) /\ IsBound(g)'
  <2>1. \A g \in Fields : IsBound(g)' <=> IsBound(g)
    BY <1>1 DEF IsBound
  <2>2. QED
    BY <1>1, <2>1, SignUpBindings DEF Fields
<1>3. shown' \in Forms
  BY <1>1 DEF Forms, Fields, Choices
<1>4. values = shown
  <2>1. values = [g \in Fields |-> shown[g]]
    BY <1>2 DEF SignUpInv
  <2>2. QED
    BY <1>1, <2>1, FormIs
<1>5. \A g \in Fields : shown'[g] # NoValue /\ shown'[g] \in Choices(g)
  BY <1>3, ShownIsValue
<1>6. values' = shown' /\ latest' = shown' /\ isEnabled' = isFormValid(shown')
  BY <1>1, <1>2, <1>4, <1>5 DEF Accept
<1>7. values' = [g \in Fields |-> IF IsBound(g)' THEN shown'[g] ELSE NoValue]
  BY <1>2, <1>3, <1>6, FormIs
<1>8. isEnabled' \in BOOLEAN /\ (isEnabled' <=> Acceptable(shown'))
  BY <1>3, <1>6, ValidIsAcceptable DEF isFormValid
<1>9. TypeOK'
  BY <1>1, <1>3, <1>5, <1>6, <1>8 DEF SignUpInv, TypeOK, Bindings
<1>10. bound' >= 5 /\ ~(bound' < 6) /\ bound' = 6
  BY <1>1
<1>11. QED
  BY <1>6, <1>7, <1>8, <1>9, <1>10 DEF SignUpInv

(* A step of the registration form.                                        *)
LEMMA SignUpStep == SignUpInv /\ [Next]_vars => SignUpInv'
<1> SUFFICES ASSUME SignUpInv, [Next]_vars
             PROVE  SignUpInv'
  OBVIOUS
<1>1. CASE Bind
  BY <1>1, SignUpBind
<1>2. ASSUME NEW f \in Fields, NEW v \in Choices(f), Edit(f, v)
      PROVE  SignUpInv'
  BY <1>2, SignUpEdit
<1>3. CASE TapSignUp
  <2>1. /\ sent' = latest /\ latest # NoValue
        /\ UNCHANGED << bound, shown, values, latest, isEnabled >>
    BY <1>3 DEF TapSignUp
  <2>2. \A f \in Fields : IsBound(f)' <=> IsBound(f)
    BY <2>1 DEF IsBound
  <2>3. TypeOK' 
    BY <2>1 DEF SignUpInv, TypeOK
  <2>4. QED
    BY <2>1, <2>2, <2>3 DEF SignUpInv
<1>4. CASE UNCHANGED vars
  <2>1. \A f \in Fields : IsBound(f)' <=> IsBound(f)
    BY <1>4 DEF IsBound, vars
  <2>2. QED
    BY <1>4, <2>1 DEF SignUpInv, TypeOK, vars
<1>5. QED
  BY <1>1, <1>2, <1>3, <1>4 DEF Next

(* A new registration screen.                                              *)
LEMMA SignUpNew ==
  ASSUME bound = 0, shown = Empty, values = NoValues, latest = NoValue, isEnabled = FALSE,
         sent = NoValue
  PROVE  SignUpInv
<1>1. \A f \in Fields : ~IsBound(f)
  BY SignUpBindings DEF Fields
<1>2. values = [f \in Fields |-> IF IsBound(f) THEN shown[f] ELSE NoValue]
  BY <1>1 DEF NoValues
<1>3. TypeOK
  <2>1. bound \in 0 .. Len(Bindings) /\ \A f \in Fields : values[f] = NoValue
    BY DEF Bindings, NoValues
  <2>2. shown \in Forms
    BY ValidIsAcceptable
  <2>3. QED
    BY <2>1, <2>2 DEF TypeOK
<1>4. bound # 6 /\ ~(bound >= 5)
  OBVIOUS
<1>5. QED
  BY <1>2, <1>3, <1>4 DEF SignUpInv
-----------------------------------------------------------------------------
(* A step of the login form: Emit gives a reader what the fields show.      *)
LEMMA LoginStep == LoginInv /\ [Login!Next]_(Login!vars) => LoginInv'
<1> SUFFICES ASSUME LoginInv, [Login!Next]_(Login!vars)
             PROVE  LoginInv'
  OBVIOUS
<1>0. /\ loginBound \in 0 .. 5 /\ loginShown \in LoginForms /\ loginIsEnabled \in BOOLEAN
      /\ subjects = loginShown /\ Len(Login!Bindings) = 5
      /\ "isValidForm" \in Login!Readers <=> loginBound >= 4
      /\ "isLoginCompleted" \in Login!Readers <=> loginBound >= 5
  BY LoginBindings DEF LoginInv
<1>1. CASE Login!Bind
  <2>1. /\ loginBound \in 0 .. 4 /\ loginBound' = loginBound + 1 /\ loginBound' \in 0 .. 5
        /\ loginShown = Login!Empty /\ loginShown' = loginShown
    BY <1>0, <1>1 DEF Login!Bind, LoginInv
  <2>2. ~Login!Acceptable(loginShown) /\ ~Login!isValidForm(loginShown)
    BY <1>0, <2>1, ValidIsAcceptable
  <2>3. [subjects EXCEPT !["email"] = loginShown["email"]] = loginShown
        /\ [subjects EXCEPT !["password"] = loginShown["password"]] = loginShown
    BY <1>0 DEF LoginForms
  <2>4. CASE loginBound \in {0, 1}
    <3> DEFINE b == Login!Bindings[loginBound + 1]
    <3>0. b \in Login!Fields /\ Login!Emit([subjects EXCEPT ![b] = loginShown[b]], Login!Readers)
      <4>1. b \in {"email", "password"}
        BY <2>4 DEF Login!Bindings
      <4>2. QED
        BY <1>1, <4>1 DEF Login!Bind, Login!Fields
    <3> HIDE DEF b
    <3>1. Login!Emit(loginShown, Login!Readers)
      BY <2>3, <3>0 DEF Login!Fields
    <3>2. subjects' = loginShown /\ loginLatest' = loginLatest /\ loginIsEnabled' = loginIsEnabled
      BY <1>0, <2>4, <3>1 DEF Login!Emit
    <3>3. QED
      BY <1>0, <2>1, <2>4, <3>2 DEF LoginInv
  <2>5. CASE loginBound \in {2, 3, 4}
    <3>1. Login!Emit(loginShown, {Login!Bindings[loginBound + 1]})
      BY <1>0, <1>1, <2>5 DEF Login!Bind, Login!Bindings, Login!Fields
    <3>2. /\ subjects' = loginShown
          /\ loginLatest' = IF loginBound = 4 THEN loginShown ELSE loginLatest
          /\ loginIsEnabled' = IF loginBound = 3 THEN Login!isValidForm(loginShown) ELSE loginIsEnabled
      <4>1. /\ loginBound = 2 => Login!Bindings[loginBound + 1] = "tap"
            /\ loginBound = 3 => Login!Bindings[loginBound + 1] = "isValidForm"
            /\ loginBound = 4 => Login!Bindings[loginBound + 1] = "isLoginCompleted"
        BY DEF Login!Bindings
      <4>2. QED
        BY <2>5, <3>1, <4>1 DEF Login!Emit
    <3>3. ~loginIsEnabled /\ loginIsEnabled' \in BOOLEAN /\ ~loginIsEnabled'
      BY <1>0, <2>2, <3>2 DEF LoginInv, Login!isValidForm
    <3>4. loginLatest' = IF loginBound' = 5 THEN loginShown ELSE NoValue
      BY <2>1, <2>5, <3>2 DEF LoginInv
    <3>5. QED
      BY <1>0, <2>1, <2>2, <3>2, <3>3, <3>4 DEF LoginInv
  <2>6. QED
    BY <2>1, <2>4, <2>5
<1>2. ASSUME NEW f \in Login!Fields, NEW v \in Login!Choices(f), Login!Edit(f, v)
      PROVE  LoginInv'
  <2>1. /\ loginBound = 5 /\ loginBound' = 5 /\ loginShown' = [loginShown EXCEPT ![f] = v]
        /\ Login!Emit(loginShown', Login!Readers)
    BY <1>0, <1>2 DEF Login!Edit
  <2>2. loginShown' \in LoginForms
    BY <1>0, <2>1 DEF LoginForms, Login!Fields, Login!Choices, Emails
  <2>3. /\ subjects' = loginShown' /\ loginLatest' = loginShown'
        /\ loginIsEnabled' = Login!isValidForm(loginShown')
    BY <1>0, <2>1 DEF Login!Emit
  <2>4. loginIsEnabled' \in BOOLEAN /\ (loginIsEnabled' <=> Login!Acceptable(loginShown'))
    BY <2>2, <2>3, ValidIsAcceptable DEF Login!isValidForm
  <2>5. QED
    BY <2>1, <2>2, <2>3, <2>4 DEF LoginInv
<1>3. CASE Login!TapLogin
  BY <1>3 DEF Login!TapLogin, LoginInv
<1>4. CASE UNCHANGED Login!vars
  BY <1>4 DEF Login!vars, LoginInv
<1>5. QED
  BY <1>1, <1>2, <1>3, <1>4 DEF Login!Next
-----------------------------------------------------------------------------
(* The initial states.                                                     *)
LEMMA InitInv == ScreensInit => IInv
<1> SUFFICES ASSUME ScreensInit
             PROVE  IInv
  OBVIOUS
<1>1. SignUpInv
  BY SignUpNew DEF ScreensInit, Init
<1>2. LoginInv
  <2>1. /\ loginBound = 0 /\ loginShown = Login!Empty /\ subjects = Login!Empty
        /\ loginLatest = NoValue /\ loginIsEnabled = FALSE
    BY DEF ScreensInit, Login!Init
  <2>2. loginBound \in 0 .. 5 /\ loginBound # 5 /\ ~(loginBound >= 4)
    BY <2>1
  <2>3. QED
    BY <2>1, <2>2, ValidIsAcceptable DEF LoginInv
<1>3. QED
  BY <1>1, <1>2 DEF IInv

(* Every step of the screens is a step of each part, a new registration    *)
(* screen, or leaves it alone.                                             *)
LEMMA Parts ==
  ASSUME [ScreensNext]_screens
  PROVE  /\ [Next]_vars \/ Pop
         /\ [Login!Next]_(Login!vars)
<1>1. CASE Launch
  BY <1>1 DEF Launch, vars, login, Login!vars
<1>2. CASE OnLogin
  BY <1>2 DEF OnLogin, vars
<1>3. CASE GoToRegister
  BY <1>3 DEF GoToRegister, vars, login, Login!vars
<1>4. CASE OnRegistration
  BY <1>4 DEF OnRegistration, login, Login!vars
<1>5. CASE Pop
  BY <1>5 DEF Pop, login, Login!vars
<1>6. CASE EnterHome
  BY <1>6 DEF EnterHome, vars, login, Login!vars
<1>7. CASE OnHome
  BY <1>7 DEF OnHome, vars, login, Login!vars
<1>8. CASE UNCHANGED screens
  BY <1>8 DEF screens, vars, login, Login!vars
<1>9. QED
  BY <1>1, <1>2, <1>3, <1>4, <1>5, <1>6, <1>7, <1>8 DEF ScreensNext

(* Every step keeps IInv.                                                  *)
LEMMA NextInv == IInv /\ [ScreensNext]_screens => IInv'
<1> SUFFICES ASSUME IInv, [ScreensNext]_screens
             PROVE  IInv'
  OBVIOUS
<1>1. SignUpInv'
  <2>1. CASE [Next]_vars
    BY <2>1, SignUpStep DEF IInv
  <2>2. CASE Pop
    <3>1. /\ bound' = 0 /\ shown' = Empty /\ values' = NoValues /\ latest' = NoValue
          /\ isEnabled' = FALSE /\ sent' = NoValue
      BY <2>2 DEF Pop
    <3>2. \A f \in Fields : ~IsBound(f)'
      BY <3>1 DEF IsBound
    <3>3. values' = [f \in Fields |-> IF IsBound(f)' THEN shown'[f] ELSE NoValue]
      BY <3>1, <3>2 DEF NoValues
    <3>4. TypeOK'
      <4>1. bound' \in 0 .. Len(Bindings) /\ \A f \in Fields : values'[f] = NoValue
        BY <3>1 DEF Bindings, NoValues
      <4>2. shown' \in Forms
        BY <3>1, ValidIsAcceptable
      <4>3. QED
        BY <3>1, <4>1, <4>2 DEF TypeOK
    <3>5. bound' # 6 /\ ~(bound' >= 5)
      BY <3>1
    <3>6. QED
      BY <3>1, <3>3, <3>4, <3>5 DEF SignUpInv
  <2>3. QED
    BY <2>1, <2>2, Parts
<1>2. LoginInv'
  BY LoginStep, Parts DEF IInv
<1>3. QED
  BY <1>1, <1>2 DEF IInv

(* IInv is an invariant.                                                   *)
THEOREM Invariance == ScreensSpec => []IInv
<1>1. QED
  BY InitInv, NextInv, PTL DEF ScreensSpec

(* On either form the button is enabled exactly when what the user sees is *)
(* acceptable, whatever the lengths, from the moment the form is bound.    *)
THEOREM ButtonsAgree == ScreensSpec => []ButtonsAgreeWithScreens
<1>1. IInv => ButtonsAgreeWithScreens
  <2>1. SignUpInv => ButtonAgreesWithScreen
    BY DEF SignUpInv, ButtonAgreesWithScreen, Bindings
  <2>2. LoginInv => Login!ButtonAgreesWithScreen
    BY DEF LoginInv, Login!ButtonAgreesWithScreen, Login!Bindings
  <2>3. QED
    BY <2>1, <2>2 DEF IInv, ButtonsAgreeWithScreens
<1>2. QED
  BY <1>1, Invariance, PTL

(* Either form sends what the user sees at the tap, and nothing that is    *)
(* not acceptable.                                                         *)
THEOREM FormsSend == ScreensSpec => FormsSendWhatIsShown
<1> DEFINE SignUpSends == sent' \notin {sent, NoValue} => sent' = shown /\ Acceptable(shown)
           LoginSends == loginSent' # loginSent => loginSent' = loginShown /\ Login!Acceptable(loginShown)
<1>1. IInv /\ [ScreensNext]_screens => [SignUpSends]_vars
  <2> SUFFICES ASSUME IInv, [ScreensNext]_screens, sent' \notin {sent, NoValue}
               PROVE  sent' = shown /\ Acceptable(shown)
    OBVIOUS
  <2>1. TapSignUp
    <3>1. [Next]_vars
      BY Parts DEF Pop
    <3>2. QED
      BY <3>1 DEF Next, Bind, Edit, vars
  <2>2. QED
    BY <2>1 DEF TapSignUp, IInv, SignUpInv
<1>2. IInv /\ [ScreensNext]_screens => [LoginSends]_(Login!vars)
  <2> SUFFICES ASSUME IInv, [ScreensNext]_screens, loginSent' # loginSent
               PROVE  loginSent' = loginShown /\ Login!Acceptable(loginShown)
    OBVIOUS
  <2>1. Login!TapLogin
    BY Parts DEF Login!Next, Login!Bind, Login!Edit, Login!vars
  <2>2. QED
    BY <2>1 DEF Login!TapLogin, IInv, LoginInv
<1>3. QED
  BY <1>1, <1>2, Invariance, PTL
     DEF ScreensSpec, FormsSendWhatIsShown, SendsWhatIsShown, Login!SendsWhatIsShown
=============================================================================
