----------------------------- MODULE SignUpForm -----------------------------
(***************************************************************************)
(* The values of the registration form on their way from the controls      *)
(* (RegistrationController.bind) through the relays, combineLatest and     *)
(* share of RegistrationViewModel to its two readers: isFormValid, which   *)
(* enables the button, and withLatestFrom, which takes the values that are *)
(* registered.                                                             *)
(*                                                                         *)
(* withLatestFrom subscribes in the view model's init and so connects the  *)
(* shared sequence before any control is bound; isFormValid is bound last, *)
(* and share() replays nothing to it.  All this runs on the main thread,   *)
(* and bind is finished before the user sees the screen.                   *)
(*                                                                         *)
(* A text is its length, an email whether it has the form of one.          *)
(***************************************************************************)
EXTENDS Naturals, Sequences

CONSTANTS
  Lengths,   (* the lengths of names and passwords                          *)
  NoValue    (* nothing has been emitted                                    *)

ASSUME LengthAssumption == Lengths \subseteq Nat /\ 0 \in Lengths
ASSUME NoValueAssumption ==
  NoValue \notin Lengths /\ NoValue \notin {"empty", "malformed", "wellFormed", "Rider", "Driver"}

VARIABLES
  bound,      (* how many statements of bind() have run                     *)
  shown,      (* what the controls show                                     *)
  values,     (* the latest value of each relay in the CombineLatestSink    *)
  latest,     (* WithLatestFromSink._latest                                 *)
  isEnabled,  (* signUpButton.isEnabled                                     *)
  sent        (* the values of the last registration                        *)

vars == << bound, shown, values, latest, isEnabled, sent >>

Emails == {"empty", "malformed", "wellFormed"}
Forms == [email : Emails, fullName : Lengths, userType : {"Rider", "Driver"},
          password : Lengths]
Fields == {"email", "fullName", "userType", "password"}

Empty == [email |-> "empty", fullName |-> 0, userType |-> "Rider", password |-> 0]
NoValues == [f \in Fields |-> NoValue]

Choices(f) == CASE f = "email" -> Emails
                [] f = "userType" -> {"Rider", "Driver"}
                [] OTHER -> Lengths

(* The order of bind(), the button's tap first.                            *)
Bindings == << "tap", "email", "fullName", "password", "userType", "isFormValid" >>

IsBound(b) == \E i \in 1 .. bound : Bindings[i] = b
-----------------------------------------------------------------------------
isFormValid_Bounds(v) ==
  v.email = "wellFormed" /\ v.fullName >= 2 /\ v.password >= 6

isFormValid(v) ==
  v.email = "wellFormed" /\ v.fullName > 2 /\ v.password > 6

(* A relay accepts v.  Once every relay has a value, the tuple goes to     *)
(* withLatestFrom and then, if it is bound, to isFormValid.                *)
Accept_ReadsEarly(f, v) ==
  LET new == [values EXCEPT ![f] = v]
      complete == \A g \in Fields : new[g] # NoValue
  IN  /\ values' = new
      /\ latest' = IF complete THEN values ELSE latest
      /\ isEnabled' = IF complete /\ IsBound("isFormValid") THEN isFormValid(new)
                                                             ELSE isEnabled

Accept(f, v) ==
  LET new == [values EXCEPT ![f] = v]
      complete == \A g \in Fields : new[g] # NoValue
  IN  /\ values' = new
      /\ latest' = IF complete THEN new ELSE latest
      /\ isEnabled' = IF complete /\ IsBound("isFormValid") THEN isFormValid(new)
                                                             ELSE isEnabled

(* Empty fields, the first segment chosen, the button made disabled.       *)
Init ==
  /\ bound = 0
  /\ shown = Empty
  /\ values = NoValues
  /\ latest = NoValue
  /\ isEnabled = FALSE
  /\ sent = NoValue

(* The next statement of bind().  A control emits its value when bound.    *)
Bind ==
  /\ bound < Len(Bindings)
  /\ bound' = bound + 1
  /\ LET b == Bindings[bound + 1]
     IN  IF b \in Fields THEN Accept(b, shown[b])
                         ELSE UNCHANGED << values, latest, isEnabled >>
  /\ UNCHANGED << shown, sent >>

(* distinctUntilChanged: only a new value is sent on.                      *)
Edit(f, v) ==
  /\ bound = Len(Bindings)
  /\ v # shown[f]
  /\ shown' = [shown EXCEPT ![f] = v]
  /\ Accept(f, v)
  /\ UNCHANGED << bound, sent >>

(* signupButtonTapped.withLatestFrom(registrationValues)                   *)
TapSignUp ==
  /\ bound = Len(Bindings)
  /\ isEnabled
  /\ latest # NoValue
  /\ sent' = latest
  /\ UNCHANGED << bound, shown, values, latest, isEnabled >>

Next ==
  \/ Bind
  \/ \E f \in Fields : \E v \in Choices(f) : Edit(f, v)
  \/ TapSignUp

Spec == Init /\ [][Next]_vars
-----------------------------------------------------------------------------
(* Every variable has its type.                                            *)
TypeOK ==
  /\ bound \in 0 .. Len(Bindings)
  /\ shown \in Forms
  /\ \A f \in Fields : values[f] \in Choices(f) \cup {NoValue}
  /\ latest \in Forms \cup {NoValue}
  /\ isEnabled \in BOOLEAN
  /\ sent \in Forms \cup {NoValue}

(* What the application takes for a registration: a well-formed email, a   *)
(* name of three characters and a password of seven.                       *)
Acceptable(form) ==
  form.email = "wellFormed" /\ form.fullName \notin 0 .. 2 /\ form.password \notin 0 .. 6

(* The button agrees with what the screen shows from the moment the screen *)
(* can be seen, although isFormValid misses the first values: the button   *)
(* starts disabled and the first values are not acceptable                 *)
(* (RegistrationViewModel.swift:48-56, RegistrationController.swift:152).  *)
ButtonAgreesWithScreen ==
  bound = Len(Bindings) => (isEnabled <=> Acceptable(shown))

(* What is registered is what the screen shows at that moment, and         *)
(* acceptable, although button and values take different ways              *)
(* (RegistrationViewModel.swift:50-60).                                    *)
SendsWhatIsShown ==
  [][sent' \notin {sent, NoValue} => sent' = shown /\ Acceptable(shown)]_vars
=============================================================================
