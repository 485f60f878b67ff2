----------------------------- MODULE LoginForm -----------------------------
(***************************************************************************)
(* The login form: from the text fields (LoginController.bind) through the *)
(* BehaviorSubjects of LoginViewModel to isValidForm, which enables the    *)
(* button, and to withLatestFrom, which takes the values to log in with.   *)
(*                                                                         *)
(* Unlike the registration form, the subjects have a value from the start, *)
(* so a reader that subscribes late misses nothing.                        *)
(***************************************************************************)
EXTENDS Naturals, Sequences

CONSTANTS
  Lengths,  (* the lengths of passwords                                     *)
  NoValue   (* nothing has been emitted                                     *)

VARIABLES
  bound,      (* how many statements of bind() have run                     *)
  shown,      (* what the text fields show                                  *)
  subjects,   (* the values of the BehaviorSubjects                         *)
  latest,     (* WithLatestFromSink._latest                                 *)
  isEnabled,  (* loginButton.isEnabled                                      *)
  sent        (* what performLogin was last called with                     *)

vars == << bound, shown, subjects, latest, isEnabled, sent >>

Fields == {"email", "password"}

Choices(f) == IF f = "email" THEN {"empty", "malformed", "wellFormed"} ELSE Lengths

Empty == [email |-> "empty", password |-> 0]

(* The order of bind().  Bound means subscribed.                           *)
Bindings == << "email", "password", "tap", "isValidForm", "isLoginCompleted" >>

IsBound(b) == \E i \in 1 .. bound : Bindings[i] = b

isValidForm(v) == v.email = "wellFormed" /\ v.password > 6

(* A reader gets the current values when it subscribes, and every change   *)
(* after it.                                                               *)
Emit(new, reads) ==
  /\ subjects' = new
  /\ latest' = IF "isLoginCompleted" \in reads THEN new ELSE latest
  /\ isEnabled' = IF "isValidForm" \in reads THEN isValidForm(new) ELSE isEnabled

Readers == {b \in {"isValidForm", "isLoginCompleted"} : IsBound(b)}

Init ==
  /\ bound = 0
  /\ shown = Empty
  /\ subjects = Empty
  /\ latest = NoValue
  /\ isEnabled = FALSE
  /\ sent = NoValue

Bind ==
  /\ bound < Len(Bindings)
  /\ bound' = bound + 1
  /\ LET b == Bindings[bound + 1]
     IN IF b \in Fields THEN Emit([subjects EXCEPT ![b] = shown[b]], Readers)
                        ELSE Emit(subjects, {b})
  /\ UNCHANGED << shown, sent >>

(* distinctUntilChanged: only a new value is sent on.                      *)
Edit(f, v) ==
  /\ bound = Len(Bindings)
  /\ v # shown[f]
  /\ shown' = [shown EXCEPT ![f] = v]
  /\ Emit([subjects EXCEPT ![f] = v], Readers)
  /\ UNCHANGED << bound, sent >>

(* loginButtonTapped.withLatestFrom(combineLatest(email, password))        *)
TapLogin ==
  /\ bound = Len(Bindings)
  /\ isEnabled
  /\ latest # NoValue
  /\ sent' = latest
  /\ UNCHANGED << bound, shown, subjects, latest, isEnabled >>

Next == Bind \/ TapLogin \/ \E f \in Fields : \E v \in Choices(f) : Edit(f, v)

Spec == Init /\ [][Next]_vars
-----------------------------------------------------------------------------
(* A well-formed email and a password of seven characters.                 *)
Acceptable(form) == form.email = "wellFormed" /\ form.password \notin 0 .. 6

(* The button agrees with the text fields (LoginViewModel.swift:22-31).    *)
ButtonAgreesWithScreen ==
  bound = Len(Bindings) => (isEnabled <=> Acceptable(shown))

(* performLogin gets what the text fields show when the button is tapped   *)
(* (LoginViewModel.swift:33-39).                                           *)
SendsWhatIsShown == [][sent' # sent => sent' = shown /\ Acceptable(shown)]_vars
=============================================================================
