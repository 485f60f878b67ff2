------------------------------ MODULE Screens ------------------------------
(***************************************************************************)
(* The screens between the launch and the map, one after the other: the    *)
(* login form, the registration form pushed over it, and Home with its     *)
(* location manager.  Who keeps them alive is the subject of Coordinators. *)
(***************************************************************************)
EXTENDS SignUpForm

CONSTANTS
  LoginLengths,  (* the lengths of passwords on the login form              *)
  MaxChanges     (* bounds the changes made in the Settings                 *)

ASSUME LoginLengthAssumption == LoginLengths \subseteq Nat /\ 0 \in LoginLengths

VARIABLES
  screen,       (* the screen the user sees                                 *)
  loginBound, loginShown, subjects, loginLatest, loginIsEnabled, loginSent,
  status, prompt, askedAlways, changes, events, updating, created

Login == INSTANCE LoginForm
           WITH Lengths <- LoginLengths, bound <- loginBound, shown <- loginShown,
                latest <- loginLatest, isEnabled <- loginIsEnabled, sent <- loginSent

Home == INSTANCE HomeLocation

login   == << loginBound, loginShown, subjects, loginLatest, loginIsEnabled, loginSent >>
home    == << status, prompt, askedAlways, changes, events, updating, created >>
screens == << screen, vars, login, home >>

ScreensInit == screen = "launch" /\ Init /\ Login!Init /\ Home!Init

(* loginCheck finds a session, or the login screen is made.                *)
Launch ==
  /\ screen = "launch"
  /\ \/ screen' = "login" /\ UNCHANGED home
     \/ screen' = "home" /\ Home!Create
  /\ UNCHANGED << vars, login >>

OnLogin == screen = "login" /\ Login!Next /\ UNCHANGED << screen, vars, home >>

(* Every registration screen is a new one.                                 *)
GoToRegister ==
  /\ screen = "login" /\ loginBound = Len(Login!Bindings)
  /\ screen' = "registration"
  /\ UNCHANGED << vars, login, home >>

OnRegistration ==
  screen = "registration" /\ Next /\ UNCHANGED << screen, login, home >>

(* It is popped by the user or by its completion, and gone.                *)
Pop ==
  /\ screen = "registration" /\ bound = Len(Bindings)
  /\ screen' = "login"
  /\ bound' = 0 /\ shown' = Empty /\ values' = NoValues
  /\ latest' = NoValue /\ isEnabled' = FALSE /\ sent' = NoValue
  /\ UNCHANGED << login, home >>

(* The login has been answered.                                            *)
EnterHome ==
  /\ screen = "login" /\ loginSent # NoValue
  /\ screen' = "home"
  /\ Home!Create
  /\ UNCHANGED << vars, login >>

OnHome ==
  /\ \/ Home!DidChangeAuthorization
     \/ \E s \in Home!Statuses : Home!Answer(s) \/ Home!ChangeSettings(s)
  /\ UNCHANGED << screen, vars, login >>

ScreensNext ==
  Launch \/ OnLogin \/ GoToRegister \/ OnRegistration \/ Pop \/ EnterHome \/ OnHome

(* The main run loop delivers what CoreLocation reports.                   *)
ScreensSpec ==
  ScreensInit /\ [][ScreensNext]_screens /\ WF_screens(Home!DidChangeAuthorization /\ OnHome)
-----------------------------------------------------------------------------
(* On either form the button agrees with what the user sees, although the  *)
(* one misses the values its controls emit first and the other does not    *)
(* (LoginViewModel.swift:22-31, RegistrationViewModel.swift:48-56).        *)
ButtonsAgreeWithScreens == ButtonAgreesWithScreen /\ Login!ButtonAgreesWithScreen

(* Either form sends what the user sees at the tap                         *)
(* (LoginViewModel.swift:33-39, RegistrationViewModel.swift:50-60).        *)
FormsSendWhatIsShown == SendsWhatIsShown /\ Login!SendsWhatIsShown

(* A Home that is allowed When In Use asks for Always, once                *)
(* (HomeViewModel.swift:39-40, HomeController.swift:57-61).                *)
AskedForAlways == Home!AskedForAlways
=============================================================================
