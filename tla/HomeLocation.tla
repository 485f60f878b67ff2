---------------------------- MODULE HomeLocation ----------------------------
(***************************************************************************)
(* The location manager of Home: the permission that HomeViewModel asks    *)
(* for when it is made, and that HomeController asks for again when the    *)
(* authorization changes.  The authorization belongs to the system and     *)
(* outlives the screen; iOS tells the delegate of the manager of it, once  *)
(* when the delegate is set and then at every change.                      *)
(***************************************************************************)
EXTENDS Naturals, Sequences

CONSTANT MaxChanges  (* bounds the changes made in the Settings             *)

VARIABLES
  status,       (* the authorization the user has given                     *)
  prompt,       (* the question iOS shows, if any                           *)
  askedAlways,  (* iOS asks once whether to change When In Use to Always    *)
  changes,      (* counts towards MaxChanges                                *)
  events,       (* callbacks of the delegate that have not run              *)
  updating,     (* startUpdatingLocation was called                         *)
  created       (* HomeViewModel was made                                   *)

vars == << status, prompt, askedAlways, changes, events, updating, created >>

Statuses == {"notDetermined", "denied", "whenInUse", "always"}

Init ==
  /\ status \in Statuses
  /\ askedAlways \in BOOLEAN
  /\ status = "notDetermined" => ~askedAlways
  /\ prompt = "none" /\ changes = 0
  /\ events = << >>
  /\ updating = FALSE /\ created = FALSE
-----------------------------------------------------------------------------
(* requestWhenInUseAuthorization and requestAlwaysAuthorization, as iOS    *)
(* carries them out.                                                       *)
requestWhenInUseAuthorization ==
  prompt' = IF prompt = "none" /\ status = "notDetermined" THEN "whenInUse" ELSE prompt

requestAlwaysAuthorization ==
  prompt' = IF prompt = "none" /\ status = "whenInUse" /\ ~askedAlways THEN "always" ELSE prompt

enableLocationServices ==
  /\ CASE status = "notDetermined" -> requestWhenInUseAuthorization
       [] status = "whenInUse" -> requestAlwaysAuthorization
       [] OTHER -> UNCHANGED prompt
  /\ updating' = (status = "always")

(* HomeViewModel is made and HomeController bound to it.                   *)
Create ==
  /\ ~created
  /\ created' = TRUE
  /\ enableLocationServices
  /\ events' = << status >>
  /\ UNCHANGED << status, askedAlways, changes >>

(* iOS tells the delegate, if Home has set one.                            *)
SetStatus(s) ==
  /\ status' = s
  /\ events' = IF s # status /\ created THEN Append(events, s) ELSE events

Answer(s) ==
  /\ \/ prompt = "whenInUse" /\ s \in {"denied", "whenInUse"}
     \/ prompt = "always" /\ s \in {"whenInUse", "always"}
  /\ prompt' = "none"
  /\ askedAlways' = (askedAlways \/ prompt = "always")
  /\ SetStatus(s)
  /\ UNCHANGED << changes, updating, created >>

ChangeSettings(s) ==
  /\ prompt = "none" /\ status # "notDetermined"
  /\ s \in {"denied", "whenInUse", "always"} \ {status}
  /\ changes < MaxChanges /\ changes' = changes + 1
  /\ SetStatus(s)
  /\ UNCHANGED << prompt, askedAlways, updating, created >>

(* The subscription to didChangeAuthorization.                             *)
DidChangeAuthorization_Ignores ==
  /\ events # << >>
  /\ events' = Tail(events)
  /\ UNCHANGED << status, prompt, askedAlways, changes, updating, created >>

DidChangeAuthorization ==
  /\ events # << >>
  /\ events' = Tail(events)
  /\ IF Head(events) = "whenInUse" THEN requestAlwaysAuthorization ELSE UNCHANGED prompt
  /\ UNCHANGED << status, askedAlways, changes, updating, created >>

Next ==
  \/ Create \/ DidChangeAuthorization
  \/ \E s \in Statuses : Answer(s) \/ ChangeSettings(s)

Spec == Init /\ [][Next]_vars
-----------------------------------------------------------------------------
(* A user who allows the location When In Use while Home is there is asked *)
(* for Always, whether he did so before Home was made or afterwards        *)
(* (HomeViewModel.swift:39-40, HomeController.swift:57-61).                *)
AskedForAlways ==
  created /\ status = "whenInUse"
    ~> prompt = "always" \/ askedAlways \/ status # "whenInUse"
=============================================================================
