----------------------- MODULE AuthManagerRefinement -----------------------
(***************************************************************************)
(* AuthManager implements AuthRequest: every attempt, seen through the     *)
(* events its sink forwarded and the effect it had, is a request.          *)
(***************************************************************************)
EXTENDS AuthManager

(* A login has its effect when updateCurrentUser has succeeded, that is,   *)
(* when its callback carries no error; a registration when its setData has *)
(* been acknowledged.                                                      *)
Effected(a) ==
  \/ /\ op[a] = "login"
     /\ \E i \in DOMAIN mainQueue : mainQueue[i].att = a /\ mainQueue[i].ok
  \/ save[a] = "acked"

RequestState(a) ==
  IF stage[a] = "idle" THEN "idle"
  ELSE IF sink[a].got # << >> THEN sink[a].got[1]
  ELSE IF ~sink[a].open THEN "silent"
  ELSE IF Effected(a) THEN "effected"
  ELSE "waiting"

requests == [a \in Attempts |-> RequestState(a)]

Promise == INSTANCE AuthRequest WITH Requests <- Attempts, state <- requests

(* The subscribers of performLogin and performRegistration get what        *)
(* AuthRequest promises them, whatever the order of the callbacks, of      *)
(* disposals and of the deaths of the process.                             *)
ImplementsAuthRequest == Promise!Spec
=============================================================================
