---------------------------- MODULE AuthRequest ----------------------------
(***************************************************************************)
(* What a subscriber of AuthManager is promised.  A request takes effect   *)
(* at most once (a login: the user is signed in; a registration: Firestore *)
(* has acknowledged the user's document).  It reports at most one result,  *)
(* success only after the effect and failure only without it, and nothing  *)
(* once it has been disposed of.                                           *)
(***************************************************************************)
CONSTANT Requests

VARIABLE state

States == {"idle", "waiting", "effected", "true", "false", "error", "silent"}

Init == state = [r \in Requests |-> "idle"]

Move(r, from, to) == state[r] \in from /\ state' = [state EXCEPT ![r] = to]

Start(r)   == Move(r, {"idle"}, "waiting")
Effect(r)  == Move(r, {"waiting"}, "effected")
Succeed(r) == Move(r, {"effected"}, "true")
Fail(r)    == \E answer \in {"false", "error"} : Move(r, {"waiting"}, answer)

(* Disposal of any number of requests: a screen going away takes one, the  *)
(* death of the process takes all.                                         *)
Drop == \E D \in SUBSET {r \in Requests : state[r] \in {"waiting", "effected"}} :
          state' = [r \in Requests |-> IF r \in D THEN "silent" ELSE state[r]]

Next == (\E r \in Requests : Start(r) \/ Effect(r) \/ Succeed(r) \/ Fail(r)) \/ Drop

Spec == Init /\ [][Next]_state
=============================================================================
