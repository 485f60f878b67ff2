---------------------------- MODULE DurableWrite ----------------------------
(***************************************************************************)
(* What setData promises to saveInfoToFirestore.  A write that has been    *)
(* accepted is kept until the server acknowledges or rejects it, and it    *)
(* settles once.  Its caller is told at most once: ok only of a write the  *)
(* server has applied, an error only of a write that is rejected.  The     *)
(* caller may never be told (its process died), and a write may be applied *)
(* without being acknowledged (the answer was lost).                       *)
(***************************************************************************)
CONSTANT Writes

VARIABLES
  state,    (* none, pending, acked or rejected                             *)
  applied,  (* the writes the server has applied                            *)
  told      (* what the caller heard: none, ok or error                     *)

vars == << state, applied, told >>

Init ==
  /\ state = [w \in Writes |-> "none"]
  /\ applied = {}
  /\ told = [w \in Writes |-> "none"]

Accept(w) ==
  /\ state[w] = "none"
  /\ state' = [state EXCEPT ![w] = "pending"]
  /\ UNCHANGED << applied, told >>

Apply(w) ==
  /\ state[w] # "none"
  /\ applied' = applied \cup {w}
  /\ UNCHANGED << state, told >>

Tell(w, answer) ==
  /\ told[w] = "none"
  /\ told' = [told EXCEPT ![w] = answer]

Acknowledge(w) ==
  /\ state[w] = "pending" /\ w \in applied
  /\ state' = [state EXCEPT ![w] = "acked"]
  /\ Tell(w, "ok") \/ UNCHANGED told
  /\ UNCHANGED applied

(* The caller is told and the process dies before the write is taken off   *)
(* the disk: it is sent, and acknowledged, again.                          *)
TellTooEarly(w) ==
  /\ state[w] = "pending" /\ w \in applied
  /\ Tell(w, "ok")
  /\ UNCHANGED << state, applied >>

Reject(w) ==
  /\ state[w] = "pending"
  /\ state' = [state EXCEPT ![w] = "rejected"]
  /\ Tell(w, "error") \/ UNCHANGED told
  /\ UNCHANGED applied

Next == \E w \in Writes : \/ Accept(w) \/ Apply(w) \/ Acknowledge(w)
                          \/ TellTooEarly(w) \/ Reject(w)

Spec == Init /\ [][Next]_vars
=============================================================================
