------------------------- MODULE MCFirestoreWrites -------------------------
(* FirestoreWrites on small sets.  Registrations are interchangeable; the  *)
(* run with a liveness property declares no symmetry.                      *)
EXTENDS FirestoreWrites, TLC

Symmetry == Permutations(Registrations)
=============================================================================
