--------------------------- MODULE MCAuthManager ---------------------------
(* AuthManager on small sets.  Attempts and emails are interchangeable; a  *)
(* run with liveness or refinement properties declares no symmetry.        *)
EXTENDS AuthManager, TLC

Symmetry == Permutations(Attempts) \cup Permutations(Emails)
=============================================================================
