--------------------------- MODULE MCSessionStore ---------------------------
(* A small session database for TLC. *)
EXTENDS SessionStore, TLC

\* Ids are random: no action or property singles one out.
Symmetry == Permutations(Ids)
=============================================================================
