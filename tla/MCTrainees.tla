----------------------------- MODULE MCTrainees -----------------------------
(***************************************************************************)
(* The enrollments of a course for TLC: identities and batches are         *)
(* interchangeable, and only invariants are checked.                       *)
(***************************************************************************)
EXTENDS Trainees, TLC

Symmetry == Permutations(Identities) \cup Permutations(Batches)
=============================================================================
