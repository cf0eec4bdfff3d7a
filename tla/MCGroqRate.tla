----------------------------- MODULE MCGroqRate -----------------------------
(***************************************************************************)
(* The shared Groq budget for TLC: processes are interchangeable, and only *)
(* invariants are checked, so states may be identified up to renaming.     *)
(***************************************************************************)
EXTENDS GroqRate, TLC

ProcessSymmetry == Permutations(Processes)

\* The provider counts two tokens less or one more than was reserved.
mcCorrections == {-2, 1}
=============================================================================
