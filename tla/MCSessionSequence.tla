-------------------------- MODULE MCSessionSequence --------------------------
(***************************************************************************)
(* Two sessions, two variables, up to three runs.                          *)
(***************************************************************************)
EXTENDS SessionSequence, TLC

(* Neither sessions nor variables differ from one another.                  *)
Interchangeable == Permutations(Variables) \cup Permutations(Sessions)
=============================================================================
