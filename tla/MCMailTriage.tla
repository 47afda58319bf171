----------------------------- MODULE MCMailTriage -----------------------------
(***************************************************************************)
(* Small instances of TriagePromises for TLC.                              *)
(***************************************************************************)
EXTENDS TriagePromises, TLC

Symmetry == Permutations(Plans) \cup Permutations(Messages)
=============================================================================
