---------------------------- MODULE MCMailDelivery ----------------------------
(* Small instances of MailDelivery for TLC. *)
EXTENDS MailPromises, TLC

Symmetry == Permutations(Operations) \cup Permutations(Writers)
=============================================================================
