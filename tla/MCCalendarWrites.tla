--------------------------- MODULE MCCalendarWrites ---------------------------
(***************************************************************************)
(* Small instances of CalendarPromises for TLC.                            *)
(***************************************************************************)
EXTENDS CalendarPromises, TLC

Symmetry == Permutations(Writes) \cup Permutations(Drafts)
=============================================================================
