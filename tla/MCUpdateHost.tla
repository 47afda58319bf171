----------------------------- MODULE MCUpdateHost -----------------------------
(* Small instances of UpdateHost for TLC. *)
EXTENDS UpdatePromises, TLC, FiniteSets

Symmetry == Permutations(Jobs) \cup Permutations(Epochs) \cup Permutations(Revisions)

Filed == {k \in Jobs : host.journal[k] # NoJob}

\* Bound: two requests are followed only in one epoch, of one release and by a
\* controller that is not told to stop; one request meets all of these.
OneRequestOrOneWorld ==
  Cardinality(Filed) > 1 =>
    /\ ~host.stopped
    /\ \A k \in Filed :
         /\ beat # NoBeat => beat.epoch = host.journal[k].epoch
         /\ feed = host.journal[k].release
=============================================================================
