--------------------------- MODULE MCGroupExecution ---------------------------
(* Small instances of GroupExecution for TLC. *)
EXTENDS GroupPromises, TLC

Symmetry == Permutations(Children) \cup Permutations(Accounts)

\* What keeps the service from writing or sending now.
Pauses == {p \in {<<"held", held>>, <<"closed", closed>>, <<"revoked", ~available>>} : p[2]}

\* The phases that were asked again.
Continued ==
  {<<c, "setup">> : c \in {d \in Children : setup[d].attempts > 1}}
    \cup {<<c, "send">> : c \in {d \in Children : send[d].attempts > 1}}
    \cup {<<c, "stop">> : c \in {d \in Children : stop[d].attempts > 1}}

Proofs == UNION {{setup[c].proof, send[c].proof} : c \in Children} \ {NoProof}

\* Runtime, registration and account are those every child was prepared under.
OneRuntime == life = 1 /\ reg = 1 /\ up /\ \A p \in Proofs : p.acct = acct

\* Bound: a continuation, and the pauses of the service one at a time, are
\* followed under one runtime; a new runtime or a new registration, and changes
\* of the account, beside first attempts of a service that is not paused.
OneTrouble ==
  \/ OneRuntime /\ Cardinality(Pauses) <= 1 /\ Cardinality(Continued) <= 1
  \/ (life = 1 \/ reg = 1) /\ Pauses = {} /\ Continued = {}
=============================================================================
