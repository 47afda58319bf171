---------------------------- MODULE UpdatePromises ----------------------------
(***************************************************************************)
(* What UpdateHost promises as a whole: that each job's installation is a  *)
(* DurableEffect, and that a result is never left unread.                  *)
(***************************************************************************)
EXTENDS UpdateHost

\* What is written of job k: on the disk, and, where a save threw after it
\* persisted, otherwise in the memory of the controller that goes on with it.
Records(k) == {j \in {host.journal[k], host.mem} \ {NoJob} : j.id = k}

\* The claim made about the installation of job k: the most that is open in
\* its records.
Claim(k) ==
  LET started == {j \in Records(k) : j.started} IN
  IF started # {} THEN IF \E j \in started : j.hold THEN "maybe" ELSE "known"
  ELSE IF \E j \in Records(k) : j.state \notin Terminal THEN "pending" ELSE "unsent"

\* A launch is under way while the supervisor is in run and no installer was.
Abstract ==
  [k \in Jobs |->
     [claim  |-> Claim(k),
      wire   |-> IF host.at = "run" /\ host.for = k /\ runner[k] = "none" THEN 1 ELSE 0,
      landed |-> IF runner[k] # "none" THEN 1 ELSE 0]]

Promise == INSTANCE DurableEffect WITH Effects <- Jobs, effect <- Abstract

\* A reviewed release is installed at most once for a request, and the journal
\* never claims less than that it may have been, whatever save throws, whatever
\* is cancelled, replayed or taken back, and wherever the controller dies.
EachInstallIsDurable == Promise!Spec

-----------------------------------------------------------------------------
(* The controller polls every two seconds, systemd starts it again after a *)
(* failure, and the end of a process it waits for is reported. A disk that *)
(* keeps being written is in the end written without an error.             *)

\* The supervisor hears that its installer ended.
RunEnds(k) == host.at = "run" /\ host.for = k /\ runner[k] = "exited" /\ (RunReturns \/ AwaitFails)

\* The result of job k is read, and the job is saved with it.
Settles(k) ==
  /\ host.journal[k] # NoJob /\ host.journal[k].hold
  /\ ReconcileReturns
  /\ ~host'.journal[k].hold

Fairness ==
  /\ SF_vars(Poll) /\ WF_vars(Restart)
  /\ \A k \in Jobs : SF_vars(RunEnds(k)) /\ SF_vars(Settles(k))

LiveSpec == Spec /\ Fairness

\* Once the installer has written its result, the workspace is released, also
\* when the controller dies, restarts or cannot write its journal for a while.
ResultIsSettled ==
  \A k \in Jobs : verdict[k] # "none" ~> host.journal[k] # NoJob /\ ~host.journal[k].hold
=============================================================================
