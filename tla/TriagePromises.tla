---------------------------- MODULE TriagePromises ----------------------------
(***************************************************************************)
(* What MailTriage promises: each step of each message of a plan is a      *)
(* DurableEffect, and a message with an unsettled change is one plan's.    *)
(***************************************************************************)
EXTENDS MailTriage

\* The claim a record makes about step k of message m, done or undone.
Claim(p, m, way, k) ==
  LET x == item[p][m]
      state == IF way = "undo" THEN x.undo ELSE x.state IN
  IF k <= Cursor(x, way) THEN "known"
  ELSE IF k > Cursor(x, way) + 1 THEN "unsent"
  ELSE IF state \in {"uncertain", "observed"} \/ (state = "applying" /\ x.attempted) THEN "maybe"
  ELSE IF Way(p) = way /\ head[p].running # "none" /\ state \in {"pending", "applying", "available"}
       THEN "pending" ELSE "unsent"

Abstract ==
  [s \in Steps |-> [claim  |-> Claim(s[1], s[2], s[3], s[4]),
                    wire   |-> IF s \in wire THEN 1 ELSE 0,
                    landed |-> landed[s]]]

Promise == INSTANCE DurableEffect WITH Effects <- Steps, effect <- Abstract

\* Each step of a reviewed change, of its undo or of a restore is made at most
\* once, also when its neighbours fail, when it is continued, undone, checked or
\* acknowledged, and when the service restarts between two steps of one message;
\* and it is never claimed less than it may have been.
EachStepIsDurable == Promise!Spec

\* A plan that may have changed a message, or has stopped half way in it.
Unsettled(p, m) ==
  LET x == item[p][m] IN
  \/ x.state \in {"applying", "uncertain"} \/ x.undo \in {"applying", "uncertain"}
  \/ Restore(p) /\ x.state = "failed" /\ x.done > 0

\* No two plans have a change of the same message unsettled: an undo or a
\* restore does not begin while another plan's step may still be found to have
\* happened, and the other way round.
OneHandPerMessage ==
  \A m \in Messages : \A p, q \in Plans : Unsettled(p, m) /\ Unsettled(q, m) => p = q

\* A deleted message is restored by one plan at most: another restore of the same
\* delete may begin only while the first has sent nothing or was refused, however
\* the first ended, was checked or acknowledged.
RestoredOnce ==
  \A p, r \in Plans : \A m \in head[p].items \cap head[r].items :
    /\ p # r /\ Restore(p) /\ Restore(r) /\ item[p][m].origin = item[r][m].origin
    => \E s \in {p, r} : <<s, m, "apply", 1>> \notin wire /\ landed[<<s, m, "apply", 1>>] = 0

\* A request leaves only for the plan that holds the message, although only a
\* restore asks; a restore's only while the delete it takes back stands and is
\* claimed by it; and none after a disconnection, in an update hold or after close.
SentByItsOwner ==
  [][\A s \in wire' \ wire :
       LET p == s[1]
           m == s[2] IN
       /\ lock[m] = p /\ connected /\ ~held /\ ~closed
       /\ Restore(p) => LET q == item[p][m].origin IN
            claim[q, m] = p /\ item[q][m].undo = "available"]_vars

-----------------------------------------------------------------------------
(* Every function of a plan ends: provider requests have a timeout.        *)

\* What the steps of a function change.
own == <<durable, working>>

Fairness ==
  \A p \in Plans :
    /\ WF_own(ThreadsFail(p)) /\ WF_own(ItemsEnd(p)) /\ WF_own(Refreshed(p)) /\ WF_own(InspectEnds(p))
    /\ \A m \in Messages :
         /\ WF_own(ItemFails(p, m)) /\ WF_own(ItemUnclear(p, m)) /\ WF_own(NotObserved(p, m))

LiveSpec == Spec /\ Fairness

\* A confirmed decision is carried out, with whatever result, and its plan is
\* then open for the next one.
DecisionsEnd == \A p \in Plans : head[p].running # "none" ~> head[p].running = "none"
=============================================================================
