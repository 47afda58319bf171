---------------------------- MODULE GroupPromises ----------------------------
(***************************************************************************)
(* What GroupExecution promises as a whole: that each of its native calls  *)
(* is a DurableEffect, and that no outcome is lost for good.               *)
(***************************************************************************)
EXTENDS GroupExecution

\* The claim a child's records make about its native session, turn and abort.
CreateClaim(c) ==
  CASE setup[c].state \in {"none", "failed"}          -> "unsent"
    [] setup[c].state = "preparing"                   -> "pending"
    [] setup[c].state \in {"dispatching", "unknown"}  -> "maybe"
    [] OTHER                                          -> "known"

AgentClaim(c) ==
  CASE send[c].state = "none"                             -> "unsent"
    [] send[c].state = "preparing"                        -> "pending"
    [] send[c].state = "failed" /\ ~send[c].started       -> "unsent"
    [] send[c].state \in {"dispatching", "unknown"}       -> "maybe"
    [] OTHER                                              -> "known"

\* A turn may be aborted by other means before the stop is sent, which confirms
\* it. A stop without tracking has no marker of its own: only its live flight
\* knows that the abort was not yet called.
AbortClaim(c) ==
  IF stop[c].state = "none" THEN "unsent"
  ELSE IF stop[c].tracked
       THEN CASE stop[c].started -> "maybe"
              [] ~stop[c].started /\ stop[c].state = "requested" -> "pending"
              [] ~stop[c].started /\ stop[c].state # "requested" -> "unsent"
       ELSE IF stop[c].state = "requested" /\ flight[c]["stop"].pc \in {"policy", "account"}
            THEN "pending" ELSE "maybe"

Claim(c, m) ==
  CASE m = "create" -> CreateClaim(c)
    [] m = "agent"  -> AgentClaim(c)
    [] m = "abort"  -> AbortClaim(c)

Abstract ==
  [e \in Children \X Calls |->
     [claim |-> Claim(e[1], e[2]), wire |-> wire[e[1]][e[2]], landed |-> landed[e[1]][e[2]]]]

Promise == INSTANCE DurableEffect WITH Effects <- Children \X Calls, effect <- Abstract

\* Each native session, turn and abort of a Group reply is an effect that
\* takes place at most once and is never claimed less than it may have been.
EachCallIsDurable == Promise!Spec

-----------------------------------------------------------------------------
(* Reconciliation. The owner keeps asking to observe, a flight that waits  *)
(* ends (every Gateway request has a timeout), and an observation that is  *)
(* tried again and again is in the end answered. Nothing else is fair: no  *)
(* command is ever given, no call arrives, no event is delivered.          *)

Fairness ==
  \A c \in Children :
    /\ WF_vars(Observe(c)) /\ WF_vars(EndObserve(c))
    /\ \A pc \in {"policy", "policy2"} :
         SF_vars(flight[c]["observe"].pc = pc /\ PolicyReply(c, "observe"))
    /\ SF_vars(ObserveSetup(c)) /\ SF_vars(ObserveSend(c))
    /\ SF_vars(WaitReply(c)) /\ SF_vars(ObserveVerdict(c))

LiveSpec == Spec /\ Fairness

\* The runtime, registration and account the child was set up under are back
\* for good, and the service is neither closed nor held.
Stable(c) ==
  /\ Authority
  /\ setup[c].proof = [life |-> life, reg |-> reg, acct |-> acct]
  /\ registered[life] \in {0, reg}

Unresolved(c) == setup[c].state \in {"dispatching", "unknown"} /\ landed[c]["create"] > 0

\* A session whose creation was never confirmed (the reply was lost, the
\* service restarted, a hold fell between) is bound by observation alone.
SessionIsFound ==
  \A c \in Children : []<>(~Stable(c)) \/ (Unresolved(c) ~> bound[c])

\* A turn that ended natively gets its verdict by observation alone, although
\* the lease that listens to its events is gone after a restart.
VerdictIsFound ==
  \A c \in Children : []<>(~Stable(c)) \/ (Sent(c) /\ run[c] \in {"ok", "error"} ~> Terminal(c))
=============================================================================
