----------------------------- MODULE MailPromises -----------------------------
(***************************************************************************)
(* What MailDelivery promises as a whole: that each stage of a saved mail  *)
(* operation is a DurableEffect, and that no operation is stuck for good.  *)
(***************************************************************************)
EXTENDS MailDelivery

\* The claim an operation's record makes about its stage i.
Claim(o, i) ==
  IF i <= head[o].done THEN "known"
  ELSE IF i > head[o].done + 1 THEN "unsent"
  ELSE IF head[o].attempted THEN "maybe"
  ELSE IF head[o].state = "running" /\ Left(o) THEN "pending" ELSE "unsent"

Abstract ==
  [e \in Operations \X (1 .. MaxStages) |->
     [claim  |-> Claim(e[1], e[2]),
      wire   |-> Cardinality({n \in DOMAIN wire : wire[n].op = e[1] /\ wire[n].stage = e[2]}),
      landed |-> landed[e[1]][e[2]]]]

Promise == INSTANCE DurableEffect WITH Effects <- Operations \X (1 .. MaxStages),
                                       effect <- Abstract

\* Each draft created or changed and each message sent is an effect that takes
\* place at most once and is never claimed less than it may have been, whatever
\* is refused, confirmed again, lost, reconciled or restarted.
EachStageIsDurable == Promise!Spec

-----------------------------------------------------------------------------
(* Every function of the service that waits ends: a provider request has a *)
(* timeout. An owner who is unsure keeps checking, and a check repeated    *)
(* again and again is in the end answered. Nothing is assumed of the rest. *)

Fairness ==
  \A o \in Operations :
    /\ WF_vars(NotPrepared(o)) /\ WF_vars(Fail(o) \/ Finish(o)) /\ WF_vars(NotFound(o))
    /\ WF_vars(Check(o)) /\ SF_vars(Found(o))

LiveSpec == Spec /\ Fairness

\* An operation under way is brought to a state its owner can act on, also
\* when the service closes or restarts under it.
RunsEnd ==
  \A o \in Operations :
    head[o].state \in {"preparing", "running"} ~> head[o].state \notin {"preparing", "running"}

\* What the provider can show of an operation in doubt.
Evident(o) ==
  LET s == Stage(o) IN
  /\ head[o].state = "uncertain" /\ ~closed /\ connected
  /\ CASE s = "update-file" -> /\ landed[o][head[o].done + 1] > 0
                               /\ version[head[o].draft] = head[o].key + 1
       [] s \in {"send", "send-draft"} -> sent[o] = o
       [] OTHER -> DraftShown(o)

\* Doubt does not last when the provider can show what happened.
DoubtIsSettled == \A o \in Operations : ~<>[]Evident(o)
=============================================================================
