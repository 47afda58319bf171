--------------------------- MODULE CalendarPromises ---------------------------
(***************************************************************************)
(* What CalendarWrites and Accounts promise: each write is a DurableEffect, *)
(* a draft makes one event, an event has one hand on it, and nothing is    *)
(* written or connected without a consent that still stands.               *)
(***************************************************************************)
EXTENDS CalendarWrites

\* The claim an operation's record makes about its change. An event that is
\* gone does not tell who deleted it.
Claim(w) ==
  CASE write[w].state = "confirmed" -> "known"
    [] write[w].state = "observed"  -> IF write[w].action = "delete" THEN "maybe" ELSE "known"
    [] write[w].state = "unknown"   -> "maybe"
    [] write[w].state = "applying"  -> IF write[w].attempted THEN "maybe" ELSE "pending"
    [] OTHER -> "unsent"

Abstract ==
  [w \in Writes |->
     [claim |-> Claim(w), wire |-> IF w \in wire THEN 1 ELSE 0, landed |-> landed[w]]]

Promise == INSTANCE DurableEffect WITH Effects <- Writes, effect <- Abstract

\* A calendar change takes place at most once and is never claimed less than it
\* may have been, whatever is refused, lost, checked again or restarted.
EachWriteIsDurable == Promise!Spec

\* However often a kept draft is prepared, refused, lost and prepared again,
\* it makes one event in the calendar.
OneEventPerDraft ==
  \A v, w \in Writes :
    /\ v # w /\ write[v].draft = write[w].draft
    /\ write[v].action = "create" /\ write[w].action = "create"
    => landed[v] + landed[w] <= 1

\* While a request for an event may still arrive, its answer lost or its service
\* restarted, no other change of that event is applied. The operation that made
\* the event may still wait for its answer.
OneHandPerEvent ==
  \A v, w \in Writes :
    v # w /\ write[v].target = write[w].target /\ v \in wire =>
      w \notin wire /\ (write[w].state = "applying" => write[w].action = "create")

\* A request leaves only under the connection its review was prepared with,
\* connected and permitted to write, with the tokens its last read used, and
\* neither during an update hold nor after close.
WrittenUnderConsent ==
  [][\A w \in wire' \ wire :
       LET i == Who(w) IN
       /\ account[i].generation = write[w].generation
       /\ account[i].state \in {"connected", "refreshing"} /\ account[i].write
       /\ credential[i].generation = write[w].generation
       /\ credential[i].version = task[w].version
       /\ ~held /\ ~closed]_vars

\* A connected account has tokens of its own connection; a connection has one
\* refresh at a time, and an account that is refreshing has a refresh that may
\* still save its result, so that it does not stay in that state.
RefreshIsOwned ==
  \A i \in Identities :
    /\ account[i].state \in {"connected", "refreshing"} =>
         credential[i].generation = account[i].generation
    /\ account[i].state = "refreshing" /\ ~closed => \E r \in refreshing : r.who = i /\ Mine(r)
    /\ \A g \in 1 .. account[i].revision : Cardinality(UnderWay(i, g)) <= 1

\* An account disconnected or refused comes back only by a sign-in begun since:
\* no refresh or sign-in from before, however late its answer, connects it.
OldConsentIsGone ==
  [][\A i \in Identities :
       account[i].state \in {"disconnected", "reconnect"} /\ account'[i].state = "connected" =>
         \E a \in SignIns : /\ attempt[a].state = "exchanging" /\ attempt'[a].state = "completed"
                            /\ attempt[a].base[i] = account[i].revision]_vars
=============================================================================
