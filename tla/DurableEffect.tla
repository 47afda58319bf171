---------------------------- MODULE DurableEffect ----------------------------
(***************************************************************************)
(* What every part of Nova Dream that reaches another program promises     *)
(* about one effect there (a native session, a model turn, an abort, a     *)
(* provider draft, a sent message): the effect takes place at most once,   *)
(* and the record the workspace keeps of it never claims less than what    *)
(* may have happened.                                                      *)
(*                                                                         *)
(* effect[e].claim is the record the workspace keeps:                      *)
(*   "unsent"   nothing is asked; no call was made                         *)
(*   "pending"  the request is admitted, no call was made                  *)
(*   "maybe"    a call was or may have been made; its result is unknown    *)
(*   "known"    the effect is known to have taken place                    *)
(* effect[e].wire counts the calls under way, effect[e].landed the times   *)
(* the effect took place. Effects are independent: one step of the program *)
(* (a crash, say) may move several of them.                                *)
(***************************************************************************)
EXTENDS Naturals

CONSTANT Effects

VARIABLE effect

Claims == {"unsent", "pending", "maybe", "known"}

Effect == [claim : Claims, wire : Nat, landed : Nat]

Untouched == [claim |-> "unsent", wire |-> 0, landed |-> 0]

Init == effect = [e \in Effects |-> Untouched]

\* The owner asks, for the first time or again after a proof that nothing was
\* sent: the request is recorded before anything else happens.
Ask(x, y) ==
  /\ x.claim = "unsent"
  /\ y = [x EXCEPT !.claim = "pending"]

\* The one place a call is made: together with the mark that it may have been.
Dispatch(x, y) ==
  /\ x.claim = "pending"
  /\ y = [x EXCEPT !.claim = "maybe", !.wire = @ + 1]

\* No call was made, and the live owner of the request, or its record, tells.
Withdraw(x, y) ==
  /\ x.claim = "pending"
  /\ y = [x EXCEPT !.claim = "unsent"]

\* Nobody is left who knows whether a call was made.
Doubt(x, y) ==
  /\ x.claim = "pending"
  /\ y = [x EXCEPT !.claim = "maybe"]

\* The other program refused the call: nothing happened and nothing will.
Refuse(x, y) ==
  /\ x.claim = "maybe" /\ x.wire + x.landed = 0
  /\ y = [x EXCEPT !.claim = "unsent"]

\* An acknowledgement or an observation establishes the effect.
Learn(x, y) ==
  /\ x.claim = "maybe" /\ x.landed > 0
  /\ y = [x EXCEPT !.claim = "known"]

\* The call arrives, or is lost.
Land(x, y) == x.wire > 0 /\ y = [x EXCEPT !.wire = @ - 1, !.landed = @ + 1]
Lose(x, y) == x.wire > 0 /\ y = [x EXCEPT !.wire = @ - 1]

Move(x, y) ==
  \/ Ask(x, y) \/ Dispatch(x, y) \/ Withdraw(x, y) \/ Doubt(x, y)
  \/ Refuse(x, y) \/ Learn(x, y) \/ Land(x, y) \/ Lose(x, y)

\* One step, from before to after; each is bound by a quantifier so that TLC
\* evaluates what is substituted for effect once, and not for every move.
Next ==
  \E before \in {effect}, after \in {effect'} :
    /\ after = [e \in Effects |-> after[e]]
    /\ \A e \in Effects : after[e] = before[e] \/ Move(before[e], after[e])

Spec == Init /\ [][Next]_effect

-----------------------------------------------------------------------------

\* The shape of the record kept of every effect.
TypeOK == effect \in [Effects -> Effect]

\* Nothing happened, and nothing is under way, unless the record says it may.
ClaimCovers ==
  \A e \in Effects : effect[e].claim \in {"pending", "unsent"} =>
    effect[e].wire = 0 /\ effect[e].landed = 0

\* One request, one effect.
AtMostOnce == \A e \in Effects : effect[e].wire + effect[e].landed <= 1

\* What the record calls known did take place.
KnownIsTrue == \A e \in Effects : effect[e].claim = "known" => effect[e].landed = 1
=============================================================================
