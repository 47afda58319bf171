------------------------- MODULE DurableEffectProofs -------------------------
(***************************************************************************)
(* What DurableEffect promises for any number of effects. A component that *)
(* is shown to implement DurableEffect inherits these theorems.            *)
(***************************************************************************)
EXTENDS DurableEffect, TLAPS

\* The promise about one effect: the record covers what may have happened,
\* nothing happens twice, and what is known is so.
Sound(x) ==
  /\ x \in Effect
  /\ x.wire + x.landed <= 1
  /\ x.claim \in {"pending", "unsent"} => x.wire = 0 /\ x.landed = 0
  /\ x.claim = "known" => x.landed = 1

\* No move of a single effect breaks its promise.
LEMMA MoveIsSound == \A x, y : Sound(x) /\ Move(x, y) => Sound(y)
<1> SUFFICES ASSUME NEW x, NEW y, Sound(x), Move(x, y) PROVE Sound(y)
  OBVIOUS
<1> USE DEF Sound
<1>1. CASE Ask(x, y)
  BY <1>1 DEF Ask, Effect, Claims
<1>2. CASE Dispatch(x, y)
  <2>1. x \in Effect /\ x.wire = 0 /\ x.landed = 0
    BY <1>2 DEF Dispatch
  <2>2. x.wire + 1 = 1
    BY <2>1
  <2>3. y = [x EXCEPT !.claim = "maybe", !.wire = 1]
    BY <1>2, <2>2 DEF Dispatch
  <2>4. y \in Effect /\ y.claim = "maybe" /\ y.wire = 1 /\ y.landed = 0
    BY <2>1, <2>3 DEF Effect, Claims
  <2>5. QED
    BY <2>4
<1>3. CASE Withdraw(x, y)
  BY <1>3 DEF Withdraw, Effect, Claims
<1>4. CASE Doubt(x, y)
  BY <1>4 DEF Doubt, Effect, Claims
<1>5. CASE Refuse(x, y)
  BY <1>5 DEF Refuse, Effect, Claims
<1>6. CASE Learn(x, y)
  BY <1>6 DEF Learn, Effect, Claims
<1>7. CASE Land(x, y)
  <2>1. x \in Effect /\ x.wire = 1 /\ x.landed = 0
    BY <1>7 DEF Land, Effect
  <2>2. x.wire - 1 = 0 /\ x.landed + 1 = 1
    BY <2>1
  <2>3. y = [x EXCEPT !.wire = 0, !.landed = 1]
    BY <1>7, <2>2 DEF Land
  <2>4. y \in Effect /\ y.claim = x.claim /\ y.wire = 0 /\ y.landed = 1
    BY <2>1, <2>3 DEF Effect
  <2>5. QED
    BY <2>1, <2>4
<1>8. CASE Lose(x, y)
  BY <1>8 DEF Lose, Effect, Claims
<1>9. QED
  BY <1>1, <1>2, <1>3, <1>4, <1>5, <1>6, <1>7, <1>8 DEF Move

AllSound == /\ effect = [e \in Effects |-> effect[e]]
            /\ \A e \in Effects : Sound(effect[e])

\* Every effect keeps its promise in every reachable state.
THEOREM AllSoundHolds == Spec => []AllSound
<1>1. Init => AllSound
  <2> SUFFICES ASSUME Init PROVE AllSound
    OBVIOUS
  <2>1. Sound(Untouched)
    BY DEF Sound, Effect, Claims, Untouched
  <2>2. QED
    BY <2>1 DEF Init, AllSound
<1>2. AllSound /\ [Next]_effect => AllSound'
  <2> SUFFICES ASSUME AllSound, [Next]_effect PROVE AllSound'
    OBVIOUS
  <2>1. CASE Next
    <3>1. \A e \in Effects : Sound(effect'[e])
      BY <2>1, MoveIsSound DEF Next, AllSound
    <3>2. effect' = [e \in Effects |-> effect'[e]]
      BY <2>1 DEF Next
    <3>3. QED
      BY <3>1, <3>2 DEF AllSound
  <2>2. CASE UNCHANGED effect
    BY <2>2 DEF AllSound
  <2>3. QED
    BY <2>1, <2>2
<1>3. QED
  BY <1>1, <1>2, PTL DEF Spec

\* One request has at most one effect, and the record kept of it never claims
\* less than what may have happened nor more than what did.
THEOREM PromiseKept == Spec => [](TypeOK /\ AtMostOnce /\ ClaimCovers /\ KnownIsTrue)
<1>1. AllSound => TypeOK /\ AtMostOnce /\ ClaimCovers /\ KnownIsTrue
  BY DEF AllSound, Sound, TypeOK, AtMostOnce, ClaimCovers, KnownIsTrue
<1>2. QED
  BY <1>1, AllSoundHolds, PTL

-----------------------------------------------------------------------------
(* For the proof that a component implements DurableEffect.                *)

E(claim, wires, lands) == [claim |-> claim, wire |-> wires, landed |-> lands]

\* The moves of an effect between two pictures of it.
LEMMA Moves ==
  ASSUME NEW n \in Nat
  PROVE  /\ Move(E("unsent", 0, n), E("pending", 0, n))
         /\ Move(E("pending", 0, n), E("maybe", 1, n))
         /\ Move(E("pending", 0, n), E("unsent", 0, n))
         /\ Move(E("pending", 0, n), E("maybe", 0, n))
         /\ Move(E("maybe", 0, 0), E("unsent", 0, 0))
         /\ Move(E("maybe", 0, 1), E("known", 0, 1))
         /\ \A c : Move(E(c, 1, n), E(c, 0, n + 1)) /\ Move(E(c, 1, n), E(c, 0, n))
<1>0. /\ 0 + 1 = 1 /\ 1 - 1 = 0 /\ 1 > 0
      /\ \A x : /\ [x EXCEPT !.claim = "maybe", !.wire = 1] = [[x EXCEPT !.claim = "maybe"] EXCEPT !.wire = 1]
                /\ [x EXCEPT !.wire = 0, !.landed = n + 1] = [[x EXCEPT !.wire = 0] EXCEPT !.landed = n + 1]
  OBVIOUS
<1>1. Ask(E("unsent", 0, n), E("pending", 0, n))
  BY DEF Ask, E
<1>2. Dispatch(E("pending", 0, n), E("maybe", 1, n))
  <2>1. /\ E("maybe", 0, n) = [E("pending", 0, n) EXCEPT !.claim = "maybe"]
        /\ E("maybe", 1, n) = [E("maybe", 0, n) EXCEPT !.wire = 1]
        /\ E("pending", 0, n).claim = "pending" /\ E("pending", 0, n).wire = 0
    BY DEF E
  <2>2. E("maybe", 1, n) = [E("pending", 0, n) EXCEPT !.claim = "maybe", !.wire = 1]
    BY <1>0, <2>1
  <2>3. QED
    BY <1>0, <2>1, <2>2 DEF Dispatch
<1>3. Withdraw(E("pending", 0, n), E("unsent", 0, n))
  BY DEF Withdraw, E
<1>4. Doubt(E("pending", 0, n), E("maybe", 0, n))
  BY DEF Doubt, E
<1>5. Refuse(E("maybe", 0, 0), E("unsent", 0, 0))
  BY DEF Refuse, E
<1>6. Learn(E("maybe", 0, 1), E("known", 0, 1))
  BY DEF Learn, E
<1>7. ASSUME NEW c PROVE Land(E(c, 1, n), E(c, 0, n + 1))
  <2>1. /\ E(c, 0, n) = [E(c, 1, n) EXCEPT !.wire = 0]
        /\ E(c, 0, n + 1) = [E(c, 0, n) EXCEPT !.landed = n + 1]
        /\ E(c, 1, n).wire = 1 /\ E(c, 1, n).landed = n
    BY DEF E
  <2>2. E(c, 0, n + 1) = [E(c, 1, n) EXCEPT !.wire = 0, !.landed = n + 1]
    BY <1>0, <2>1
  <2>3. QED
    BY <1>0, <2>1, <2>2 DEF Land
<1>8. ASSUME NEW c PROVE Lose(E(c, 1, n), E(c, 0, n))
  BY DEF Lose, E
<1>9. QED
  BY <1>1, <1>2, <1>3, <1>4, <1>5, <1>6, <1>7, <1>8 DEF Move
=============================================================================
