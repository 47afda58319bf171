---------------------------- MODULE TriageProofs ----------------------------
(***************************************************************************)
(* Triage of mail for any number of plans and messages, whatever plans are *)
(* asked for: no two plans have a change of one message unsettled, a       *)
(* delete is taken back once, requests leave only for the plan that holds  *)
(* the message, and each step of each message implements DurableEffect.    *)
(* The invariant says of every plan and message what its record, the       *)
(* running function, the requests, the lock and the claim tell of each     *)
(* other.                                                                  *)
(***************************************************************************)
EXTENDS TriagePromises, FiniteSetTheorems, TLAPS

-----------------------------------------------------------------------------
(* The invariant.                                                          *)

State(x, way) == IF way = "undo" THEN x.undo ELSE x.state

\* What the record of a plan says of its function.
PlanRight(p) ==
  /\ head[p].state = "none" => head[p].items = {}
  /\ head[p].state # "approved" => head[p].running = "none" /\ job[p].at = "none"
  /\ job[p].at = "items" => head[p].running \in {"apply", "undo", "continue"}
  /\ job[p].at = "threads" => head[p].running = "apply"
  /\ Restore(p) => head[p].running # "undo"

\* What the record of a message says of the function that works on it.
ItemRight(p, m) ==
  LET x == item[p][m]
      h == hand[p][m] IN
  /\ m \notin head[p].items => x = NoItem /\ h = "idle"
  /\ m \in head[p].items => x.state # "none"
  /\ head[p].state # "approved" => x.state \in {"none", "pending"} /\ ~x.attempted /\ x.done = 0
  /\ x.undo # "unsupported" => x.state = "applied" /\ ~Restore(p)
  /\ x.undo = "unsupported" => x.undone = 0
  /\ IF x.state = "applied" THEN x.done = Count(p, "apply") ELSE x.done < Count(p, "apply")
  /\ IF x.undo = "undone" THEN x.undone = Count(p, "undo") ELSE x.undone < Count(p, "undo")
  /\ h # "idle" => job[p].at = "items"
  /\ h = "ready" => ~x.attempted /\ State(x, Way(p)) \in {"pending", "applying", "available"}
  /\ h \in {"waiting", "done", "denied"} => x.attempted /\ State(x, Way(p)) = "applying"
  /\ x.attempted => h \in {"waiting", "done", "denied"} \/ (h = "idle" /\ Doubtful(x))
  /\ x.state = "applying" => job[p].at = "items" /\ Way(p) = "apply" /\ (x.attempted \/ Restore(p))
  /\ x.undo = "applying" => job[p].at = "items" /\ Way(p) = "undo" /\ x.attempted
  /\ job[p].at \in {"check", "acknowledge"} /\ m \in job[p].todo => m \in head[p].items /\ Doubtful(x)

\* What is under way of a step and what took place.
StepRight(p, m, way, k) ==
  LET x == item[p][m]
      s == <<p, m, way, k>>
      c == Cursor(x, way)
      unknown == State(x, way) \in {"uncertain", "observed"} IN
  /\ s \in wire => /\ k = c + 1 /\ landed[s] = 0
                   /\ unknown \/ (hand[p][m] = "waiting" /\ way = Way(p))
  /\ k <= c => landed[s] = 1
  /\ k > c + 1 => landed[s] = 0
  /\ k = c + 1 => /\ landed[s] \in {0, 1}
                  /\ landed[s] = 1 => unknown \/ (hand[p][m] = "done" /\ way = Way(p))
                  /\ hand[p][m] = "done" /\ way = Way(p) => landed[s] = 1

CallRight(p, m) == \A way \in Ways, k \in 1 .. 2 : StepRight(p, m, way, k)

\* A message in the course of a plan's change is the plan's.
LockRight(p, m) ==
  LET x == item[p][m] IN
  /\ lock[m] = p => m \in head[p].items /\ head[p].state = "approved"
  /\ head[p].state = "approved" /\
     (\/ x.state \in {"pending", "applying", "uncertain"} \/ x.undo \in {"applying", "uncertain"}
      \/ Restore(p) /\ x.state = "failed" /\ x.done > 0
      \/ head[p].running = "undo" /\ x.undo = "available")
     => lock[m] = p

\* A restore that has its message, or has sent anything, has the delete too.
ClaimRight(p, m) ==
  Restore(p) /\ m \in head[p].items =>
    /\ item[p][m].origin \in Plans
    /\ (lock[m] = p \/ <<p, m, "apply", 1>> \in wire \/ landed[<<p, m, "apply", 1>>] > 0)
       => claim[item[p][m].origin, m] = p

Rows(p, m) == ItemRight(p, m) /\ CallRight(p, m) /\ LockRight(p, m) /\ ClaimRight(p, m)

\* Approvals are counted.
Approved == {q \in Plans : head[q].state = "approved"}

Inv ==
  /\ TypeOK /\ IsFiniteSet(Approved)
  /\ \A p \in Plans : PlanRight(p)
  /\ \A p \in Plans : \A m \in Messages : Rows(p, m)

-----------------------------------------------------------------------------
(* What steps leave alone.                                                 *)

\* A step that leaves message m of plan p alone, its lock and its requests, and
\* what its record is told by.
Alike(p, m) ==
  /\ head'[p].action = head[p].action /\ head'[p].items = head[p].items
  /\ head'[p].running = head[p].running
  /\ head'[p].state = "approved" <=> head[p].state = "approved"
  /\ item'[p][m] = item[p][m] /\ hand'[p][m] = hand[p][m]
  /\ job[p].at = "items" => job'[p].at = "items"
  /\ job'[p].at \in {"check", "acknowledge"} /\ m \in job'[p].todo => m \in head[p].items /\ Doubtful(item[p][m])
  /\ \A way \in Ways, k \in 1 .. 2 :
       /\ <<p, m, way, k>> \in wire' <=> <<p, m, way, k>> \in wire
       /\ landed'[<<p, m, way, k>>] = landed[<<p, m, way, k>>]
  /\ lock'[m] = p <=> lock[m] = p

\* Such a step keeps what is said of it, but for claims.
LEMMA AlikeRows ==
  ASSUME NEW p \in Plans, NEW m \in Messages, Alike(p, m), Rows(p, m)
  PROVE  /\ ItemRight(p, m)' /\ CallRight(p, m)' /\ LockRight(p, m)'
         /\ claim' = claim => Rows(p, m)'
<1> USE DEF Alike, Rows
<1>1. ItemRight(p, m)'
  BY DEF ItemRight, Count, Restore, State, Way, Doubtful
<1>2. ASSUME NEW way \in Ways, NEW k \in 1 .. 2
      PROVE  StepRight(p, m, way, k)'
  <2>1. /\ <<p, m, way, k>> \in wire' <=> <<p, m, way, k>> \in wire
        /\ landed'[<<p, m, way, k>>] = landed[<<p, m, way, k>>]
    OBVIOUS
  <2>2. /\ head'[p].running = head[p].running /\ item'[p][m] = item[p][m] /\ hand'[p][m] = hand[p][m]
    OBVIOUS
  <2>3. StepRight(p, m, way, k)
    BY DEF CallRight
  <2> HIDE DEF Alike, Rows
  <2>4. QED
    BY <2>1, <2>2, <2>3 DEF StepRight, State, Way, Cursor
<1>3. LockRight(p, m)'
  BY DEF LockRight, Restore
<1>4. claim' = claim => ClaimRight(p, m)'
  <2>1. "apply" \in Ways /\ 1 \in 1 .. 2
    BY DEF Ways
  <2>2. QED
    BY <2>1 DEF ClaimRight, Restore
<1>5. QED
  BY <1>1, <1>2, <1>3, <1>4 DEF CallRight

\* A step that leaves them and the whole record of the plan alone.
Same(p, m) ==
  /\ head'[p] = head[p] /\ item'[p][m] = item[p][m] /\ hand'[p][m] = hand[p][m]
  /\ job'[p].at = job[p].at /\ job'[p].todo \subseteq job[p].todo
  /\ \A way \in Ways, k \in 1 .. 2 :
       /\ <<p, m, way, k>> \in wire' <=> <<p, m, way, k>> \in wire
       /\ landed'[<<p, m, way, k>>] = landed[<<p, m, way, k>>]
  /\ lock'[m] = p <=> lock[m] = p

\* Such a step keeps what is said of it.
LEMMA SameRows ==
  ASSUME NEW p \in Plans, NEW m \in Messages, Same(p, m), claim' = claim, Rows(p, m)
  PROVE  Rows(p, m)'
<1>1. job'[p].at \in {"check", "acknowledge"} /\ m \in job'[p].todo => m \in head[p].items /\ Doubtful(item[p][m])
  BY DEF Same, Rows, ItemRight
<1>2. Alike(p, m)
  BY <1>1 DEF Same, Alike
<1>3. QED
  BY <1>2, AlikeRows

\* ... and of its plan.
LEMMA SamePlan ==
  ASSUME NEW p \in Plans, head'[p] = head[p], job'[p].at = job[p].at, PlanRight(p)
  PROVE  PlanRight(p)'
BY DEF PlanRight, Restore

\* A step that keeps the record of one message, and leaves the others, keeps everything.
LEMMA OneKeeps ==
  ASSUME Inv, NEW p \in Plans, NEW m \in Messages, head' = head, claim' = claim,
         \A q \in Plans : job'[q].at = job[q].at,
         \A q \in Plans, n \in Messages : q # p \/ n # m => Same(q, n),
         Rows(p, m)', TypeOK'
  PROVE  Inv'
<1>1. ASSUME NEW q \in Plans PROVE PlanRight(q)'
  BY SamePlan DEF Inv
<1>2. ASSUME NEW q \in Plans, NEW n \in Messages PROVE Rows(q, n)'
  <2>1. CASE q = p /\ n = m
    BY <2>1
  <2>2. CASE q # p \/ n # m
    BY <2>2, SameRows DEF Inv
  <2>3. QED
    BY <2>1, <2>2
<1>3. IsFiniteSet(Approved)'
  BY DEF Inv, Approved
<1>4. QED
  BY <1>1, <1>2, <1>3 DEF Inv

\* The types of the record of a message.
LEMMA Typed ==
  ASSUME TypeOK, NEW p \in Plans, NEW m \in Messages
  PROVE  /\ item[p][m] \in Item /\ head[p] \in Head /\ job[p] \in Job /\ hand[p][m] \in Hand
         /\ item[p][m].done \in 0 .. 2 /\ item[p][m].undone \in 0 .. 2 /\ item[p][m].attempted \in BOOLEAN
         /\ lock[m] \in Plans \cup {Nobody} /\ Nobody \notin Plans /\ job[p].todo \subseteq Messages
BY TriageAssumption DEF TypeOK, Item, Job

\* The record of a message saved, with its lock.
LEMMA Saved ==
  ASSUME TypeOK, NEW p \in Plans, NEW m \in Messages, NEW x \in Item, NEW r, SaveItem(p, m, x, r)
  PROVE  /\ item' \in [Plans -> [Messages -> Item]] /\ item'[p][m] = x
         /\ \A q \in Plans, n \in Messages : q # p \/ n # m => item'[q][n] = item[q][n]
         /\ lock' \in [Messages -> Plans \cup {Nobody}]
         /\ \A n \in Messages : n # m => lock'[n] = lock[n]
         /\ lock'[m] = IF lock[m] = p /\ ~Unresolved(p, x, r) THEN Nobody ELSE lock[m]
<1>1. item' = [item EXCEPT ![p] = [item[p] EXCEPT ![m] = x]]
  BY DEF SaveItem, TypeOK
<1>2. /\ item' \in [Plans -> [Messages -> Item]] /\ item'[p][m] = x
      /\ \A q \in Plans, n \in Messages : q # p \/ n # m => item'[q][n] = item[q][n]
  BY <1>1 DEF TypeOK
<1>3. lock' = [n \in Messages |->
        IF n \in {m} /\ lock[n] = p /\ ~Unresolved(p, item'[p][n], r) THEN Nobody ELSE lock[n]]
  BY DEF SaveItem, Locks
<1>4. lock'[m] = IF lock[m] = p /\ ~Unresolved(p, item'[p][m], r) THEN Nobody ELSE lock[m]
  BY <1>3
<1>5. lock' \in [Messages -> Plans \cup {Nobody}] /\ \A n \in Messages : n # m => lock'[n] = lock[n]
  BY <1>3 DEF TypeOK
<1>6. QED
  BY <1>2, <1>4, <1>5

\* The lock of a message saved is its plan's while its change is unresolved.
LEMMA SavedLock ==
  ASSUME TypeOK, NEW p \in Plans, NEW m \in Messages, NEW x \in Item, NEW r, SaveItem(p, m, x, r)
  PROVE  /\ lock'[m] = p <=> lock[m] = p /\ Unresolved(p, x, r)
         /\ \A q \in Plans, n \in Messages : q # p \/ n # m => (lock'[n] = q <=> lock[n] = q)
BY Saved, Typed

\* A function that lets go of a message.
LEMMA LeavesIs ==
  ASSUME TypeOK, NEW p \in Plans, NEW m \in Messages, NEW y \in Item, Leaves(p, m, y), scenario' = scenario
  PROVE  /\ TypeOK' /\ item'[p][m] = y /\ hand'[p][m] = "idle"
         /\ head' = head /\ claim' = claim /\ job' = job /\ wire' = wire /\ landed' = landed
         /\ \A q \in Plans, n \in Messages : q # p \/ n # m => Same(q, n)
         /\ lock'[m] = p <=> lock[m] = p /\ Unresolved(p, y, head[p].running)
<1>1. SaveItem(p, m, y, head[p].running) /\ hand' = [hand EXCEPT ![p][m] = "idle"]
      /\ UNCHANGED <<head, claim, job, message, wire, landed, connected, held, closed, edits>>
  BY DEF Leaves, outside, flags
<1>2. /\ hand' \in [Plans -> [Messages -> Hand]] /\ hand'[p][m] = "idle"
      /\ \A q \in Plans, n \in Messages : q # p \/ n # m => hand'[q][n] = hand[q][n]
  BY <1>1 DEF TypeOK, Hand
<1>3. TypeOK'
  BY <1>1, <1>2, Saved DEF TypeOK
<1>4. ASSUME NEW q \in Plans, NEW n \in Messages, q # p \/ n # m PROVE Same(q, n)
  BY <1>1, <1>2, <1>4, Saved, SavedLock DEF Same
<1>5. QED
  BY <1>1, <1>2, <1>3, <1>4, Saved, SavedLock

-----------------------------------------------------------------------------
(* The function of a plan at one message.                                  *)

\* What the invariant says of a message.
LEMMA Known ==
  ASSUME Inv, NEW p \in Plans, NEW m \in Messages
  PROVE  /\ TypeOK /\ PlanRight(p) /\ ItemRight(p, m) /\ LockRight(p, m) /\ ClaimRight(p, m)
         /\ \A way \in Ways, k \in 1 .. 2 : StepRight(p, m, way, k)
BY DEF Inv, Rows, CallRight

\* A function has a message of an approved plan in hand.
LEMMA InHand ==
  ASSUME Inv, NEW p \in Plans, NEW m \in Messages, hand[p][m] # "idle"
  PROVE  /\ job[p].at = "items" /\ m \in head[p].items /\ head[p].state = "approved"
         /\ head[p].running \in {"apply", "undo", "continue"}
         /\ Way(p) = "undo" => ~Restore(p)
         /\ Way(p) \in Ways /\ (Way(p) = "undo" <=> head[p].running = "undo")
BY Known DEF ItemRight, PlanRight, Way, Ways

\* Steps are counted up to their number.
LEMMA Counts ==
  ASSUME NEW p \in Plans, NEW way \in Ways
  PROVE  Count(p, way) \in 1 .. 2
BY DEF Count

\* A step answered is counted, and the last one ends the change.
LEMMA AnsweredIs ==
  ASSUME Inv, NEW p \in Plans, NEW m \in Messages, Answered(p, m)
  PROVE  LET x == item[p][m]
             k == Cursor(x, Way(p)) + 1
             last == k = Count(p, Way(p)) IN
         \E y \in Item :
           /\ Leaves(p, m, y) /\ k \in 1 .. 2 /\ k <= Count(p, Way(p))
           /\ ~y.attempted /\ y.origin = x.origin
           /\ Way(p) = "undo" => /\ y.undone = k /\ y.undo = (IF last THEN "undone" ELSE "available")
                                 /\ y.done = x.done /\ y.state = x.state
           /\ Way(p) # "undo" => /\ y.done = k /\ y.state = (IF last THEN "applied" ELSE "applying")
                                 /\ y.undo = (IF Restore(p) THEN "unsupported" ELSE "available")
                                 /\ y.undone = x.undone
<1> DEFINE x == item[p][m]
           k == Cursor(x, Way(p)) + 1
           last == k = Count(p, Way(p))
           y == IF Way(p) = "undo"
                THEN [x EXCEPT !.attempted = FALSE, !.undone = k, !.undo = IF last THEN "undone" ELSE "available"]
                ELSE [x EXCEPT !.attempted = FALSE, !.done = k, !.state = IF last THEN "applied" ELSE "applying",
                               !.undo = IF Restore(p) THEN "unsupported" ELSE "available"]
<1>1. hand[p][m] = "done" /\ Leaves(p, m, y)
  BY DEF Answered
<1>2. x \in Item /\ x.done \in 0 .. 2 /\ x.undone \in 0 .. 2
  BY Typed, Known
<1>3. State(x, Way(p)) = "applying"
  BY <1>1, Known DEF ItemRight
<1>4. Cursor(x, Way(p)) < Count(p, Way(p))
  <2>1. CASE Way(p) = "undo"
    BY <1>3, <2>1, Known DEF ItemRight, State, Cursor
  <2>2. CASE Way(p) # "undo"
    BY <1>3, <2>2, Known DEF ItemRight, State, Cursor, Way
  <2>3. QED
    BY <2>1, <2>2
<1>5. k \in 1 .. 2 /\ k <= Count(p, Way(p))
  <2>1. Count(p, Way(p)) \in 1 .. 2
    BY Counts DEF Way, Ways
  <2>2. Cursor(x, Way(p)) \in 0 .. 2
    BY <1>2 DEF Cursor
  <2>3. QED
    BY <1>4, <2>1, <2>2
<1>6. y \in Item
  <2>1. k \in 0 .. 2
    BY <1>5
  <2> HIDE DEF k, last
  <2>2. CASE Way(p) = "undo"
    <3>1. y = [x EXCEPT !.attempted = FALSE, !.undone = k, !.undo = IF last THEN "undone" ELSE "available"]
      BY <2>2
    <3>2. QED
      BY <1>2, <2>1, <3>1 DEF Item
  <2>3. CASE Way(p) # "undo"
    <3>1. y = [x EXCEPT !.attempted = FALSE, !.done = k, !.state = IF last THEN "applied" ELSE "applying",
                               !.undo = IF Restore(p) THEN "unsupported" ELSE "available"]
      BY <2>3
    <3>2. QED
      BY <1>2, <2>1, <3>1 DEF Item
  <2>4. QED
    BY <2>2, <2>3
<1>7. /\ ~y.attempted /\ y.origin = x.origin
      /\ Way(p) = "undo" => /\ y.undone = k /\ y.undo = (IF last THEN "undone" ELSE "available")
                            /\ y.done = x.done /\ y.state = x.state
      /\ Way(p) # "undo" => /\ y.done = k /\ y.state = (IF last THEN "applied" ELSE "applying")
                            /\ y.undo = (IF Restore(p) THEN "unsupported" ELSE "available")
                            /\ y.undone = x.undone
  <2> HIDE DEF k, last
  <2>1. QED
    BY <1>2 DEF Item
<1> HIDE DEF y
<1>8. QED
  BY <1>1, <1>5, <1>6, <1>7

\* An answer keeps the invariant: the step counted did land.
LEMMA AnsweredInv ==
  ASSUME Inv, NEW p \in Plans, NEW m \in Messages, Answered(p, m), scenario' = scenario
  PROVE  Inv'
<1> DEFINE x == item[p][m]
           c == Cursor(x, Way(p))
           last == c + 1 = Count(p, Way(p))
<1>1. PICK y \in Item :
        /\ Leaves(p, m, y) /\ c + 1 \in 1 .. 2 /\ c + 1 <= Count(p, Way(p))
        /\ ~y.attempted /\ y.origin = x.origin
        /\ Way(p) = "undo" => /\ y.undone = c + 1 /\ y.undo = (IF last THEN "undone" ELSE "available")
                              /\ y.done = x.done /\ y.state = x.state
        /\ Way(p) # "undo" => /\ y.done = c + 1 /\ y.state = (IF last THEN "applied" ELSE "applying")
                              /\ y.undo = (IF Restore(p) THEN "unsupported" ELSE "available")
                              /\ y.undone = x.undone
  BY AnsweredIs
<1>2. hand[p][m] = "done"
  BY DEF Answered
<1>3. /\ job[p].at = "items" /\ m \in head[p].items /\ head[p].state = "approved"
      /\ Way(p) = "undo" => ~Restore(p)
      /\ Way(p) \in Ways /\ (Way(p) = "undo" <=> head[p].running = "undo")
      /\ head[p].running # "none"
  BY <1>2, InHand
<1>4. /\ TypeOK' /\ item'[p][m] = y /\ hand'[p][m] = "idle"
      /\ head' = head /\ claim' = claim /\ job' = job /\ wire' = wire /\ landed' = landed
      /\ \A q \in Plans, n \in Messages : q # p \/ n # m => Same(q, n)
      /\ lock'[m] = p <=> lock[m] = p /\ Unresolved(p, y, head[p].running)
  BY <1>1, Known, LeavesIs
<1>5. ItemRight(p, m) /\ LockRight(p, m) /\ ClaimRight(p, m) /\ x \in Item
      /\ x.done \in 0 .. 2 /\ x.undone \in 0 .. 2
  BY Known, Typed
<1>6. State(x, Way(p)) = "applying"
  BY <1>2, <1>5 DEF ItemRight
<1>7. ItemRight(p, m)'
  <2>1. CASE Way(p) = "undo"
    <3>1. x.undo = "applying" /\ x.state = "applied" /\ ~Restore(p)
      BY <1>3, <1>5, <1>6, <2>1 DEF ItemRight, State
    <3>2. QED
      BY <1>1, <1>3, <1>4, <1>5, <2>1, <3>1 DEF ItemRight, State, Cursor, Way, Restore, Count, Doubtful
  <2>2. CASE Way(p) # "undo"
    <3>1. x.state = "applying" /\ x.undo = "unsupported" /\ x.undone = 0 /\ Way(p) = "apply"
      BY <1>3, <1>5, <1>6, <2>2 DEF ItemRight, State, Way
    <3>2. QED
      BY <1>1, <1>3, <1>4, <1>5, <2>2, <3>1 DEF ItemRight, State, Cursor, Way, Restore, Count, Doubtful
  <2>3. QED
    BY <2>1, <2>2
<1>8. ASSUME NEW way \in Ways, NEW k \in 1 .. 2 PROVE StepRight(p, m, way, k)'
  <2>1. StepRight(p, m, way, k)
    BY Known
  <2>2. CASE way = Way(p)
    <3>1. Cursor(y, way) = c + 1
      BY <1>1, <2>2 DEF Cursor, Way
    <3>2. k = c + 1 => landed[<<p, m, way, k>>] = 1 /\ <<p, m, way, k>> \notin wire
      BY <1>2, <1>6, <2>1, <2>2 DEF StepRight
    <3>3. <<p, m, way, k>> \notin wire
      BY <1>2, <1>6, <2>1, <2>2 DEF StepRight
    <3>4. /\ k <= c => landed[<<p, m, way, k>>] = 1
          /\ k > c + 1 => landed[<<p, m, way, k>>] = 0
      BY <2>1, <2>2 DEF StepRight
    <3>5. c \in Nat
      BY <1>5 DEF Cursor
    <3> HIDE DEF c
    <3>6. QED
      BY <1>4, <3>1, <3>2, <3>3, <3>4, <3>5 DEF StepRight
  <2>3. CASE way # Way(p)
    <3>1. Cursor(y, way) = Cursor(x, way) /\ (State(y, way) = State(x, way) \/ State(x, way) = "unsupported")
      BY <1>1, <1>3, <1>5, <1>6, <2>3 DEF Cursor, State, Way, Ways, ItemRight
    <3>2. QED
      BY <1>2, <1>4, <2>1, <2>3, <3>1 DEF StepRight, Way
  <2>4. QED
    BY <2>2, <2>3
<1>9. lock[m] = p
  BY <1>3, <1>5, <1>6 DEF LockRight, State
<1>10. LockRight(p, m)'
  BY <1>1, <1>3, <1>4, <1>5, <1>9 DEF LockRight, Unresolved, Restore
<1>11. ClaimRight(p, m)'
  BY <1>1, <1>4, <1>5 DEF ClaimRight, Restore
<1>12. QED
  BY <1>4, <1>7, <1>8, <1>10, <1>11, OneKeeps DEF Rows, CallRight

\* A step that is not made leaves no trace but the failure.
LEMMA FailsIs ==
  ASSUME Inv, NEW p \in Plans, NEW m \in Messages, ItemFails(p, m)
  PROVE  LET x == item[p][m] IN
         /\ job[p].at = "items" /\ m \in head[p].items /\ head[p].state = "approved"
         /\ Way(p) = "undo" => ~Restore(p)
         /\ head[p].running # "none" /\ (Way(p) = "undo" <=> head[p].running = "undo")
         /\ hand[p][m] \in {"idle", "ready", "denied"}
         /\ State(x, Way(p)) \in {"pending", "applying", "available"}
         /\ \E y \in Item :
              /\ Leaves(p, m, y)
              /\ ~y.attempted /\ y.origin = x.origin /\ y.done = x.done /\ y.undone = x.undone
              /\ Way(p) = "undo" => y.undo = "failed" /\ y.state = x.state
              /\ Way(p) # "undo" => y.state = "failed" /\ y.undo = x.undo
<1> DEFINE x == item[p][m]
           y == IF Way(p) = "undo" THEN [x EXCEPT !.attempted = FALSE, !.undo = "failed"]
                ELSE [x EXCEPT !.attempted = FALSE, !.state = "failed"]
<1>1. Leaves(p, m, y) /\ (Ahead(p, m) \/ hand[p][m] \in {"ready", "denied"})
  BY DEF ItemFails
<1>2. x \in Item
  BY Typed, Known
<1>6. /\ y \in Item
      /\ ~y.attempted /\ y.origin = x.origin /\ y.done = x.done /\ y.undone = x.undone
      /\ Way(p) = "undo" => y.undo = "failed" /\ y.state = x.state
      /\ Way(p) # "undo" => y.state = "failed" /\ y.undo = x.undo
  BY <1>2 DEF Item
<1> HIDE DEF y
<1>3. CASE Ahead(p, m)
  <2>1. State(x, Way(p)) \in {"pending", "applying", "available"}
    BY <1>3 DEF Ahead, State
  <2>2. job[p].at = "items" /\ m \in head[p].items /\ hand[p][m] = "idle"
    BY <1>3 DEF Ahead
  <2>3. /\ head[p].state = "approved" /\ head[p].running \in {"apply", "undo", "continue"}
        /\ Restore(p) => head[p].running # "undo"
    BY <2>2, Known DEF PlanRight
  <2>4. QED
    BY <1>1, <1>6, <2>1, <2>2, <2>3 DEF Way
<1>4. CASE hand[p][m] \in {"ready", "denied"}
  <2>1. State(x, Way(p)) \in {"pending", "applying", "available"}
    BY <1>4, Known DEF ItemRight
  <2>2. QED
    BY <1>1, <1>4, <1>6, <2>1, InHand
<1>5. QED
  BY <1>1, <1>3, <1>4

\* A failed step keeps it: nothing of the step landed, or will.
LEMMA FailsInv ==
  ASSUME Inv, NEW p \in Plans, NEW m \in Messages, ItemFails(p, m), scenario' = scenario
  PROVE  Inv'
<1> DEFINE x == item[p][m]
<1>1. PICK y \in Item :
        /\ Leaves(p, m, y)
        /\ ~y.attempted /\ y.origin = x.origin /\ y.done = x.done /\ y.undone = x.undone
        /\ Way(p) = "undo" => y.undo = "failed" /\ y.state = x.state
        /\ Way(p) # "undo" => y.state = "failed" /\ y.undo = x.undo
  BY FailsIs
<1>3. /\ job[p].at = "items" /\ m \in head[p].items /\ head[p].state = "approved"
      /\ Way(p) = "undo" => ~Restore(p)
      /\ head[p].running # "none" /\ (Way(p) = "undo" <=> head[p].running = "undo")
      /\ hand[p][m] \in {"idle", "ready", "denied"}
      /\ State(x, Way(p)) \in {"pending", "applying", "available"}
  BY FailsIs
<1>4. /\ TypeOK' /\ item'[p][m] = y /\ hand'[p][m] = "idle"
      /\ head' = head /\ claim' = claim /\ job' = job /\ wire' = wire /\ landed' = landed
      /\ \A q \in Plans, n \in Messages : q # p \/ n # m => Same(q, n)
      /\ lock'[m] = p <=> lock[m] = p /\ Unresolved(p, y, head[p].running)
  BY <1>1, Known, LeavesIs
<1>5. ItemRight(p, m) /\ LockRight(p, m) /\ ClaimRight(p, m) /\ x \in Item
      /\ x.done \in 0 .. 2 /\ x.undone \in 0 .. 2
  BY Known, Typed
<1>6. /\ Way(p) = "undo" => x.undo \in {"available", "applying"} /\ x.state = "applied"
      /\ Way(p) # "undo" => x.state \in {"pending", "applying"} /\ x.undo = "unsupported" /\ x.undone = 0 /\ Way(p) = "apply"
  BY <1>3, <1>5 DEF ItemRight, State, Way, Item
<1>7. ItemRight(p, m)'
  <2>1. CASE Way(p) = "undo"
    BY <1>1, <1>3, <1>4, <1>5, <1>6, <2>1 DEF ItemRight, State, Way, Restore, Count, Doubtful
  <2>2. CASE Way(p) # "undo"
    BY <1>1, <1>3, <1>4, <1>5, <1>6, <2>2 DEF ItemRight, State, Way, Restore, Count, Doubtful
  <2>3. QED
    BY <2>1, <2>2
<1>8. ASSUME NEW way \in Ways, NEW k \in 1 .. 2 PROVE StepRight(p, m, way, k)'
  <2>1. StepRight(p, m, way, k)
    BY Known
  <2>2. Cursor(y, way) = Cursor(x, way)
    BY <1>1 DEF Cursor
  <2>3. CASE way = Way(p)
    <3>1. State(x, way) \notin {"uncertain", "observed"}
      BY <1>3, <2>3
    <3>2. QED
      BY <1>3, <1>4, <2>1, <2>2, <3>1 DEF StepRight
  <2>4. CASE way # Way(p)
    <3>1. State(y, way) = State(x, way)
      BY <1>1, <2>4 DEF State, Way, Ways
    <3>2. QED
      BY <1>3, <1>4, <2>1, <2>2, <2>4, <3>1 DEF StepRight, Way
  <2>5. QED
    BY <2>3, <2>4
<1>10. LockRight(p, m)'
  <2>1. Way(p) # "undo" => lock[m] = p
    BY <1>3, <1>5, <1>6 DEF LockRight
  <2>2. QED
    BY <1>1, <1>3, <1>4, <1>5, <1>6, <2>1 DEF LockRight, Unresolved, Restore
<1>11. ClaimRight(p, m)'
  BY <1>1, <1>4, <1>5 DEF ClaimRight, Restore
<1>12. QED
  BY <1>4, <1>7, <1>8, <1>10, <1>11, OneKeeps DEF Rows, CallRight

\* A step without an answer is in doubt.
LEMMA UnclearIs ==
  ASSUME Inv, NEW p \in Plans, NEW m \in Messages, ItemUnclear(p, m)
  PROVE  LET x == item[p][m] IN
         /\ hand[p][m] \in {"waiting", "done"} /\ State(x, Way(p)) = "applying"
         /\ \E y \in Item :
              /\ Leaves(p, m, y)
              /\ y.attempted = x.attempted /\ y.origin = x.origin /\ y.done = x.done /\ y.undone = x.undone
              /\ Way(p) = "undo" => y.undo = "uncertain" /\ y.state = x.state
              /\ Way(p) # "undo" => y.state = "uncertain" /\ y.undo = x.undo
<1> DEFINE x == item[p][m]
           y == IF Way(p) = "undo" THEN [x EXCEPT !.undo = "uncertain"] ELSE [x EXCEPT !.state = "uncertain"]
<1>1. Leaves(p, m, y) /\ hand[p][m] \in {"waiting", "done"}
  BY DEF ItemUnclear
<1>2. x \in Item
  BY Typed, Known
<1>3. State(x, Way(p)) = "applying"
  BY <1>1, Known DEF ItemRight
<1>4. QED
  BY <1>1, <1>2, <1>3 DEF Item

\* A step in doubt keeps it: its request may still be under way.
LEMMA UnclearInv ==
  ASSUME Inv, NEW p \in Plans, NEW m \in Messages, ItemUnclear(p, m), scenario' = scenario
  PROVE  Inv'
<1> DEFINE x == item[p][m]
<1>1. PICK y \in Item :
        /\ Leaves(p, m, y)
        /\ y.attempted = x.attempted /\ y.origin = x.origin /\ y.done = x.done /\ y.undone = x.undone
        /\ Way(p) = "undo" => y.undo = "uncertain" /\ y.state = x.state
        /\ Way(p) # "undo" => y.state = "uncertain" /\ y.undo = x.undo
  BY UnclearIs
<1>2. hand[p][m] \in {"waiting", "done"} /\ State(x, Way(p)) = "applying"
  BY UnclearIs
<1>3. /\ job[p].at = "items" /\ m \in head[p].items /\ head[p].state = "approved"
      /\ Way(p) = "undo" => ~Restore(p)
      /\ Way(p) = "undo" <=> head[p].running = "undo"
  BY <1>2, InHand
<1>4. /\ TypeOK' /\ item'[p][m] = y /\ hand'[p][m] = "idle"
      /\ head' = head /\ claim' = claim /\ job' = job /\ wire' = wire /\ landed' = landed
      /\ \A q \in Plans, n \in Messages : q # p \/ n # m => Same(q, n)
      /\ lock'[m] = p <=> lock[m] = p /\ Unresolved(p, y, head[p].running)
  BY <1>1, Known, LeavesIs
<1>5. ItemRight(p, m) /\ LockRight(p, m) /\ ClaimRight(p, m) /\ x \in Item
      /\ x.done \in 0 .. 2 /\ x.undone \in 0 .. 2
  BY Known, Typed
<1>6. /\ Way(p) = "undo" => x.undo = "applying" /\ x.state = "applied"
      /\ Way(p) # "undo" => x.state = "applying" /\ x.undo = "unsupported" /\ x.undone = 0 /\ Way(p) = "apply"
  BY <1>2, <1>5 DEF ItemRight, State, Way, Item
<1>7. ItemRight(p, m)'
  <2>1. CASE Way(p) = "undo"
    BY <1>1, <1>2, <1>3, <1>4, <1>5, <1>6, <2>1 DEF ItemRight, State, Way, Restore, Count, Doubtful
  <2>2. CASE Way(p) # "undo"
    BY <1>1, <1>2, <1>3, <1>4, <1>5, <1>6, <2>2 DEF ItemRight, State, Way, Restore, Count, Doubtful
  <2>3. QED
    BY <2>1, <2>2
<1>8. ASSUME NEW way \in Ways, NEW k \in 1 .. 2 PROVE StepRight(p, m, way, k)'
  <2>1. StepRight(p, m, way, k)
    BY Known
  <2>2. Cursor(y, way) = Cursor(x, way)
    BY <1>1 DEF Cursor
  <2>3. CASE way = Way(p)
    <3>1. State(y, way) = "uncertain"
      BY <1>1, <2>3 DEF State, Way
    <3>2. QED
      BY <1>4, <2>1, <2>2, <3>1 DEF StepRight
  <2>4. CASE way # Way(p)
    <3>1. State(y, way) = State(x, way)
      BY <1>1, <2>4 DEF State, Way, Ways
    <3>2. QED
      BY <1>4, <2>1, <2>2, <2>4, <3>1 DEF StepRight, Way
  <2>5. QED
    BY <2>3, <2>4
<1>10. LockRight(p, m)'
  <2>1. lock[m] = p
    BY <1>3, <1>5, <1>6 DEF LockRight
  <2>2. QED
    BY <1>1, <1>3, <1>4, <1>5, <2>1 DEF LockRight, Unresolved, Restore
<1>11. ClaimRight(p, m)'
  BY <1>1, <1>4, <1>5 DEF ClaimRight, Restore
<1>12. QED
  BY <1>4, <1>7, <1>8, <1>10, <1>11, OneKeeps DEF Rows, CallRight

\* A message is taken out of doubt by what is seen or accepted.
LEMMA ObservedIs ==
  ASSUME Inv, NEW p \in Plans, NEW m \in Messages, Observed(p, m), scenario' = scenario
  PROVE  LET x == item[p][m] IN
         /\ job[p].at \in {"check", "acknowledge"} /\ m \in job[p].todo /\ m \in head[p].items
         /\ head[p].state = "approved" /\ hand[p][m] = "idle" /\ Doubtful(x)
         /\ TypeOK' /\ head' = head /\ claim' = claim /\ hand' = hand /\ wire' = wire /\ landed' = landed
         /\ \A q \in Plans : job'[q].at = job[q].at /\ job'[q].todo \subseteq job[q].todo
         /\ m \notin job'[p].todo
         /\ \A q \in Plans, n \in Messages : q # p \/ n # m => Same(q, n)
         /\ lock'[m] = p => lock[m] = p
         /\ \E y \in Item :
              /\ item'[p][m] = y
              /\ ~y.attempted /\ y.origin = x.origin /\ y.done = x.done /\ y.undone = x.undone
              /\ x.undo = "uncertain" => y.undo = "observed" /\ y.state = x.state
              /\ x.undo # "uncertain" => y.state = "observed" /\ y.undo = x.undo
<1> DEFINE x == item[p][m]
           r == IF job[p].at = "check" THEN "none" ELSE head[p].running
           y == IF x.undo = "uncertain" THEN [x EXCEPT !.undo = "observed", !.attempted = FALSE]
                ELSE [x EXCEPT !.state = "observed", !.attempted = FALSE]
<1>1. /\ job[p].at \in {"check", "acknowledge"} /\ m \in job[p].todo /\ SaveItem(p, m, y, r)
      /\ job' = [job EXCEPT ![p].todo = @ \ {m}]
      /\ UNCHANGED <<head, claim, hand, message, wire, landed, connected, held, closed, edits>>
  BY DEF Observed, outside, flags
<1>2. x \in Item /\ job[p] \in Job /\ TypeOK
  BY Typed, Known
<1>3. /\ y \in Item
      /\ ~y.attempted /\ y.origin = x.origin /\ y.done = x.done /\ y.undone = x.undone
      /\ x.undo = "uncertain" => y.undo = "observed" /\ y.state = x.state
      /\ x.undo # "uncertain" => y.state = "observed" /\ y.undo = x.undo
  BY <1>2 DEF Item
<1> HIDE DEF y, r
<1>4. m \in head[p].items /\ Doubtful(x) /\ hand[p][m] = "idle"
  BY <1>1, Known DEF ItemRight
<1>5. head[p].state = "approved"
  BY <1>1, Known DEF PlanRight
<1>6. /\ job' \in [Plans -> Job] /\ job'[p].at = job[p].at /\ job'[p].todo = job[p].todo \ {m}
      /\ \A q \in Plans : q # p => job'[q] = job[q]
  BY <1>1, <1>2 DEF TypeOK, Job
<1>7. TypeOK'
  BY <1>1, <1>2, <1>3, <1>6, Saved DEF TypeOK
<1>8. ASSUME NEW q \in Plans, NEW n \in Messages, q # p \/ n # m PROVE Same(q, n)
  <2>1. item'[q][n] = item[q][n] /\ (lock'[n] = q <=> lock[n] = q)
    BY <1>1, <1>2, <1>3, <1>8, Saved, SavedLock
  <2>2. job'[q].at = job[q].at /\ job'[q].todo \subseteq job[q].todo
    BY <1>6
  <2>3. QED
    BY <1>1, <2>1, <2>2 DEF Same
<1>9. item'[p][m] = y /\ (lock'[m] = p => lock[m] = p)
  BY <1>1, <1>2, <1>3, Saved, SavedLock
<1>10. \A q \in Plans : job'[q].at = job[q].at /\ job'[q].todo \subseteq job[q].todo
  BY <1>6
<1>11. QED
  BY <1>1, <1>3, <1>4, <1>5, <1>6, <1>7, <1>8, <1>9, <1>10

\* An observation keeps it: what is no longer in doubt is not asked for again.
LEMMA ObservedInv ==
  ASSUME Inv, NEW p \in Plans, NEW m \in Messages, Observed(p, m), scenario' = scenario
  PROVE  Inv'
<1> DEFINE x == item[p][m]
<1>1. /\ job[p].at \in {"check", "acknowledge"} /\ m \in job[p].todo /\ m \in head[p].items
      /\ head[p].state = "approved" /\ hand[p][m] = "idle" /\ Doubtful(x)
      /\ TypeOK' /\ head' = head /\ claim' = claim /\ hand' = hand /\ wire' = wire /\ landed' = landed
      /\ \A q \in Plans : job'[q].at = job[q].at /\ job'[q].todo \subseteq job[q].todo
      /\ m \notin job'[p].todo
      /\ \A q \in Plans, n \in Messages : q # p \/ n # m => Same(q, n)
      /\ lock'[m] = p => lock[m] = p
  BY ObservedIs
<1>2. PICK y \in Item :
        /\ item'[p][m] = y
        /\ ~y.attempted /\ y.origin = x.origin /\ y.done = x.done /\ y.undone = x.undone
        /\ x.undo = "uncertain" => y.undo = "observed" /\ y.state = x.state
        /\ x.undo # "uncertain" => y.state = "observed" /\ y.undo = x.undo
  BY ObservedIs
<1>3. ItemRight(p, m) /\ LockRight(p, m) /\ ClaimRight(p, m) /\ x \in Item
      /\ x.done \in 0 .. 2 /\ x.undone \in 0 .. 2
  BY Known, Typed
<1>4. \/ x.undo = "uncertain" /\ x.state = "applied" /\ ~Restore(p)
      \/ x.undo = "unsupported" /\ x.state = "uncertain"
  BY <1>1, <1>3 DEF ItemRight, Doubtful
<1>5. ItemRight(p, m)'
  <2>1. CASE x.undo = "uncertain"
    BY <1>1, <1>2, <1>3, <1>4, <2>1 DEF ItemRight, State, Way, Restore, Count, Doubtful
  <2>2. CASE x.undo # "uncertain"
    BY <1>1, <1>2, <1>3, <1>4, <2>2 DEF ItemRight, State, Way, Restore, Count, Doubtful
  <2>3. QED
    BY <2>1, <2>2
<1>6. ASSUME NEW way \in Ways, NEW k \in 1 .. 2 PROVE StepRight(p, m, way, k)'
  <2>1. StepRight(p, m, way, k)
    BY Known
  <2>2. Cursor(y, way) = Cursor(x, way)
    BY <1>2 DEF Cursor
  <2>3. State(y, way) = State(x, way) \/ State(y, way) = "observed"
    BY <1>2 DEF State
  <2>4. State(x, way) = "uncertain" => State(y, way) = "observed" \/ State(y, way) = "uncertain"
    BY <2>3
  <2>5. State(x, way) \in {"uncertain", "observed"} => State(y, way) \in {"uncertain", "observed"}
    BY <2>3
  <2>6. QED
    BY <1>1, <1>2, <2>1, <2>2, <2>5 DEF StepRight
<1>7. LockRight(p, m)'
  <2>1. y.state # "uncertain" /\ y.undo # "uncertain" /\ y.state \in {"applied", "observed"}
        /\ y.undo \in {"observed", "unsupported"}
    BY <1>2, <1>4
  <2>2. QED
    BY <1>1, <1>2, <1>3, <2>1 DEF LockRight, Restore
<1>8. ClaimRight(p, m)'
  BY <1>1, <1>2, <1>3 DEF ClaimRight, Restore
<1>9. QED
  BY <1>1, <1>5, <1>6, <1>7, <1>8, OneKeeps DEF Rows, CallRight

\* A step that leaves every message alone keeps everything.
LEMMA AllKeep ==
  ASSUME Inv, head' = head, claim' = claim, \A q \in Plans : job'[q].at = job[q].at,
         \A q \in Plans, n \in Messages : Same(q, n), TypeOK'
  PROVE  Inv'
<1>1. ASSUME NEW q \in Plans PROVE PlanRight(q)'
  BY SamePlan DEF Inv
<1>2. ASSUME NEW q \in Plans, NEW n \in Messages PROVE Rows(q, n)'
  BY SameRows DEF Inv
<1>3. IsFiniteSet(Approved)'
  BY DEF Inv, Approved
<1>4. QED
  BY <1>1, <1>2, <1>3 DEF Inv

\* A check that shows nothing keeps it.
LEMMA NotObservedInv ==
  ASSUME Inv, NEW p \in Plans, NEW m \in Messages, NotObserved(p, m), scenario' = scenario
  PROVE  Inv'
<1>1. /\ job' = [job EXCEPT ![p].todo = @ \ {m}]
      /\ UNCHANGED <<head, item, lock, claim, hand, message, wire, landed, connected, held, closed, edits>>
  BY DEF NotObserved, durable, outside, flags
<1>2. TypeOK /\ job[p] \in Job
  BY Typed, Known
<1>3. /\ job' \in [Plans -> Job]
      /\ \A q \in Plans : job'[q].at = job[q].at /\ job'[q].todo \subseteq job[q].todo
  BY <1>1, <1>2 DEF TypeOK, Job
<1>4. TypeOK'
  BY <1>1, <1>2, <1>3 DEF TypeOK
<1>5. ASSUME NEW q \in Plans, NEW n \in Messages PROVE Same(q, n)
  BY <1>1, <1>3 DEF Same
<1>6. QED
  BY <1>1, <1>3, <1>4, <1>5, AllKeep

\* A message read before its step keeps it.
LEMMA ReadMessageInv ==
  ASSUME Inv, NEW p \in Plans, NEW m \in Messages, ReadMessage(p, m), scenario' = scenario
  PROVE  Inv'
<1> DEFINE x == item[p][m]
<1>1. /\ Ahead(p, m) /\ hand' = [hand EXCEPT ![p][m] = "ready"]
      /\ UNCHANGED <<head, item, lock, claim, job, message, wire, landed, connected, held, closed, edits>>
  BY DEF ReadMessage, durable, outside, flags
<1>2. /\ TypeOK /\ ItemRight(p, m) /\ LockRight(p, m) /\ ClaimRight(p, m) /\ PlanRight(p)
  BY Known
<1>3. /\ hand' \in [Plans -> [Messages -> Hand]] /\ hand'[p][m] = "ready"
      /\ \A q \in Plans, n \in Messages : q # p \/ n # m => hand'[q][n] = hand[q][n]
  BY <1>1, <1>2 DEF TypeOK, Hand
<1>4. TypeOK'
  BY <1>1, <1>2, <1>3 DEF TypeOK
<1>5. ASSUME NEW q \in Plans, NEW n \in Messages, q # p \/ n # m PROVE Same(q, n)
  BY <1>1, <1>3, <1>5 DEF Same
<1>6. /\ job[p].at = "items" /\ hand[p][m] = "idle" /\ m \in head[p].items
      /\ State(x, Way(p)) \in {"pending", "applying", "available"}
      /\ State(x, Way(p)) = "applying" => ~x.attempted
      /\ Way(p) = "undo" => State(x, Way(p)) = "available"
  BY <1>1 DEF Ahead, State
<1>7. ~x.attempted
  BY <1>2, <1>6 DEF ItemRight, Doubtful, State
<1>8. ItemRight(p, m)'
  BY <1>1, <1>2, <1>3, <1>6, <1>7 DEF ItemRight, State, Way, Restore, Count, Doubtful
<1>9. ASSUME NEW way \in Ways, NEW k \in 1 .. 2 PROVE StepRight(p, m, way, k)'
  <2>1. StepRight(p, m, way, k)
    BY Known
  <2>2. QED
    BY <1>1, <1>3, <1>6, <2>1 DEF StepRight, Way, State, Cursor
<1>10. LockRight(p, m)' /\ ClaimRight(p, m)'
  BY <1>1, <1>2 DEF LockRight, ClaimRight, Restore
<1>11. QED
  BY <1>1, <1>4, <1>5, <1>8, <1>9, <1>10, OneKeeps DEF Rows, CallRight

-----------------------------------------------------------------------------
(* Requests.                                                               *)

\* The request of a message's next step.
LEMMA DispatchIs ==
  ASSUME Inv, NEW p \in Plans, NEW m \in Messages, Dispatch(p, m), scenario' = scenario
  PROVE  LET x == item[p][m]
             s == <<p, m, Way(p), Cursor(x, Way(p)) + 1>> IN
         /\ hand[p][m] = "ready" /\ ~x.attempted /\ State(x, Way(p)) \in {"pending", "applying", "available"}
         /\ job[p].at = "items" /\ m \in head[p].items /\ head[p].state = "approved"
         /\ Way(p) \in Ways /\ Cursor(x, Way(p)) + 1 \in 1 .. 2 /\ Cursor(x, Way(p)) + 1 <= Count(p, Way(p))
         /\ head[p].running # "none"
         /\ lock[m] = p /\ ~closed /\ ~held /\ connected
         /\ Restore(p) => RestoreSource(p, m)
         /\ TypeOK' /\ head' = head /\ claim' = claim /\ job' = job /\ landed' = landed
         /\ wire' = wire \cup {s} /\ hand'[p][m] = "waiting"
         /\ \A q \in Plans, n \in Messages : q # p \/ n # m => Same(q, n)
         /\ lock'[m] = p
         /\ \E y \in Item :
              /\ item'[p][m] = y
              /\ y.attempted /\ y.origin = x.origin /\ y.done = x.done /\ y.undone = x.undone
              /\ Way(p) = "undo" => y.undo = "applying" /\ y.state = x.state
              /\ Way(p) # "undo" => y.state = "applying" /\ y.undo = x.undo
<1> DEFINE x == item[p][m]
           c == Cursor(x, Way(p))
           s == <<p, m, Way(p), c + 1>>
           y == IF Way(p) = "undo" THEN [x EXCEPT !.undo = "applying", !.attempted = TRUE]
                ELSE [x EXCEPT !.state = "applying", !.attempted = TRUE]
<1>1. /\ hand[p][m] = "ready" /\ ~closed /\ ~held /\ connected /\ (Restore(p) => RestoreSource(p, m))
      /\ SaveItem(p, m, y, head[p].running) /\ wire' = wire \cup {s}
      /\ hand' = [hand EXCEPT ![p][m] = "waiting"]
      /\ UNCHANGED <<head, claim, job, message, landed, connected, held, closed, edits>>
  BY DEF Dispatch, flags
<1>2. /\ x \in Item /\ TypeOK /\ x.done \in 0 .. 2 /\ x.undone \in 0 .. 2
      /\ ItemRight(p, m) /\ LockRight(p, m)
  BY Typed, Known
<1>3. /\ job[p].at = "items" /\ m \in head[p].items /\ head[p].state = "approved"
      /\ head[p].running # "none" /\ Way(p) \in Ways /\ (Way(p) = "undo" <=> head[p].running = "undo")
  BY <1>1, InHand
<1>4. ~x.attempted /\ State(x, Way(p)) \in {"pending", "applying", "available"}
  BY <1>1, <1>2 DEF ItemRight
<1>5. c < Count(p, Way(p)) /\ lock[m] = p
  <2>1. CASE Way(p) = "undo"
    <3>1. x.undo = "available" \/ x.undo = "applying"
      BY <1>2, <1>4, <2>1 DEF State, Item
    <3>2. x.undone < Count(p, "undo") /\ lock[m] = p
      BY <1>2, <1>3, <2>1, <3>1 DEF ItemRight, LockRight
    <3>3. QED
      BY <2>1, <3>2 DEF Cursor
  <2>2. CASE Way(p) # "undo"
    <3>1. x.state = "pending" \/ x.state = "applying"
      BY <1>2, <1>4, <2>2 DEF State, Item
    <3>2. x.done < Count(p, "apply") /\ lock[m] = p
      BY <1>2, <1>3, <3>1 DEF ItemRight, LockRight
    <3>3. QED
      BY <1>3, <2>2, <3>2 DEF Cursor, Way
  <2>3. QED
    BY <2>1, <2>2
<1>6. c + 1 \in 1 .. 2 /\ c + 1 <= Count(p, Way(p))
  <2>1. c \in 0 .. 2
    BY <1>2 DEF Cursor
  <2>2. Count(p, Way(p)) \in 1 .. 2
    BY <1>3, Counts
  <2>3. QED
    BY <1>5, <2>1, <2>2
<1>7. /\ y \in Item /\ y.attempted /\ y.origin = x.origin /\ y.done = x.done /\ y.undone = x.undone
      /\ Way(p) = "undo" => y.undo = "applying" /\ y.state = x.state
      /\ Way(p) # "undo" => y.state = "applying" /\ y.undo = x.undo
  BY <1>2 DEF Item
<1> HIDE DEF y
<1>8. /\ hand' \in [Plans -> [Messages -> Hand]] /\ hand'[p][m] = "waiting"
      /\ \A q \in Plans, n \in Messages : q # p \/ n # m => hand'[q][n] = hand[q][n]
  BY <1>1, <1>2 DEF TypeOK, Hand
<1>9. s \in Steps
  BY <1>3, <1>6 DEF Steps
<1> HIDE DEF c
<1>10. TypeOK'
  BY <1>1, <1>2, <1>7, <1>8, <1>9, Saved DEF TypeOK
<1>11. ASSUME NEW q \in Plans, NEW n \in Messages, q # p \/ n # m PROVE Same(q, n)
  <2>1. item'[q][n] = item[q][n] /\ (lock'[n] = q <=> lock[n] = q)
    BY <1>1, <1>2, <1>7, <1>11, Saved, SavedLock
  <2>2. \A way, k : <<q, n, way, k>> # s
    BY <1>11
  <2>3. QED
    BY <1>1, <1>8, <1>11, <2>1, <2>2 DEF Same
<1>12. item'[p][m] = y
  BY <1>1, <1>2, <1>7, Saved
<1>13. lock'[m] = p
  <2>1. Unresolved(p, y, head[p].running)
    BY <1>7 DEF Unresolved
  <2>2. QED
    BY <1>1, <1>2, <1>5, <1>7, <2>1, SavedLock
<1>14. QED
  BY <1>1, <1>3, <1>4, <1>5, <1>6, <1>7, <1>8, <1>10, <1>11, <1>12, <1>13 DEF c

\* A request keeps it: its step had none under way and has not landed.
LEMMA DispatchInv ==
  ASSUME Inv, NEW p \in Plans, NEW m \in Messages, Dispatch(p, m), scenario' = scenario
  PROVE  Inv'
<1> DEFINE x == item[p][m]
           c == Cursor(x, Way(p))
           s == <<p, m, Way(p), c + 1>>
<1>1. /\ hand[p][m] = "ready" /\ ~x.attempted /\ State(x, Way(p)) \in {"pending", "applying", "available"}
      /\ job[p].at = "items" /\ m \in head[p].items /\ head[p].state = "approved"
      /\ Way(p) \in Ways /\ c + 1 \in 1 .. 2
      /\ lock[m] = p
      /\ TypeOK' /\ head' = head /\ claim' = claim /\ job' = job /\ landed' = landed
      /\ wire' = wire \cup {s} /\ hand'[p][m] = "waiting"
      /\ \A q \in Plans, n \in Messages : q # p \/ n # m => Same(q, n)
      /\ lock'[m] = p
  BY DispatchIs
<1>2. PICK y \in Item :
        /\ item'[p][m] = y
        /\ y.attempted /\ y.origin = x.origin /\ y.done = x.done /\ y.undone = x.undone
        /\ Way(p) = "undo" => y.undo = "applying" /\ y.state = x.state
        /\ Way(p) # "undo" => y.state = "applying" /\ y.undo = x.undo
  BY DispatchIs
<1>3. ItemRight(p, m) /\ LockRight(p, m) /\ ClaimRight(p, m) /\ x \in Item
      /\ x.done \in 0 .. 2 /\ x.undone \in 0 .. 2
  BY Known, Typed
<1>4. /\ Way(p) = "undo" => x.undo \in {"available", "applying"} /\ x.state = "applied"
      /\ Way(p) # "undo" => x.state \in {"pending", "applying"} /\ x.undo = "unsupported" /\ x.undone = 0 /\ Way(p) = "apply"
  BY <1>1, <1>3 DEF ItemRight, State, Way, Item
<1>5. ItemRight(p, m)'
  <2>1. CASE Way(p) = "undo"
    BY <1>1, <1>2, <1>3, <1>4, <2>1 DEF ItemRight, State, Way, Restore, Count, Doubtful
  <2>2. CASE Way(p) # "undo"
    BY <1>1, <1>2, <1>3, <1>4, <2>2 DEF ItemRight, State, Way, Restore, Count, Doubtful
  <2>3. QED
    BY <2>1, <2>2
<1>6. ASSUME NEW way \in Ways, NEW k \in 1 .. 2 PROVE StepRight(p, m, way, k)'
  <2>1. StepRight(p, m, way, k)
    BY Known
  <2>2. Cursor(y, way) = Cursor(x, way)
    BY <1>2 DEF Cursor
  <2>3. CASE way = Way(p)
    <3>1. /\ <<p, m, way, k>> \notin wire
          /\ k = c + 1 => landed[<<p, m, way, k>>] = 0
          /\ k <= c => landed[<<p, m, way, k>>] = 1
          /\ k > c + 1 => landed[<<p, m, way, k>>] = 0
      BY <1>1, <2>1, <2>3 DEF StepRight
    <3>2. <<p, m, way, k>> \in wire' <=> k = c + 1
      BY <1>1, <2>3, <3>1
    <3>3. Cursor(y, way) = c /\ Way(p)' = way
      BY <1>1, <2>2, <2>3 DEF Way
    <3> HIDE DEF c
    <3>4. QED
      BY <1>1, <1>2, <3>1, <3>2, <3>3 DEF StepRight
  <2>4. CASE way # Way(p)
    <3>1. State(y, way) = State(x, way)
      BY <1>2, <2>4 DEF State, Way, Ways
    <3>2. <<p, m, way, k>> \in wire' <=> <<p, m, way, k>> \in wire
      BY <1>1, <2>4
    <3>3. Way(p)' = Way(p)
      BY <1>1 DEF Way
    <3>4. QED
      BY <1>1, <1>2, <2>1, <2>2, <2>4, <3>1, <3>2, <3>3 DEF StepRight
  <2>5. QED
    BY <2>3, <2>4
<1>7. LockRight(p, m)'
  BY <1>1 DEF LockRight
<1>8. ClaimRight(p, m)'
  BY <1>1, <1>2, <1>3 DEF ClaimRight, Restore
<1>9. QED
  BY <1>1, <1>5, <1>6, <1>7, <1>8, OneKeeps DEF Rows, CallRight

\* A request under way is for the next step of a message.
LEMMA WireIs ==
  ASSUME Inv, NEW s \in wire
  PROVE  \E p \in Plans, m \in Messages, way \in Ways, k \in 1 .. 2 :
           /\ s = <<p, m, way, k>> /\ s[1] = p /\ s[2] = m /\ s[3] = way /\ s[4] = k /\ landed[s] = 0
           /\ k = Cursor(item[p][m], way) + 1 /\ m \in head[p].items /\ head[p].state = "approved"
           /\ State(item[p][m], way) \in {"applying", "uncertain", "observed"}
           /\ hand[p][m] = "waiting" => way = Way(p) /\ State(item[p][m], way) = "applying"
           /\ hand[p][m] \in {"waiting", "idle"} \/ State(item[p][m], way) # "applying"
<1>1. s \in Steps
  BY DEF Inv, TypeOK
<1>2. PICK p \in Plans, m \in Messages, way \in Ways, k \in 1 .. 2 : s = <<p, m, way, k>>
  BY <1>1 DEF Steps
<1>3. StepRight(p, m, way, k) /\ ItemRight(p, m) /\ item[p][m] \in Item
  BY Known, Typed
<1>4. /\ k = Cursor(item[p][m], way) + 1 /\ landed[s] = 0
      /\ State(item[p][m], way) \in {"uncertain", "observed"} \/ (hand[p][m] = "waiting" /\ way = Way(p))
  BY <1>2, <1>3 DEF StepRight
<1>5. hand[p][m] = "waiting" => State(item[p][m], Way(p)) = "applying"
  BY <1>3 DEF ItemRight
<1>6. hand[p][m] = "waiting" => way = Way(p)
  <2> SUFFICES ASSUME hand[p][m] = "waiting", way # Way(p) PROVE FALSE
    OBVIOUS
  <2>1. State(item[p][m], way) \in {"uncertain", "observed"} /\ State(item[p][m], Way(p)) = "applying"
    BY <1>4, <1>5
  <2>2. CASE way = "undo"
    BY <1>3, <2>1, <2>2 DEF State, ItemRight
  <2>3. CASE way # "undo"
    BY <1>3, <2>1, <2>3 DEF State, ItemRight, Way, Ways
  <2>4. QED
    BY <2>2, <2>3
<1>7. m \in head[p].items
  BY <1>3, <1>4, <1>5 DEF ItemRight, NoItem, State
<1>8. head[p].state = "approved"
  BY <1>3, <1>4, <1>5, <1>6, <1>7 DEF ItemRight, State
<1>9. QED
  BY <1>2, <1>4, <1>5, <1>6, <1>7, <1>8

\* A request that is over, however it ends.
LEMMA OverInv ==
  ASSUME Inv, NEW s \in wire, NEW answer \in {"waiting", "done", "denied"}, Over(s, answer),
         IF answer = "done" THEN landed' = [landed EXCEPT ![s] = @ + 1] ELSE landed' = landed,
         message' \in [Messages -> Message], scenario' = scenario
  PROVE  Inv'
<1>1. PICK p \in Plans, m \in Messages, way \in Ways, k \in 1 .. 2 :
        /\ s = <<p, m, way, k>> /\ s[1] = p /\ s[2] = m /\ landed[s] = 0
        /\ k = Cursor(item[p][m], way) + 1
        /\ State(item[p][m], way) \in {"applying", "uncertain", "observed"}
        /\ hand[p][m] = "waiting" => way = Way(p) /\ State(item[p][m], way) = "applying"
  BY WireIs
<1> DEFINE x == item[p][m]
<1>2. /\ wire' = wire \ {s} /\ head' = head /\ item' = item /\ lock' = lock /\ claim' = claim /\ job' = job
      /\ hand' = [hand EXCEPT ![p][m] = IF @ = "waiting" THEN answer ELSE @]
      /\ UNCHANGED <<connected, held, closed, edits>>
  BY <1>1 DEF Over, durable, flags
<1>3. TypeOK /\ ItemRight(p, m) /\ LockRight(p, m) /\ ClaimRight(p, m) /\ StepRight(p, m, way, k)
      /\ hand[p][m] \in Hand
  BY Known, Typed
<1>4. /\ hand' \in [Plans -> [Messages -> Hand]]
      /\ hand'[p][m] = (IF hand[p][m] = "waiting" THEN answer ELSE hand[p][m])
      /\ \A q \in Plans, n \in Messages : q # p \/ n # m => hand'[q][n] = hand[q][n]
  BY <1>2, <1>3 DEF TypeOK, Hand
<1>5. /\ landed' \in [Steps -> Nat] /\ \A t \in Steps : t # s => landed'[t] = landed[t]
      /\ landed'[s] = IF answer = "done" THEN 1 ELSE 0
  <2>1. s \in Steps /\ landed \in [Steps -> Nat] /\ landed[s] = 0
    BY <1>1, <1>3 DEF TypeOK
  <2>2. CASE answer = "done"
    BY <2>1, <2>2
  <2>3. CASE answer # "done"
    BY <2>1, <2>3
  <2>4. QED
    BY <2>2, <2>3
<1>6. TypeOK'
  BY <1>2, <1>3, <1>4, <1>5 DEF TypeOK
<1>7. ASSUME NEW q \in Plans, NEW n \in Messages, q # p \/ n # m PROVE Same(q, n)
  <2>1. \A v \in Ways, j \in 1 .. 2 : <<q, n, v, j>> # s /\ <<q, n, v, j>> \in Steps
    BY <1>1, <1>7 DEF Steps
  <2>2. QED
    BY <1>2, <1>4, <1>5, <1>7, <2>1 DEF Same
<1>8. ItemRight(p, m)'
  BY <1>2, <1>3, <1>4 DEF ItemRight, State, Way, Restore, Count, Doubtful
<1>9. ASSUME NEW v \in Ways, NEW j \in 1 .. 2 PROVE StepRight(p, m, v, j)'
  <2>1. StepRight(p, m, v, j)
    BY Known
  <2>2. <<p, m, v, j>> \in Steps /\ (<<p, m, v, j>> = s <=> v = way /\ j = k)
    BY <1>1 DEF Steps
  <2>3. /\ x' = x /\ Way(p)' = Way(p) /\ Cursor(x, v)' = Cursor(x, v) /\ State(x, v)' = State(x, v)
    BY <1>2 DEF Way, Cursor, State
  <2>4. CASE v = way /\ j = k
    <3>1. <<p, m, v, j>> \notin wire' /\ landed'[<<p, m, v, j>>] = IF answer = "done" THEN 1 ELSE 0
      BY <1>2, <1>5, <2>2, <2>4
    <3>2. hand'[p][m] = "done" => (v = Way(p) => answer = "done")
      <4>1. hand[p][m] = "done" => v # Way(p)
        <5> SUFFICES ASSUME hand[p][m] = "done", v = Way(p) PROVE FALSE
          OBVIOUS
        <5>1. landed[s] = 1
          BY <1>1, <2>1, <2>2, <2>4 DEF StepRight
        <5>2. QED
          BY <1>1, <5>1
      <4>2. QED
        BY <1>4, <4>1
    <3>3. answer = "done" => State(x, v) \in {"uncertain", "observed"} \/ (hand'[p][m] = "done" /\ v = Way(p))
      BY <1>1, <1>4, <2>1, <2>2, <2>4 DEF StepRight
    <3>4. j = Cursor(x, v) + 1 /\ Cursor(x, v) \in Nat
      BY <1>1, <2>4, Known, Typed DEF Cursor
    <3>5. QED
      BY <1>2, <2>3, <3>1, <3>2, <3>3, <3>4 DEF StepRight
  <2>5. CASE ~(v = way /\ j = k)
    <3>1. /\ <<p, m, v, j>> \in wire' <=> <<p, m, v, j>> \in wire
          /\ landed'[<<p, m, v, j>>] = landed[<<p, m, v, j>>]
      BY <1>2, <1>5, <2>2, <2>5
    <3>2. CASE hand'[p][m] = hand[p][m]
      BY <1>2, <2>1, <2>3, <3>1, <3>2 DEF StepRight
    <3>3. CASE hand'[p][m] # hand[p][m]
      <4>1. hand[p][m] = "waiting" /\ way = Way(p) /\ State(x, way) = "applying"
        BY <1>1, <1>4, <3>3
      <4>2. j = Cursor(x, v) + 1 => v # Way(p)
        BY <1>1, <2>5, <4>1
      <4>3. QED
        BY <1>2, <1>4, <2>1, <2>3, <3>1, <4>1, <4>2 DEF StepRight
    <3>4. QED
      BY <3>2, <3>3
  <2>6. QED
    BY <2>4, <2>5
<1>10. LockRight(p, m)'
  BY <1>2, <1>3 DEF LockRight, Restore
<1>11. ClaimRight(p, m)'
  <2>1. landed'[<<p, m, "apply", 1>>] > 0 => landed[<<p, m, "apply", 1>>] > 0 \/ <<p, m, "apply", 1>> = s
    <3>1. <<p, m, "apply", 1>> \in Steps
      BY DEF Steps, Ways
    <3>2. QED
      BY <1>5, <3>1
  <2>2. QED
    BY <1>2, <1>3, <2>1 DEF ClaimRight, Restore
<1>12. QED
  BY <1>2, <1>6, <1>7, <1>8, <1>9, <1>10, <1>11, OneKeeps DEF Rows, CallRight

\* A request lands, is refused or is lost.
LEMMA ProviderInv ==
  ASSUME Inv, NEW s \in wire, Land(s) \/ Refuse(s) \/ Lose(s), scenario' = scenario
  PROVE  Inv'
<1>1. TypeOK
  BY DEF Inv
<1>2. CASE Land(s)
  <2>1. PICK p \in Plans, m \in Messages, way \in Ways, k \in 1 .. 2 :
          s[1] = p /\ s[2] = m /\ s[3] = way /\ s[4] = k /\ m \in head[p].items
    BY WireIs
  <2>2. Target(p, m, way, k) \in Folders
    <3>1. Original(p, m) \in Folders
      <4>1. Restore(p) => item[p][m].origin \in Plans
        BY <2>1, Known DEF ClaimRight
      <4>2. \A q \in Plans : item[q][m].before.folder \in Folders
        BY <1>1, Typed DEF Item, Message
      <4>3. QED
        BY <4>1, <4>2 DEF Original
    <3>2. QED
      BY <3>1 DEF Target, Folders
  <2>3. message' = [message EXCEPT ![m].folder = Target(p, m, way, k)]
    BY <1>2, <2>1 DEF Land
  <2>4. message' \in [Messages -> Message]
    BY <1>1, <2>2, <2>3 DEF TypeOK, Message
  <2>5. QED
    BY <1>2, <2>4, OverInv DEF Land
<1>3. CASE Refuse(s)
  BY <1>1, <1>3, OverInv DEF Refuse, TypeOK
<1>4. CASE Lose(s)
  BY <1>1, <1>4, OverInv DEF Lose, TypeOK
<1>5. QED
  BY <1>2, <1>3, <1>4

-----------------------------------------------------------------------------
(* Decisions and ends of functions.                                        *)

\* A step of one plan that leaves the others keeps everything it keeps of its own.
LEMMA PlanKeeps ==
  ASSUME Inv, NEW p \in Plans, claim' = claim, TypeOK', IsFiniteSet(Approved)', PlanRight(p)',
         \A q \in Plans : q # p => head'[q] = head[q] /\ job'[q].at = job[q].at,
         \A q \in Plans, n \in Messages : q # p => Same(q, n),
         \A n \in Messages : Rows(p, n)'
  PROVE  Inv'
<1>1. ASSUME NEW q \in Plans PROVE PlanRight(q)'
  <2>1. CASE q = p
    BY <2>1
  <2>2. CASE q # p
    BY <2>2, SamePlan DEF Inv
  <2>3. QED
    BY <2>1, <2>2
<1>2. ASSUME NEW q \in Plans, NEW n \in Messages PROVE Rows(q, n)'
  <2>1. CASE q = p
    BY <2>1
  <2>2. CASE q # p
    BY <2>2, SameRows DEF Inv
  <2>3. QED
    BY <2>1, <2>2
<1>3. QED
  BY <1>1, <1>2 DEF Inv

\* Steps that change what a plan's function does next, or when its review ends.
LEMMA TurnsInv ==
  ASSUME Inv, NEW p \in Plans, scenario' = scenario,
         CancelReview(p) \/ Lapse(p) \/ ThreadsRead(p) \/ Refreshed(p) \/ Reconcile(p)
  PROVE  Inv'
<1>1. UNCHANGED <<item, lock, claim, hand, message, wire, landed, connected, held, closed, edits>>
  BY DEF CancelReview, Lapse, ThreadsRead, Refreshed, Reconcile, durable, working, outside, flags
<1>2. TypeOK /\ head[p] \in Head /\ job[p] \in Job /\ PlanRight(p) /\ IsFiniteSet(Approved)
  BY DEF Inv, TypeOK
<1>3. \/ /\ job' = job
         /\ \/ head' = [head EXCEPT ![p].state = "cancelled"] /\ head[p].state = "review"
            \/ head' = [head EXCEPT ![p].late = TRUE]
      \/ /\ head' = head
         /\ \/ job' = [job EXCEPT ![p].at = "items"] /\ job[p].at = "threads"
            \/ job' = [job EXCEPT ![p] = NoJob] /\ job[p].at = "refresh"
            \/ job' = [job EXCEPT ![p] = [at |-> "check", todo |-> Uncertain(p)]] /\ job[p] = NoJob /\ Uncertain(p) # {}
  BY DEF CancelReview, Lapse, ThreadsRead, Refreshed, Reconcile, durable, working
<1>4. /\ head' \in [Plans -> Head]
      /\ \A q \in Plans : q # p => head'[q] = head[q]
      /\ head'[p].action = head[p].action /\ head'[p].items = head[p].items /\ head'[p].running = head[p].running
      /\ head'[p].state = head[p].state \/ (head[p].state = "review" /\ head'[p].state = "cancelled")
  <2>1. head \in [Plans -> Head]
    BY <1>2 DEF TypeOK
  <2>2. CASE head' = head
    BY <2>1, <2>2
  <2>3. CASE head' = [head EXCEPT ![p].state = "cancelled"] /\ head[p].state = "review"
    BY <2>1, <2>3 DEF Head
  <2>4. CASE head' = [head EXCEPT ![p].late = TRUE]
    BY <2>1, <2>4 DEF Head
  <2>5. QED
    BY <1>3, <2>2, <2>3, <2>4
<1>5. /\ job' \in [Plans -> Job]
      /\ \A q \in Plans : q # p => job'[q] = job[q]
      /\ \/ job'[p] = job[p]
         \/ job'[p].at = "items" /\ job[p].at = "threads"
         \/ job'[p].at = "none" /\ job[p].at = "refresh"
         \/ job'[p].at = "check" /\ job'[p].todo = Uncertain(p) /\ job[p].at = "none" /\ Uncertain(p) # {}
  <2>1. Uncertain(p) \subseteq Messages
    BY <1>2 DEF Uncertain, Head
  <2>2. job \in [Plans -> Job]
    BY <1>2 DEF TypeOK
  <2>3. CASE job' = job
    BY <2>2, <2>3
  <2>4. CASE job' = [job EXCEPT ![p].at = "items"] /\ job[p].at = "threads"
    BY <2>2, <2>4 DEF Job
  <2>5. CASE job' = [job EXCEPT ![p] = NoJob] /\ job[p].at = "refresh"
    BY <2>2, <2>5 DEF Job, NoJob
  <2>6. CASE job' = [job EXCEPT ![p] = [at |-> "check", todo |-> Uncertain(p)]] /\ job[p] = NoJob /\ Uncertain(p) # {}
    BY <2>1, <2>2, <2>6 DEF Job, NoJob
  <2>7. QED
    BY <1>3, <2>3, <2>4, <2>5, <2>6
<1>6. TypeOK'
  BY <1>1, <1>2, <1>4, <1>5 DEF TypeOK
<1>7. Approved' = Approved
  <2>1. \A q \in Plans : head'[q].state = "approved" <=> head[q].state = "approved"
    BY <1>4
  <2>2. QED
    BY <2>1 DEF Approved
<1>8. Uncertain(p) # {} => head[p].state = "approved"
  <2>1. ASSUME NEW m \in head[p].items, Doubtful(item[p][m]) PROVE head[p].state = "approved"
    <3>1. ItemRight(p, m)
      BY <1>2, Known DEF Head
    <3>2. QED
      BY <2>1, <3>1 DEF ItemRight, Doubtful
  <2>2. QED
    BY <2>1 DEF Uncertain
<1>9. PlanRight(p)'
  BY <1>2, <1>4, <1>5, <1>8 DEF PlanRight, Restore
<1>10. ASSUME NEW n \in Messages PROVE Rows(p, n)'
  <2>1. /\ job[p].at = "items" => job'[p].at = "items"
        /\ job'[p].at \in {"check", "acknowledge"} /\ n \in job'[p].todo => n \in head[p].items /\ Doubtful(item[p][n])
    BY <1>5, Known DEF ItemRight, Uncertain
  <2>2. Alike(p, n)
    BY <1>1, <1>4, <2>1 DEF Alike
  <2>3. QED
    BY <1>1, <2>2, AlikeRows DEF Inv
<1>11. ASSUME NEW q \in Plans, NEW n \in Messages, q # p PROVE Same(q, n)
  BY <1>1, <1>4, <1>5, <1>11 DEF Same
<1>12. QED
  BY <1>1, <1>2, <1>4, <1>5, <1>6, <1>7, <1>9, <1>10, <1>11, PlanKeeps

\* What a plan's record becomes when its function is done with its messages.
Settles(p, x) ==
  \A m \in Messages :
    /\ hand[p][m] = "idle" /\ item[p][m].state # "applying" /\ item[p][m].undo # "applying"
    /\ \/ x[m] = item[p][m]
       \/ item[p][m].state = "pending" /\ x[m] = [item[p][m] EXCEPT !.state = "failed"]

\* What it becomes as its fields tell it.
LEMMA SettleIs ==
  ASSUME Inv, NEW p \in Plans, NEW x, Settle(p, x), x = [m \in Messages |-> x[m]], Settles(p, x), scenario' = scenario,
         head[p].state = "approved"
  PROVE  /\ UNCHANGED <<claim, hand, wire, landed>> /\ TypeOK' /\ Approved' = Approved
         /\ \A q \in Plans : q # p => head'[q] = head[q] /\ job'[q] = job[q]
         /\ head'[p].running = "none" /\ head'[p].state = "approved"
         /\ head'[p].action = head[p].action /\ head'[p].items = head[p].items
         /\ job'[p].at = "refresh"
         /\ \A q \in Plans, n \in Messages : q # p => Same(q, n)
         /\ \A n \in Messages :
              /\ item'[p][n] = x[n] /\ x[n] \in Item
              /\ lock'[n] = p <=> lock[n] = p /\ (n \in head[p].items => Unresolved(p, x[n], "none"))
<1>1. /\ head' = [head EXCEPT ![p].running = "none"] /\ item' = [item EXCEPT ![p] = x]
      /\ lock' = Locks(p, head[p].items, x, "none")
      /\ job' = [job EXCEPT ![p] = [at |-> "refresh", todo |-> {}]]
      /\ UNCHANGED <<claim, hand, message, wire, landed, connected, held, closed, edits>>
  BY DEF Settle, outside, flags
<1>2. TypeOK /\ head[p] \in Head /\ Nobody \notin Plans
  BY TriageAssumption DEF Inv, TypeOK
<1>3. \A n \in Messages : x[n] \in Item
  BY <1>2, Typed DEF Settles, Item
<1>4. /\ head' \in [Plans -> Head] /\ \A q \in Plans : q # p => head'[q] = head[q]
      /\ head'[p].running = "none" /\ head'[p].state = "approved"
      /\ head'[p].action = head[p].action /\ head'[p].items = head[p].items
  <2>1. head \in [Plans -> Head] /\ head' = [head EXCEPT ![p].running = "none"]
    BY <1>1, <1>2 DEF TypeOK
  <2>2. QED
    BY <2>1 DEF Head, Decisions
<1>5. /\ item' \in [Plans -> [Messages -> Item]] /\ item'[p] = x
      /\ \A q \in Plans : q # p => item'[q] = item[q]
  <2>1. x \in [Messages -> Item]
    BY <1>3
  <2>2. QED
    BY <1>1, <1>2, <2>1 DEF TypeOK
<1>6. /\ job' \in [Plans -> Job] /\ job'[p].at = "refresh" /\ \A q \in Plans : q # p => job'[q] = job[q]
  BY <1>1, <1>2 DEF TypeOK, Job
<1>7. /\ lock' \in [Messages -> Plans \cup {Nobody}]
      /\ \A n \in Messages : lock'[n] = IF n \in head[p].items /\ lock[n] = p /\ ~Unresolved(p, x[n], "none")
                                        THEN Nobody ELSE lock[n]
  BY <1>1, <1>2 DEF Locks, TypeOK
<1>8. TypeOK'
  BY <1>1, <1>2, <1>4, <1>5, <1>6, <1>7 DEF TypeOK
<1>9. Approved' = Approved
  BY <1>4 DEF Approved
<1>10. ASSUME NEW q \in Plans, NEW n \in Messages, q # p PROVE Same(q, n)
  <2>1. lock'[n] = q <=> lock[n] = q
    BY <1>2, <1>7, <1>10
  <2>2. QED
    BY <1>1, <1>4, <1>5, <1>6, <1>10, <2>1 DEF Same
<1>11. \A n \in Messages : lock'[n] = p <=> lock[n] = p /\ (n \in head[p].items => Unresolved(p, x[n], "none"))
  BY <1>2, <1>7
<1>12. QED
  BY <1>1, <1>3, <1>4, <1>5, <1>6, <1>8, <1>9, <1>10, <1>11

\* The end of a function keeps it: no step of the plan is under way in a record.
LEMMA SettleInv ==
  ASSUME Inv, NEW p \in Plans, NEW x, Settle(p, x), x = [m \in Messages |-> x[m]], Settles(p, x), scenario' = scenario,
         head[p].state = "approved"
  PROVE  Inv'
<1>1. /\ UNCHANGED <<claim, hand, wire, landed>> /\ TypeOK' /\ Approved' = Approved
      /\ \A q \in Plans : q # p => head'[q] = head[q] /\ job'[q] = job[q]
      /\ head'[p].running = "none" /\ head'[p].state = "approved"
      /\ head'[p].action = head[p].action /\ head'[p].items = head[p].items
      /\ job'[p].at = "refresh"
      /\ \A q \in Plans, n \in Messages : q # p => Same(q, n)
      /\ \A n \in Messages :
           /\ item'[p][n] = x[n] /\ x[n] \in Item
           /\ lock'[n] = p <=> lock[n] = p /\ (n \in head[p].items => Unresolved(p, x[n], "none"))
  BY SettleIs
<1>2. PlanRight(p)'
  BY <1>1 DEF PlanRight, Restore
<1>3. ASSUME NEW m \in Messages PROVE Rows(p, m)'
  <2> DEFINE y == x[m]
  <2>1. /\ item'[p][m] = y /\ hand'[p][m] = "idle" /\ hand[p][m] = "idle"
        /\ lock'[m] = p <=> lock[m] = p /\ (m \in head[p].items => Unresolved(p, y, "none"))
    BY <1>1 DEF Settles
  <2>2. /\ item[p][m] \in Item /\ ItemRight(p, m) /\ LockRight(p, m) /\ ClaimRight(p, m)
        /\ item[p][m].done \in 0 .. 2 /\ item[p][m].undone \in 0 .. 2
    BY Known, Typed
  <2>3. /\ y.attempted = item[p][m].attempted /\ y.origin = item[p][m].origin
        /\ y.done = item[p][m].done /\ y.undone = item[p][m].undone /\ y.undo = item[p][m].undo
        /\ y.state = item[p][m].state \/ (item[p][m].state = "pending" /\ y.state = "failed")
        /\ item[p][m].state = "none" => y = item[p][m]
    BY <2>2 DEF Settles, Item
  <2>4. item[p][m].state # "applying" /\ item[p][m].undo # "applying"
    BY DEF Settles
  <2>5. m \notin head[p].items => y = item[p][m]
    BY <2>2, <2>3 DEF ItemRight, NoItem
  <2> HIDE DEF y
  <2>6. ItemRight(p, m)'
    BY <1>1, <2>1, <2>2, <2>3, <2>4, <2>5 DEF ItemRight, State, Way, Restore, Count, Doubtful
  <2>7. ASSUME NEW way \in Ways, NEW k \in 1 .. 2 PROVE StepRight(p, m, way, k)'
    <3>1. StepRight(p, m, way, k)
      BY Known
    <3>2. /\ Cursor(y, way) = Cursor(item[p][m], way)
          /\ State(item[p][m], way) \in {"uncertain", "observed"} => State(y, way) \in {"uncertain", "observed"}
      BY <2>3 DEF Cursor, State
    <3>3. QED
      BY <1>1, <2>1, <3>1, <3>2 DEF StepRight
  <2>8. LockRight(p, m)'
    <3>1. m \in head[p].items \/ y.state = "none"
      BY <2>2, <2>3 DEF ItemRight, NoItem
    <3>2. QED
      BY <1>1, <2>1, <2>2, <2>3, <2>4, <3>1 DEF LockRight, ItemRight, Unresolved, Restore
  <2>9. ClaimRight(p, m)'
    BY <1>1, <2>1, <2>2, <2>3 DEF ClaimRight, Restore
  <2>10. QED
    BY <2>6, <2>7, <2>8, <2>9 DEF Rows, CallRight
<1>4. IsFiniteSet(Approved)'
  BY <1>1 DEF Inv
<1>5. QED
  BY <1>1, <1>2, <1>3, <1>4, PlanKeeps

\* The three steps that settle a plan do so.
LEMMA SettlersSettle ==
  ASSUME Inv, NEW p \in Plans, ThreadsFail(p) \/ ItemsEnd(p) \/ InspectEnds(p)
  PROVE  \E x : Settle(p, x) /\ x = [m \in Messages |-> x[m]] /\ Settles(p, x) /\ head[p].state = "approved"
<1>1. TypeOK /\ PlanRight(p) /\ item[p] \in [Messages -> Item]
  BY Known DEF Inv, TypeOK
<1>2. CASE job[p].at # "items"
  <2>1. \A m \in Messages : hand[p][m] = "idle" /\ item[p][m].state # "applying" /\ item[p][m].undo # "applying"
    BY <1>2, Known DEF ItemRight
  <2>2. CASE ThreadsFail(p)
    <3> DEFINE x == [m \in Messages |-> IF item[p][m].state = "pending"
                                        THEN [item[p][m] EXCEPT !.state = "failed"] ELSE item[p][m]]
    <3>1. Settle(p, x) /\ head[p].state = "approved"
      BY <1>1, <2>2 DEF ThreadsFail, PlanRight
    <3>2. Settles(p, x)
      BY <2>1 DEF Settles
    <3> HIDE DEF Settles
    <3>3. x = [m \in Messages |-> x[m]]
      OBVIOUS
    <3> HIDE DEF x
    <3>4. QED
      BY <3>1, <3>2, <3>3
  <2>3. CASE InspectEnds(p)
    <3>1. Settle(p, item[p]) /\ head[p].state = "approved"
      BY <1>1, <2>3 DEF InspectEnds, PlanRight
    <3>2. Settles(p, item[p])
      BY <2>1 DEF Settles
    <3>3. QED
      BY <1>1, <3>1, <3>2
  <2>4. QED
    BY <1>2, <2>2, <2>3 DEF ItemsEnd
<1>3. CASE job[p].at = "items"
  <2>1. ItemsEnd(p)
    BY <1>3 DEF ThreadsFail, InspectEnds
  <2>2. Settle(p, item[p]) /\ head[p].state = "approved" /\ \A m \in Messages : hand[p][m] = "idle" /\ ~Ahead(p, m)
    BY <1>1, <1>3, <2>1 DEF ItemsEnd, PlanRight
  <2>3. ASSUME NEW m \in Messages PROVE item[p][m].state # "applying" /\ item[p][m].undo # "applying"
    <3>1. ItemRight(p, m) /\ hand[p][m] = "idle" /\ ~Ahead(p, m)
      BY <2>2, Known
    <3>2. QED
      BY <1>3, <3>1 DEF ItemRight, Ahead, Doubtful, NoItem
  <2>4. Settles(p, item[p])
    BY <2>2, <2>3 DEF Settles
  <2>5. QED
    BY <1>1, <2>2, <2>4
<1>4. QED
  BY <1>2, <1>3

-----------------------------------------------------------------------------
(* Reviews and their confirmation.                                         *)

\* A review prepared: its messages have done nothing.
LEMMA PrepareIs ==
  ASSUME Inv, NEW p \in Plans, NEW action \in Actions, NEW S \in SUBSET Messages, Prepare(p, action, S),
         scenario' = scenario
  PROVE  /\ UNCHANGED <<claim, lock, job, hand, wire, landed>> /\ TypeOK' /\ Approved' = Approved
         /\ head[p].state = "none" /\ job[p].at = "none" /\ head[p].running = "none"
         /\ head'[p].state = "review" /\ head'[p].action = action /\ head'[p].items = S
         /\ head'[p].running = "none"
         /\ \A q \in Plans : q # p => head'[q] = head[q]
         /\ \A q \in Plans, n \in Messages : q # p => Same(q, n)
         /\ \A n \in Messages :
              /\ item[p][n] = NoItem /\ hand[p][n] = "idle" /\ lock[n] # p
              /\ n \notin S => item'[p][n] = NoItem
              /\ n \in S => /\ item'[p][n].state = "pending" /\ item'[p][n].undo = "unsupported"
                            /\ ~item'[p][n].attempted /\ item'[p][n].done = 0 /\ item'[p][n].undone = 0
                            /\ action = "restore" => item'[p][n].origin \in Plans
<1> DEFINE was(m) == [NoItem EXCEPT !.state = "pending", !.before = message[m],
                        !.origin = IF action = "restore" THEN CHOOSE q \in Latest(m) : TRUE ELSE Nobody]
           y == [m \in Messages |-> IF m \notin S THEN NoItem ELSE was(m)]
           h == [NoHead EXCEPT !.state = "review", !.action = action, !.items = S]
<1>1. /\ head[p].state = "none" /\ head' = [head EXCEPT ![p] = h] /\ item' = [item EXCEPT ![p] = y]
      /\ \A m \in S : action = "restore" => \E q \in Latest(m) : TRUE
      /\ UNCHANGED <<lock, claim, job, hand, message, wire, landed, connected, held, closed, edits>>
  BY DEF Prepare, working, outside, flags
<1>2. TypeOK /\ PlanRight(p) /\ head \in [Plans -> Head] /\ item \in [Plans -> [Messages -> Item]]
  BY DEF Inv, TypeOK
<1>3. h \in Head /\ h.state = "review" /\ h.action = action /\ h.items = S /\ h.running = "none"
  BY DEF Head, NoHead, Decisions
<1>4. NoItem \in Item
  BY DEF NoItem, Item, Start, Message, Folders
<1>5. ASSUME NEW m \in S
      PROVE  /\ was(m) \in Item /\ was(m).state = "pending" /\ was(m).undo = "unsupported" /\ ~was(m).attempted
             /\ was(m).done = 0 /\ was(m).undone = 0 /\ (action = "restore" => was(m).origin \in Plans)
  <2> DEFINE o == IF action = "restore" THEN CHOOSE q \in Latest(m) : TRUE ELSE Nobody
  <2>1. o \in Plans \cup {Nobody} /\ (action = "restore" => o \in Plans)
    <3>1. Latest(m) \subseteq Plans
      BY DEF Latest, Deletes
    <3>2. action = "restore" => (CHOOSE q \in Latest(m) : TRUE) \in Latest(m)
      BY <1>1
    <3>3. QED
      BY <3>1, <3>2
  <2>2. message[m] \in Message
    BY <1>2 DEF TypeOK
  <2>3. was(m) = [NoItem EXCEPT !.state = "pending", !.before = message[m], !.origin = o]
    OBVIOUS
  <2> HIDE DEF o, was
  <2>4. QED
    BY <1>4, <2>1, <2>2, <2>3 DEF Item, NoItem
<1> HIDE DEF h, was
<1>6. y \in [Messages -> Item] /\ \A m \in Messages : y[m] = IF m \notin S THEN NoItem ELSE was(m)
  BY <1>4, <1>5
<1> HIDE DEF y
<1>7. /\ head' \in [Plans -> Head] /\ head'[p] = h /\ \A q \in Plans : q # p => head'[q] = head[q]
      /\ item' \in [Plans -> [Messages -> Item]] /\ item'[p] = y /\ \A q \in Plans : q # p => item'[q] = item[q]
  BY <1>1, <1>2, <1>3, <1>6
<1>8. TypeOK'
  BY <1>1, <1>2, <1>7 DEF TypeOK
<1>9. Approved' = Approved
  BY <1>1, <1>3, <1>7 DEF Approved
<1>10. head[p].items = {} /\ job[p].at = "none" /\ head[p].running = "none"
  BY <1>1, <1>2 DEF PlanRight
<1>11. ASSUME NEW n \in Messages PROVE item[p][n] = NoItem /\ hand[p][n] = "idle" /\ lock[n] # p
  BY <1>10, Known DEF ItemRight, LockRight
<1>12. ASSUME NEW q \in Plans, NEW n \in Messages, q # p PROVE Same(q, n)
  BY <1>1, <1>7, <1>12 DEF Same
<1>13. QED
  BY <1>1, <1>3, <1>5, <1>6, <1>7, <1>8, <1>9, <1>10, <1>11, <1>12

\* A review keeps it: it holds no message and has sent nothing.
LEMMA PrepareInv ==
  ASSUME Inv, NEW p \in Plans, NEW action \in Actions, NEW S \in SUBSET Messages, Prepare(p, action, S),
         scenario' = scenario
  PROVE  Inv'
<1>1. /\ UNCHANGED <<claim, lock, job, hand, wire, landed>> /\ TypeOK' /\ Approved' = Approved
      /\ head[p].state = "none" /\ job[p].at = "none"
      /\ head'[p].state = "review" /\ head'[p].action = action /\ head'[p].items = S
      /\ head'[p].running = "none"
      /\ \A q \in Plans : q # p => head'[q] = head[q]
      /\ \A q \in Plans, n \in Messages : q # p => Same(q, n)
      /\ \A n \in Messages :
           /\ item[p][n] = NoItem /\ hand[p][n] = "idle" /\ lock[n] # p
           /\ n \notin S => item'[p][n] = NoItem
           /\ n \in S => /\ item'[p][n].state = "pending" /\ item'[p][n].undo = "unsupported"
                         /\ ~item'[p][n].attempted /\ item'[p][n].done = 0 /\ item'[p][n].undone = 0
                         /\ action = "restore" => item'[p][n].origin \in Plans
  BY PrepareIs
<1>2. PlanRight(p)'
  BY <1>1 DEF PlanRight, Restore
<1>3. ASSUME NEW m \in Messages PROVE Rows(p, m)'
  <2> DEFINE y == item'[p][m]
  <2>1. /\ item[p][m] = NoItem /\ hand[p][m] = "idle" /\ hand'[p][m] = "idle" /\ lock'[m] # p
        /\ m \notin S => y = NoItem
        /\ m \in S => y.state = "pending" /\ (action = "restore" => y.origin \in Plans)
        /\ y.state \in {"none", "pending"} /\ y.undo = "unsupported" /\ ~y.attempted /\ y.done = 0 /\ y.undone = 0
    <3>1. /\ NoItem.state = "none" /\ NoItem.undo = "unsupported" /\ ~NoItem.attempted
          /\ NoItem.done = 0 /\ NoItem.undone = 0
      BY DEF NoItem
    <3>2. QED
      BY <1>1, <3>1
  <2>2. ItemRight(p, m)'
    BY <1>1, <2>1 DEF ItemRight, Count, Restore, Doubtful
  <2>3. ASSUME NEW way \in Ways, NEW k \in 1 .. 2
        PROVE  <<p, m, way, k>> \notin wire /\ landed[<<p, m, way, k>>] = 0
    <3>1. StepRight(p, m, way, k)
      BY Known
    <3>2. Cursor(NoItem, way) = 0 /\ State(NoItem, way) \notin {"uncertain", "observed"}
      BY DEF Cursor, State, NoItem
    <3>3. k = 1 \/ k > 1
      OBVIOUS
    <3>4. QED
      BY <2>1, <3>1, <3>2, <3>3 DEF StepRight
  <2>4. ASSUME NEW way \in Ways, NEW k \in 1 .. 2 PROVE StepRight(p, m, way, k)'
    <3>1. <<p, m, way, k>> \notin wire' /\ landed'[<<p, m, way, k>>] = 0
      BY <1>1, <2>3
    <3>2. Cursor(y, way) = 0
      BY <2>1 DEF Cursor
    <3>3. k = 1 \/ k > 1
      OBVIOUS
    <3>4. QED
      BY <2>1, <3>1, <3>2, <3>3 DEF StepRight
  <2>5. LockRight(p, m)'
    BY <1>1, <2>1 DEF LockRight
  <2>6. ClaimRight(p, m)'
    <3>1. <<p, m, "apply", 1>> \notin wire' /\ landed'[<<p, m, "apply", 1>>] = 0
      BY <1>1, <2>3 DEF Ways
    <3>2. Restore(p)' /\ m \in head'[p].items => y.origin \in Plans
      BY <1>1, <2>1 DEF Restore
    <3>3. ~(landed'[<<p, m, "apply", 1>>] > 0)
      BY <3>1
    <3>4. QED
      BY <2>1, <3>1, <3>2, <3>3 DEF ClaimRight
  <2>7. QED
    BY <2>2, <2>4, <2>5, <2>6 DEF Rows, CallRight
<1>4. IsFiniteSet(Approved)'
  BY <1>1 DEF Inv
<1>5. QED
  BY <1>1, <1>2, <1>3, <1>4, PlanKeeps

\* What the owner decides about is in the plan.
LEMMA SelectedIs ==
  ASSUME TypeOK, NEW p \in Plans, NEW decision
  PROVE  Selected(p, decision) \subseteq head[p].items /\ head[p].items \subseteq Messages
BY DEF Selected, TypeOK, Head

\* What a decision makes of the record of a message, its lock and its claims.
Decided(p, decision, n) ==
  LET S == Selected(p, decision)
      x == item[p][n]
      y == item'[p][n] IN
  /\ n \in S => lock'[n] = p /\ lock[n] \in {Nobody, p} /\ RestoreSource(p, n)
  /\ n \notin S => lock'[n] = lock[n]
  /\ decision = "continue" /\ n \in S => y.state = "pending"
  /\ ~(decision = "continue" /\ n \in S) => y = x
  /\ y.undo = x.undo /\ y.attempted = x.attempted /\ y.done = x.done /\ y.undone = x.undone /\ y.origin = x.origin
  /\ \A o \in Plans :
       /\ Restore(p) /\ n \in S /\ x.origin = o => claim'[o, n] = p
       /\ ~(Restore(p) /\ n \in S /\ x.origin = o) => claim'[o, n] = claim[o, n]

\* A decision of the owner, as the records tell it.
LEMMA ConfirmIs ==
  ASSUME Inv, NEW p \in Plans, NEW decision \in Decisions \ {"none"}, Confirm(p, decision), scenario' = scenario
  PROVE  LET S == Selected(p, decision) IN
         /\ UNCHANGED <<hand, wire, landed>> /\ TypeOK' /\ IsFiniteSet(Approved)'
         /\ decision = "apply" \/ head[p].state = "approved"
         /\ decision = "apply" => head[p].state = "review" /\ S = head[p].items
         /\ decision = "undo" => ~Restore(p)
         /\ head[p].running = "none"
         /\ head'[p].state = "approved" /\ head'[p].running = decision
         /\ head'[p].action = head[p].action /\ head'[p].items = head[p].items
         /\ \A q \in Plans : q # p => head'[q] = head[q] /\ item'[q] = item[q] /\ job'[q] = job[q]
         /\ \/ job'[p] = job[p] /\ job[p] # NoJob
            \/ /\ job[p] = NoJob
               /\ \/ decision = "apply" /\ job'[p].at = "threads"
                  \/ decision = "acknowledge" /\ job'[p].at = decision /\ job'[p].todo = Uncertain(p)
                  \/ decision \in {"undo", "continue"} /\ job'[p].at = "items"
         /\ \A n \in Messages : Decided(p, decision, n)
<1> DEFINE S == Selected(p, decision)
           y == [m \in Messages |->
                  IF decision = "continue" /\ m \in S THEN [item[p][m] EXCEPT !.state = "pending"] ELSE item[p][m]]
           begun == CASE decision = "apply"       -> [at |-> "threads", todo |-> {}]
                      [] decision = "acknowledge" -> [at |-> decision, todo |-> Uncertain(p)]
                      [] OTHER                    -> [at |-> "items", todo |-> {}]
           count == Cardinality(Approved) + 1
           h == IF decision = "apply"
                THEN [head[p] EXCEPT !.running = decision, !.state = "approved", !.late = FALSE, !.approved = count]
                ELSE [head[p] EXCEPT !.running = decision]
<1>1. TypeOK /\ head \in [Plans -> Head] /\ item \in [Plans -> [Messages -> Item]] /\ job \in [Plans -> Job]
      /\ IsFiniteSet(Approved)
  BY DEF Inv, TypeOK
<1>2. /\ head[p].running = "none" /\ Offered(p, decision)
      /\ \A m \in S : lock[m] \in {Nobody, p} /\ RestoreSource(p, m)
      /\ lock' = [m \in Messages |-> IF m \in S THEN p ELSE lock[m]]
      /\ claim' = [s \in Plans \X Messages |->
           IF Restore(p) /\ s[2] \in S /\ item[p][s[2]].origin = s[1] THEN p ELSE claim[s]]
      /\ item' = [item EXCEPT ![p] = y]
      /\ Starts(p, begun)
      /\ UNCHANGED <<hand, message, wire, landed, connected, held, closed, edits>>
  BY DEF Confirm, outside, flags
<1>3. head' = [head EXCEPT ![p] = h]
  <2>1. head' = [head EXCEPT ![p] =
          IF decision = "apply"
          THEN [@ EXCEPT !.running = decision, !.state = "approved", !.late = FALSE,
                         !.approved = Cardinality({q \in Plans : head[q].state = "approved"}) + 1]
          ELSE [@ EXCEPT !.running = decision]]
    BY DEF Confirm
  <2>2. QED
    BY <1>1, <2>1 DEF Approved
<1>4. /\ decision = "apply" \/ head[p].state = "approved"
      /\ decision = "apply" => head[p].state = "review" /\ S = head[p].items
      /\ decision = "undo" => ~Restore(p)
  BY <1>2 DEF Offered, Selected, Decisions
<1>5. S \subseteq Messages
  BY <1>1, SelectedIs
<1>6. /\ h \in Head /\ h.state = "approved" /\ h.running = decision
      /\ h.action = head[p].action /\ h.items = head[p].items
  <2>1. count \in Nat
    <3>1. Cardinality(Approved) \in Nat
      BY <1>1, FS_CardinalityType
    <3>2. QED
      BY <3>1
  <2> HIDE DEF count
  <2>2. head[p] \in Head
    BY <1>1
  <2>3. CASE decision = "apply"
    BY <2>1, <2>2, <2>3 DEF Head, Decisions
  <2>4. CASE decision # "apply"
    BY <1>4, <2>2, <2>4 DEF Head
  <2>5. QED
    BY <2>3, <2>4
<1> HIDE DEF h
<1>7. head' \in [Plans -> Head] /\ head'[p] = h /\ \A q \in Plans : q # p => head'[q] = head[q]
  BY <1>1, <1>3, <1>6
<1>8. /\ y \in [Messages -> Item]
      /\ \A n \in Messages : IF decision = "continue" /\ n \in S THEN y[n] = [item[p][n] EXCEPT !.state = "pending"]
                                                               ELSE y[n] = item[p][n]
  <2>1. \A m \in Messages : item[p][m] \in Item /\ [item[p][m] EXCEPT !.state = "pending"] \in Item
    <3>1. \A x \in Item : [x EXCEPT !.state = "pending"] \in Item
      BY DEF Item
    <3>2. QED
      BY <1>1, <3>1
  <2> HIDE DEF S
  <2>2. QED
    BY <2>1
<1> HIDE DEF y, S
<1>9. item' \in [Plans -> [Messages -> Item]] /\ item'[p] = y /\ \A q \in Plans : q # p => item'[q] = item[q]
  BY <1>1, <1>2, <1>8
<1>10. /\ begun \in Job
       /\ \/ decision = "apply" /\ begun.at = "threads"
          \/ decision = "acknowledge" /\ begun.at = decision /\ begun.todo = Uncertain(p)
          \/ decision \in {"undo", "continue"} /\ begun.at = "items"
  <2>1. Uncertain(p) \subseteq Messages
    BY <1>1, SelectedIs DEF Uncertain
  <2>2. CASE decision = "apply"
    BY <2>2 DEF Job
  <2>3. CASE decision = "acknowledge"
    BY <2>1, <2>3 DEF Job
  <2>4. CASE decision \notin {"apply", "acknowledge"}
    BY <2>4 DEF Job, Decisions
  <2>5. QED
    BY <2>2, <2>3, <2>4
<1> HIDE DEF begun
<1>11. /\ job' \in [Plans -> Job] /\ \A q \in Plans : q # p => job'[q] = job[q]
       /\ (job'[p] = job[p] /\ job[p] # NoJob) \/ (job[p] = NoJob /\ job'[p] = begun)
  BY <1>1, <1>2, <1>10 DEF Starts
<1>12. /\ lock' \in [Messages -> Plans \cup {Nobody}]
       /\ \A n \in Messages : (n \in S => lock'[n] = p) /\ (n \notin S => lock'[n] = lock[n])
  BY <1>1, <1>2 DEF TypeOK
<1>13. /\ claim' \in [Plans \X Messages -> Plans \cup {Nobody}]
       /\ \A n \in Messages, o \in Plans :
            /\ Restore(p) /\ n \in S /\ item[p][n].origin = o => claim'[o, n] = p
            /\ ~(Restore(p) /\ n \in S /\ item[p][n].origin = o) => claim'[o, n] = claim[o, n]
  BY <1>1, <1>2 DEF TypeOK
<1>14. TypeOK'
  BY <1>1, <1>2, <1>7, <1>9, <1>11, <1>12, <1>13 DEF TypeOK
<1>15. IsFiniteSet(Approved)'
  <2>1. Approved' = Approved \cup {p}
    BY <1>6, <1>7 DEF Approved
  <2>2. IsFiniteSet(Approved \cup {p})
    BY <1>1, FS_AddElement
  <2>3. QED
    BY <2>1, <2>2
<1>16. /\ \/ job'[p] = job[p] /\ job[p] # NoJob
          \/ /\ job[p] = NoJob
             /\ \/ decision = "apply" /\ job'[p].at = "threads"
                \/ decision = "acknowledge" /\ job'[p].at = decision /\ job'[p].todo = Uncertain(p)
                \/ decision \in {"undo", "continue"} /\ job'[p].at = "items"
  BY <1>10, <1>11
<1>17. ASSUME NEW n \in Messages
       PROVE  /\ n \in S => lock[n] \in {Nobody, p} /\ RestoreSource(p, n)
              /\ decision = "continue" /\ n \in S => item'[p][n].state = "pending"
              /\ ~(decision = "continue" /\ n \in S) => item'[p][n] = item[p][n]
              /\ item'[p][n].undo = item[p][n].undo /\ item'[p][n].attempted = item[p][n].attempted
              /\ item'[p][n].done = item[p][n].done /\ item'[p][n].undone = item[p][n].undone
              /\ item'[p][n].origin = item[p][n].origin
  <2>1. n \in S => lock[n] \in {Nobody, p} /\ RestoreSource(p, n)
    BY <1>2
  <2>2. CASE decision = "continue" /\ n \in S
    <3>1. item'[p][n] = [item[p][n] EXCEPT !.state = "pending"] /\ item[p][n] \in Item
      BY <1>1, <1>8, <1>9, <2>2
    <3>2. QED
      BY <2>1, <2>2, <3>1 DEF Item
  <2>3. CASE ~(decision = "continue" /\ n \in S)
    <3>1. item'[p][n] = item[p][n]
      BY <1>8, <1>9, <2>3
    <3>2. QED
      BY <2>1, <2>3, <3>1
  <2>4. QED
    BY <2>2, <2>3
<1>18. ASSUME NEW n \in Messages PROVE Decided(p, decision, n)
  BY <1>12, <1>13, <1>17 DEF Decided, S
<1>19. QED
  BY <1>2, <1>4, <1>6, <1>7, <1>9, <1>11, <1>14, <1>15, <1>16, <1>18 DEF S

\* What a restore's claim says while its plan is settled: a failed one that did
\* nothing has sent nothing.
LEMMA FailedSentNothing ==
  ASSUME Inv, NEW q \in Plans, NEW n \in Messages, head[q].running = "none",
         item[q][n].state = "failed", item[q][n].done = 0
  PROVE  <<q, n, "apply", 1>> \notin wire /\ landed[<<q, n, "apply", 1>>] = 0
<1>1. hand[q][n] = "idle"
  BY Known DEF ItemRight, PlanRight
<1>2. "apply" \in Ways /\ 1 \in 1 .. 2
  BY DEF Ways
<1>3. StepRight(q, n, "apply", 1)
  BY <1>2, Known
<1>4. Cursor(item[q][n], "apply") = 0 /\ State(item[q][n], "apply") = "failed"
  BY DEF Cursor, State
<1>5. QED
  BY <1>1, <1>3, <1>4 DEF StepRight

\* A decision keeps it: a restore takes over only the claim of a restore that sent
\* nothing and holds no lock.
LEMMA ConfirmInv ==
  ASSUME Inv, NEW p \in Plans, NEW decision \in Decisions \ {"none"}, Confirm(p, decision), scenario' = scenario
  PROVE  Inv'
<1> DEFINE S == Selected(p, decision)
<1>1. /\ UNCHANGED <<hand, wire, landed>> /\ TypeOK' /\ IsFiniteSet(Approved)'
      /\ decision = "apply" \/ head[p].state = "approved"
      /\ decision = "apply" => head[p].state = "review" /\ S = head[p].items
      /\ decision = "undo" => ~Restore(p)
      /\ head[p].running = "none"
      /\ head'[p].state = "approved" /\ head'[p].running = decision
      /\ head'[p].action = head[p].action /\ head'[p].items = head[p].items
      /\ \A q \in Plans : q # p => head'[q] = head[q] /\ item'[q] = item[q] /\ job'[q] = job[q]
  BY ConfirmIs
<1>2. \/ job'[p] = job[p] /\ job[p] # NoJob
      \/ /\ job[p] = NoJob
         /\ \/ decision = "apply" /\ job'[p].at = "threads"
            \/ decision = "acknowledge" /\ job'[p].at = decision /\ job'[p].todo = Uncertain(p)
            \/ decision \in {"undo", "continue"} /\ job'[p].at = "items"
  BY ConfirmIs
<1>3. \A n \in Messages : Decided(p, decision, n)
  BY ConfirmIs
<1>4. PlanRight(p) /\ Nobody \notin Plans /\ TypeOK
  BY TriageAssumption DEF Inv
<1>5. job[p].at \in {"none", "check", "acknowledge", "refresh"}
  <2>1. job[p] \in Job
    BY <1>4 DEF TypeOK
  <2>2. job[p].at # "items" /\ job[p].at # "threads"
    BY <1>1, <1>4 DEF PlanRight
  <2>3. QED
    BY <2>1, <2>2 DEF Job
<1>6. ASSUME NEW q \in Plans PROVE PlanRight(q)'
  <2>1. CASE q # p
    BY <1>1, <2>1, SamePlan DEF Inv
  <2>2. CASE q = p
    <3>1. Restore(p)' <=> Restore(p)
      BY <1>1 DEF Restore
    <3>2. /\ job'[p].at = "items" => decision \in {"undo", "continue"}
          /\ job'[p].at = "threads" => decision = "apply"
      BY <1>2, <1>5
    <3>3. PlanRight(p)'
      BY <1>1, <3>1, <3>2 DEF PlanRight
    <3>4. QED
      BY <2>2, <3>3
  <2>3. QED
    BY <2>1, <2>2
<1>7. ASSUME NEW q \in Plans, NEW n \in Messages, q # p PROVE Rows(q, n)'
  <2>1. lock'[n] = q <=> lock[n] = q
    BY <1>3, <1>4, <1>7 DEF Decided
  <2>2. Alike(q, n)
    BY <1>1, <1>7, <2>1, Known DEF Alike, ItemRight
  <2>3. ItemRight(q, n)' /\ CallRight(q, n)' /\ LockRight(q, n)'
    BY <2>2, AlikeRows DEF Inv
  <2>4. ClaimRight(q, n)'
    <3>1. /\ head'[q] = head[q] /\ item'[q][n] = item[q][n]
          /\ wire' = wire /\ landed' = landed /\ ClaimRight(q, n)
      BY <1>1, <1>7, Known
    <3>2. SUFFICES ASSUME Restore(q), n \in head[q].items
                   PROVE  /\ item[q][n].origin \in Plans
                          /\ (lock[n] = q \/ <<q, n, "apply", 1>> \in wire \/ landed[<<q, n, "apply", 1>>] > 0)
                             => claim'[item[q][n].origin, n] = q
      <4>1. Restore(q)' <=> Restore(q)
        BY <3>1 DEF Restore
      <4>2. QED
        BY <2>1, <3>1, <4>1 DEF ClaimRight
    <3> DEFINE o == item[q][n].origin
    <3>3. /\ o \in Plans
          /\ (lock[n] = q \/ <<q, n, "apply", 1>> \in wire \/ landed[<<q, n, "apply", 1>>] > 0) => claim[o, n] = q
      BY <3>1, <3>2 DEF ClaimRight
    <3>4. claim'[o, n] = IF Restore(p) /\ n \in S /\ item[p][n].origin = o THEN p ELSE claim[o, n]
      BY <1>3, <3>3 DEF Decided
    <3>5. CASE ~(Restore(p) /\ n \in S /\ item[p][n].origin = o)
      BY <3>3, <3>4, <3>5
    <3>6. CASE Restore(p) /\ n \in S /\ item[p][n].origin = o /\ claim[o, n] # q
      BY <3>3, <3>6
    <3>7. CASE Restore(p) /\ n \in S /\ item[p][n].origin = o /\ claim[o, n] = q
      <4>1. SourceStands(o, p, n) /\ lock[n] # q
        BY <1>3, <1>4, <1>7, <3>7 DEF Decided, RestoreSource
      <4>2. head[q].running = "none" /\ item[q][n].state = "failed" /\ item[q][n].done = 0
        BY <1>7, <3>7, <4>1 DEF SourceStands
      <4>3. <<q, n, "apply", 1>> \notin wire /\ landed[<<q, n, "apply", 1>>] = 0
        BY <4>2, FailedSentNothing
      <4>4. ~(landed[<<q, n, "apply", 1>>] > 0)
        BY <4>3
      <4>5. QED
        BY <3>3, <4>1, <4>3, <4>4
    <3>8. QED
      BY <3>5, <3>6, <3>7
  <2>5. QED
    BY <2>3, <2>4 DEF Rows
<1>8. ASSUME NEW m \in Messages PROVE Rows(p, m)'
  <2> DEFINE x == item[p][m]
             y == item'[p][m]
  <2>1. /\ x \in Item /\ ItemRight(p, m) /\ LockRight(p, m) /\ ClaimRight(p, m)
        /\ x.done \in 0 .. 2 /\ x.undone \in 0 .. 2
    BY Known, Typed
  <2>2. hand[p][m] = "idle" /\ hand'[p][m] = "idle" /\ x.state # "applying" /\ x.undo # "applying"
    BY <1>1, <1>5, <2>1 DEF ItemRight
  <2>3. /\ y.attempted = x.attempted /\ y.origin = x.origin
        /\ y.done = x.done /\ y.undone = x.undone /\ y.undo = x.undo
        /\ y.state = x.state \/ (decision = "continue" /\ m \in S /\ x.state = "failed" /\ y.state = "pending")
        /\ y = x \/ (m \in S /\ m \in head[p].items)
    <3>1. S \subseteq head[p].items /\ (decision = "continue" /\ m \in S => x.state = "failed")
      BY <1>4, SelectedIs DEF Selected
    <3>2. QED
      BY <1>3, <3>1 DEF Decided
  <2>4. /\ S \subseteq head[p].items
        /\ decision = "undo" => (m \in S <=> m \in head[p].items /\ x.undo = "available")
        /\ decision = "continue" => (m \in S <=> m \in head[p].items /\ x.state = "failed")
    BY <1>4, SelectedIs DEF Selected
  <2>5. lock'[m] = IF m \in S THEN p ELSE lock[m]
    BY <1>3 DEF Decided
  <2>6. job'[p].at \in {"check", "acknowledge"} /\ m \in job'[p].todo => m \in head[p].items /\ Doubtful(x)
    BY <1>2, <2>1 DEF ItemRight, Uncertain
  <2>7. Restore(p)' <=> Restore(p)
    BY <1>1 DEF Restore
  <2>8. \A way \in Ways : Count(p, way)' = Count(p, way)
    BY <1>1, <2>7 DEF Count
  <2>9. m \notin head[p].items => y = NoItem
    BY <2>1, <2>3 DEF ItemRight
  <2> HIDE DEF S
  <2>10. ItemRight(p, m)'
    <3>1. "apply" \in Ways /\ "undo" \in Ways
      BY DEF Ways
    <3> HIDE DEF x, y
    <3>2. /\ head'[p].items = head[p].items /\ head'[p].state = "approved"
          /\ item'[p][m] = y /\ item[p][m] = x
      BY <1>1 DEF x, y
    <3>3. x.undo # "unsupported" => x.state = "applied"
      BY <2>1, <3>2 DEF ItemRight
    <3>4. Doubtful(x) => Doubtful(y)
      BY <2>3 DEF Doubtful
    <3>5. /\ y.state # "none" \/ m \notin head[p].items
          /\ y.undo # "unsupported" => y.state = "applied" /\ ~Restore(p)
          /\ y.undo = "unsupported" => y.undone = 0
          /\ IF y.state = "applied" THEN y.done = Count(p, "apply") ELSE y.done < Count(p, "apply")
          /\ IF y.undo = "undone" THEN y.undone = Count(p, "undo") ELSE y.undone < Count(p, "undo")
          /\ y.attempted => Doubtful(y)
          /\ y.state # "applying" /\ y.undo # "applying"
      BY <2>1, <2>2, <2>3, <3>2, <3>3, <3>4 DEF ItemRight
    <3>6. QED
      BY <2>2, <2>6, <2>7, <2>8, <2>9, <3>1, <3>2, <3>4, <3>5 DEF ItemRight
  <2>11. ASSUME NEW way \in Ways, NEW k \in 1 .. 2 PROVE StepRight(p, m, way, k)'
    <3>1. StepRight(p, m, way, k)
      BY Known
    <3>2. /\ Cursor(y, way) = Cursor(x, way)
          /\ State(x, way) \in {"uncertain", "observed"} => State(y, way) \in {"uncertain", "observed"}
      BY <2>3 DEF Cursor, State
    <3>3. QED
      BY <1>1, <2>2, <3>1, <3>2 DEF StepRight
  <2>12. LockRight(p, m)'
    <3>1. head[p].state # "approved" => x.state \in {"none", "pending"} /\ x.undo = "unsupported"
      BY <2>1 DEF ItemRight
    <3>2. m \in S => lock'[m] = p /\ m \in head[p].items
      BY <2>4, <2>5
    <3>3. m \notin S => lock'[m] = lock[m] /\ y.state = x.state
      BY <2>3, <2>5
    <3>4. m \notin head[p].items => y.state = "none" /\ y.undo = "unsupported"
      BY <2>9 DEF NoItem
    <3>5. CASE m \in S
      BY <1>1, <3>2, <3>5 DEF LockRight
    <3>6. CASE m \notin S
      <4>1. decision = "apply" => m \notin head[p].items
        BY <1>1, <3>6
      <4>2. decision = "undo" /\ m \in head[p].items => x.undo # "available"
        BY <2>4, <3>6
      <4>3. QED
        BY <1>1, <2>1, <2>3, <2>7, <3>1, <3>3, <3>4, <3>6, <4>1, <4>2 DEF LockRight
    <3>7. QED
      BY <3>5, <3>6
  <2>13. ClaimRight(p, m)'
    <3> DEFINE o == x.origin
    <3>1. SUFFICES ASSUME Restore(p), m \in head[p].items
                   PROVE  /\ o \in Plans
                          /\ (lock'[m] = p \/ <<p, m, "apply", 1>> \in wire \/ landed[<<p, m, "apply", 1>>] > 0)
                             => claim'[o, m] = p
      <4>1. y.origin = o /\ head'[p].items = head[p].items /\ wire' = wire /\ landed' = landed
        BY <1>1, <2>3
      <4> HIDE DEF o
      <4>2. QED
        BY <2>7, <4>1 DEF ClaimRight
    <3>2. /\ o \in Plans
          /\ (lock[m] = p \/ <<p, m, "apply", 1>> \in wire \/ landed[<<p, m, "apply", 1>>] > 0) => claim[o, m] = p
      BY <2>1, <3>1 DEF ClaimRight
    <3>3. claim'[o, m] = IF Restore(p) /\ m \in S /\ x.origin = o THEN p ELSE claim[o, m]
      BY <1>3, <3>2 DEF Decided, S
    <3>4. QED
      BY <2>5, <3>1, <3>2, <3>3
  <2>14. QED
    BY <2>10, <2>11, <2>12, <2>13 DEF Rows, CallRight
<1>9. ASSUME NEW q \in Plans, NEW n \in Messages PROVE Rows(q, n)'
  <2>1. CASE q = p
    BY <1>8, <2>1
  <2>2. CASE q # p
    BY <1>7, <2>2
  <2>3. QED
    BY <2>1, <2>2
<1>10. QED
  BY <1>1, <1>6, <1>9 DEF Inv

-----------------------------------------------------------------------------
(* Restarts, the world, and the whole.                                     *)

\* What a restart makes of the record of a message and of its lock.
CutShort(p, m) ==
  LET x == item[p][m]
      y == item'[p][m] IN
  /\ y.attempted = x.attempted /\ y.done = x.done /\ y.undone = x.undone /\ y.origin = x.origin
  /\ head[p].running = "none" => y = x
  /\ head[p].running # "none" =>
       /\ x.state = "applying" /\ Restore(p) /\ ~x.attempted => y.state = "failed"
       /\ x.state = "applying" /\ ~(Restore(p) /\ ~x.attempted) => y.state = "uncertain"
       /\ x.state = "pending" => y.state = "failed"
       /\ x.state \notin {"applying", "pending"} => y.state = x.state
       /\ x.undo = "applying" /\ x.attempted => y.undo = "uncertain"
       /\ x.undo = "applying" /\ ~x.attempted => y.undo = "available"
       /\ x.undo # "applying" => y.undo = x.undo
       /\ x.state \notin {"applying", "pending"} /\ x.undo # "applying" => y = x
  /\ lock'[m] = p => lock[m] = p
  /\ lock[m] = p /\ Unresolved(p, y, "none") => lock'[m] = p

\* An interrupted item as its fields tell it.
LEMMA InterruptedIs ==
  ASSUME NEW p \in Plans, NEW x \in Item
  PROVE  LET y == Interrupted(p, x) IN
         /\ y \in Item
         /\ y.attempted = x.attempted /\ y.done = x.done /\ y.undone = x.undone /\ y.origin = x.origin
         /\ x.state = "applying" /\ Restore(p) /\ ~x.attempted => y.state = "failed"
         /\ x.state = "applying" /\ ~(Restore(p) /\ ~x.attempted) => y.state = "uncertain"
         /\ x.state = "pending" => y.state = "failed"
         /\ x.state \notin {"applying", "pending"} => y.state = x.state
         /\ x.undo = "applying" /\ x.attempted => y.undo = "uncertain"
         /\ x.undo = "applying" /\ ~x.attempted => y.undo = "available"
         /\ x.undo # "applying" => y.undo = x.undo
         /\ x.state \notin {"applying", "pending"} /\ x.undo # "applying" => y = x
<1> DEFINE s == CASE x.state = "applying" -> IF Restore(p) /\ ~x.attempted THEN "failed" ELSE "uncertain"
                  [] x.state = "pending"  -> "failed"
                  [] OTHER                -> x.state
           u == IF x.undo = "applying" THEN (IF x.attempted THEN "uncertain" ELSE "available") ELSE x.undo
           y == [x EXCEPT !.state = s, !.undo = u]
<1>1. Interrupted(p, x) = y
  BY DEF Interrupted, Item
<1>2. /\ x.state = "applying" /\ Restore(p) /\ ~x.attempted => s = "failed"
      /\ x.state = "applying" /\ ~(Restore(p) /\ ~x.attempted) => s = "uncertain"
      /\ x.state = "pending" => s = "failed"
      /\ x.state \notin {"applying", "pending"} => s = x.state
  OBVIOUS
<1>3. /\ x.undo = "applying" /\ x.attempted => u = "uncertain"
      /\ x.undo = "applying" /\ ~x.attempted => u = "available"
      /\ x.undo # "applying" => u = x.undo
  OBVIOUS
<1> HIDE DEF s, u
<1>4. /\ s \in {"none", "pending", "applying", "applied", "failed", "uncertain", "observed"}
      /\ u \in {"unsupported", "available", "applying", "undone", "failed", "uncertain", "observed"}
  BY <1>2, <1>3 DEF Item
<1>5. /\ y \in Item /\ y.state = s /\ y.undo = u
      /\ y.attempted = x.attempted /\ y.done = x.done /\ y.undone = x.undone /\ y.origin = x.origin
  BY <1>4 DEF Item
<1>6. s = x.state /\ u = x.undo => y = x
  BY DEF Item
<1> HIDE DEF y
<1>7. QED
  BY <1>1, <1>2, <1>3, <1>5, <1>6

\* A restart as the records tell it.
LEMMA RestartIs ==
  ASSUME Inv, Restart, scenario' = scenario
  PROVE  /\ UNCHANGED <<claim, wire, landed>> /\ TypeOK' /\ Approved' = Approved
         /\ \A p \in Plans :
              /\ head'[p].state = head[p].state /\ head'[p].action = head[p].action
              /\ head'[p].items = head[p].items /\ head'[p].running = "none" /\ job'[p].at = "none"
         /\ \A p \in Plans, m \in Messages : hand'[p][m] = "idle" /\ CutShort(p, m)
<1> DEFINE cut == {p \in Plans : head[p].running # "none"}
<1>1. /\ item' = [p \in Plans |-> IF p \in cut THEN [m \in Messages |-> Interrupted(p, item[p][m])] ELSE item[p]]
      /\ head' = [p \in Plans |-> [head[p] EXCEPT !.running = "none"]]
      /\ lock' = [m \in Messages |->
           IF lock[m] \in cut /\ ~Unresolved(lock[m], item'[lock[m]][m], "none") THEN Nobody ELSE lock[m]]
      /\ job' = [p \in Plans |-> NoJob] /\ hand' = [p \in Plans |-> [m \in Messages |-> "idle"]]
      /\ closed' = FALSE /\ held' = FALSE
      /\ UNCHANGED <<claim, message, wire, landed, connected, edits>>
  BY DEF Restart, outside
<1>2. TypeOK /\ head \in [Plans -> Head] /\ item \in [Plans -> [Messages -> Item]] /\ Nobody \notin Plans
  BY TriageAssumption DEF Inv, TypeOK
<1>3. /\ head' \in [Plans -> Head]
      /\ \A p \in Plans : /\ head'[p].state = head[p].state /\ head'[p].action = head[p].action
                          /\ head'[p].items = head[p].items /\ head'[p].running = "none"
  <2>1. ASSUME NEW p \in Plans
        PROVE  /\ head'[p] \in Head /\ head'[p].state = head[p].state /\ head'[p].action = head[p].action
               /\ head'[p].items = head[p].items /\ head'[p].running = "none"
    <3>1. head[p] \in Head /\ head'[p] = [head[p] EXCEPT !.running = "none"]
      BY <1>1, <1>2
    <3>2. QED
      BY <3>1 DEF Head, Decisions
  <2>2. head' = [p \in Plans |-> head'[p]]
    BY <1>1
  <2>3. QED
    BY <2>1, <2>2
<1>4. ASSUME NEW p \in Plans, NEW m \in Messages
      PROVE  /\ item'[p][m] \in Item
             /\ head[p].running = "none" => item'[p][m] = item[p][m]
             /\ head[p].running # "none" => item'[p][m] = Interrupted(p, item[p][m])
  <2>1. item[p][m] \in Item /\ Interrupted(p, item[p][m]) \in Item
    BY <1>2, InterruptedIs
  <2>2. CASE p \in cut
    BY <1>1, <2>1, <2>2
  <2>3. CASE p \notin cut
    BY <1>1, <2>1, <2>3
  <2>4. QED
    BY <2>2, <2>3
<1>5. item' \in [Plans -> [Messages -> Item]]
  <2>1. ASSUME NEW p \in Plans PROVE item'[p] \in [Messages -> Item]
    <3>1. item'[p] = [m \in Messages |-> item'[p][m]]
      <4>1. CASE p \in cut
        BY <1>1, <4>1
      <4>2. CASE p \notin cut
        BY <1>1, <1>2, <4>2
      <4>3. QED
        BY <4>1, <4>2
    <3>2. QED
      BY <1>4, <3>1
  <2>2. item' = [p \in Plans |-> item'[p]]
    BY <1>1
  <2>3. QED
    BY <2>1, <2>2
<1>6. ASSUME NEW m \in Messages
      PROVE  /\ lock'[m] \in Plans \cup {Nobody} /\ (lock'[m] = lock[m] \/ lock'[m] = Nobody)
             /\ \A p \in Plans : lock[m] = p /\ Unresolved(p, item'[p][m], "none") => lock'[m] = p
  <2> HIDE DEF cut
  <2>1. lock'[m] = IF lock[m] \in cut /\ ~Unresolved(lock[m], item'[lock[m]][m], "none") THEN Nobody ELSE lock[m]
    BY <1>1
  <2>2. lock[m] \in Plans \cup {Nobody}
    BY <1>2 DEF TypeOK
  <2>3. ASSUME NEW p \in Plans, lock[m] = p, Unresolved(p, item'[p][m], "none") PROVE lock'[m] = p
    <3>1. Unresolved(lock[m], item'[lock[m]][m], "none")
      BY <2>3
    <3>2. QED
      BY <2>1, <2>3, <3>1
  <2>4. QED
    BY <2>1, <2>2, <2>3
<1>7. lock' \in [Messages -> Plans \cup {Nobody}]
  <2>1. lock' = [m \in Messages |-> lock'[m]]
    BY <1>1
  <2>2. QED
    BY <1>6, <2>1
<1>8. /\ job' \in [Plans -> Job] /\ \A p \in Plans : job'[p].at = "none"
      /\ hand' \in [Plans -> [Messages -> Hand]] /\ \A p \in Plans, m \in Messages : hand'[p][m] = "idle"
  BY <1>1 DEF NoJob, Job, Hand
<1>9. TypeOK'
  BY <1>1, <1>2, <1>3, <1>5, <1>7, <1>8 DEF TypeOK
<1>10. Approved' = Approved
  BY <1>3 DEF Approved
<1>11. ASSUME NEW p \in Plans, NEW m \in Messages PROVE CutShort(p, m)
  <2>1. item[p][m] \in Item
    BY <1>2
  <2>2. /\ lock'[m] = p => lock[m] = p
        /\ lock[m] = p /\ Unresolved(p, item'[p][m], "none") => lock'[m] = p
    BY <1>2, <1>6
  <2>3. CASE head[p].running = "none"
    BY <1>4, <2>2, <2>3 DEF CutShort
  <2>4. CASE head[p].running # "none"
    <3>1. item'[p][m] = Interrupted(p, item[p][m])
      BY <1>4, <2>4
    <3>2. QED
      BY <2>1, <2>2, <2>4, <3>1, InterruptedIs DEF CutShort
  <2>5. QED
    BY <2>3, <2>4
<1>12. QED
  BY <1>1, <1>3, <1>8, <1>9, <1>10, <1>11

\* A restart keeps it: what may have been sent is in doubt, the rest is not.
LEMMA RestartInv == ASSUME Inv, Restart, scenario' = scenario PROVE Inv'
<1>1. /\ UNCHANGED <<claim, wire, landed>> /\ TypeOK' /\ Approved' = Approved
      /\ \A p \in Plans :
           /\ head'[p].state = head[p].state /\ head'[p].action = head[p].action
           /\ head'[p].items = head[p].items /\ head'[p].running = "none" /\ job'[p].at = "none"
      /\ \A p \in Plans, m \in Messages : hand'[p][m] = "idle" /\ CutShort(p, m)
  BY RestartIs
<1>2. ASSUME NEW p \in Plans PROVE PlanRight(p)'
  BY <1>1 DEF Inv, PlanRight
<1>3. ASSUME NEW p \in Plans, NEW m \in Messages PROVE Rows(p, m)'
  <2> DEFINE x == item[p][m]
             y == item'[p][m]
  <2>1. /\ x \in Item /\ ItemRight(p, m) /\ LockRight(p, m) /\ ClaimRight(p, m) /\ PlanRight(p) /\ CutShort(p, m)
        /\ x.done \in 0 .. 2 /\ x.undone \in 0 .. 2
    BY <1>1, Known, Typed
  <2>2. /\ head'[p].state = head[p].state /\ head'[p].action = head[p].action
        /\ head'[p].items = head[p].items /\ head'[p].running = "none" /\ job'[p].at = "none"
        /\ hand'[p][m] = "idle" /\ wire' = wire /\ landed' = landed /\ claim' = claim
        /\ (Restore(p)' <=> Restore(p)) /\ \A way \in Ways : Count(p, way)' = Count(p, way)
    BY <1>1 DEF Restore, Count
  <2>3. head[p].running = "none" => hand[p][m] = "idle" /\ x.state # "applying" /\ x.undo # "applying"
    BY <2>1 DEF ItemRight, PlanRight
  <2>4. /\ y.attempted = x.attempted /\ y.done = x.done /\ y.undone = x.undone /\ y.origin = x.origin
        /\ y.state = x.state \/ (x.state \in {"applying", "pending"} /\ y.state \in {"failed", "uncertain"})
        /\ y.undo = x.undo \/ (x.undo = "applying" /\ y.undo \in {"available", "uncertain"})
        /\ y.state # "applying" /\ y.undo # "applying"
        /\ x.state = "applying" /\ x.attempted => y.state = "uncertain"
        /\ x.undo = "applying" /\ x.attempted => y.undo = "uncertain"
        /\ y.state = "pending" => head[p].running = "none"
        /\ head[p].running = "none" => y = x
        /\ (x.state # "applying" /\ x.state # "pending") => y.state = x.state
    <3>1. CASE head[p].running = "none"
      BY <2>1, <2>3, <3>1 DEF CutShort
    <3>2. CASE head[p].running # "none"
      BY <2>1, <3>2 DEF CutShort
    <3>3. QED
      BY <3>1, <3>2
  <2>5. x.attempted => Doubtful(y)
    <3>1. CASE hand[p][m] \in {"waiting", "done", "denied"}
      <4>1. x.state = "applying" \/ x.undo = "applying"
        BY <2>1, <3>1 DEF ItemRight, State
      <4>2. QED
        BY <2>4, <4>1 DEF Doubtful
    <3>2. CASE x.attempted => Doubtful(x)
      BY <2>4, <3>2 DEF Doubtful
    <3>3. QED
      BY <2>1, <3>1, <3>2 DEF ItemRight
  <2>6. m \notin head[p].items => y = NoItem
    <3>1. m \notin head[p].items => x = NoItem
      BY <2>1 DEF ItemRight
    <3>2. x = NoItem => x.state = "none" /\ x.undo = "unsupported"
      BY DEF NoItem
    <3>3. CASE head[p].running = "none"
      BY <2>1, <3>1, <3>3 DEF CutShort
    <3>4. CASE head[p].running # "none"
      BY <2>1, <3>1, <3>2, <3>4 DEF CutShort
    <3>5. QED
      BY <3>3, <3>4
  <2>7. ItemRight(p, m)'
    <3>1. "apply" \in Ways /\ "undo" \in Ways
      BY DEF Ways
    <3>2. head[p].state # "approved" => head[p].running = "none"
      BY <2>1 DEF PlanRight
    <3> HIDE DEF x, y
    <3>3. item'[p][m] = y /\ item[p][m] = x
      BY DEF x, y
    <3>4. /\ m \in head[p].items => y.state # "none"
          /\ head[p].state # "approved" => y.state \in {"none", "pending"} /\ ~y.attempted /\ y.done = 0
          /\ y.undo # "unsupported" => y.state = "applied" /\ ~Restore(p)
          /\ y.undo = "unsupported" => y.undone = 0
          /\ IF y.state = "applied" THEN y.done = Count(p, "apply") ELSE y.done < Count(p, "apply")
          /\ IF y.undo = "undone" THEN y.undone = Count(p, "undo") ELSE y.undone < Count(p, "undo")
      BY <2>1, <2>4, <3>2, <3>3 DEF ItemRight
    <3>5. QED
      BY <2>2, <2>4, <2>5, <2>6, <3>1, <3>3, <3>4 DEF ItemRight
  <2>8. ASSUME NEW way \in Ways, NEW k \in 1 .. 2 PROVE StepRight(p, m, way, k)'
    <3>1. StepRight(p, m, way, k)
      BY Known
    <3>2. Cursor(y, way) = Cursor(x, way)
      BY <2>4 DEF Cursor
    <3>3. State(x, way) \in {"uncertain", "observed"} => State(y, way) \in {"uncertain", "observed"}
      BY <2>4 DEF State
    <3>4. hand[p][m] \in {"waiting", "done"} /\ way = Way(p) => State(y, way) = "uncertain"
      <4>1. hand[p][m] \in {"waiting", "done"} => x.attempted /\ State(x, Way(p)) = "applying"
        BY <2>1 DEF ItemRight
      <4>2. QED
        BY <2>4, <4>1 DEF State
    <3>5. QED
      BY <2>2, <3>1, <3>2, <3>3, <3>4 DEF StepRight
  <2>9. LockRight(p, m)'
    <3>1. /\ lock'[m] = p => lock[m] = p
          /\ lock[m] = p /\ Unresolved(p, y, "none") => lock'[m] = p
      BY <2>1 DEF CutShort
    <3>2. (\/ y.state \in {"pending", "applying", "uncertain"} \/ y.undo \in {"applying", "uncertain"}
           \/ Restore(p) /\ y.state = "failed" /\ y.done > 0) /\ head[p].state = "approved"
          => lock[m] = p
      BY <2>1, <2>4 DEF LockRight
    <3>3. QED
      BY <2>1, <2>2, <3>1, <3>2 DEF LockRight, Unresolved
  <2>10. ClaimRight(p, m)'
    <3>1. lock'[m] = p => lock[m] = p
      BY <2>1 DEF CutShort
    <3>2. QED
      BY <2>1, <2>2, <2>4, <3>1 DEF ClaimRight
  <2>11. QED
    BY <2>7, <2>8, <2>9, <2>10 DEF Rows, CallRight
<1>4. IsFiniteSet(Approved)'
  BY <1>1 DEF Inv
<1>5. QED
  BY <1>1, <1>2, <1>3, <1>4 DEF Inv

\* What other programs and the owner's machine do changes no record.
LEMMA WorldInv ==
  ASSUME Inv, World, scenario' = scenario
  PROVE  Inv'
<1>1. CASE \E s \in wire : Land(s) \/ Refuse(s) \/ Lose(s)
  BY <1>1, ProviderInv
<1>2. CASE \E p \in Plans : Lapse(p)
  BY <1>2, TurnsInv
<1>3. CASE Restart
  BY <1>3, RestartInv
<1>4. CASE \/ \E m \in Messages : \/ Edit(m, [message[m] EXCEPT !.other = @ + 1])
                                  \/ \E folder \in Folders : Edit(m, [message[m] EXCEPT !.folder = folder])
           \/ Disconnect \/ Hold \/ Close
  <2>1. UNCHANGED <<head, item, lock, claim, job, hand, wire, landed>>
    BY <1>4 DEF Edit, Disconnect, Hold, Close, durable, working, outside
  <2>2. TypeOK
    BY DEF Inv
  <2>3. /\ message' \in [Messages -> Message] /\ connected' \in BOOLEAN /\ held' \in BOOLEAN /\ closed' \in BOOLEAN
        /\ edits' \in 0 .. MaxEdits
    <3>1. CASE Disconnect \/ Hold \/ Close
      BY <2>2, <3>1 DEF Disconnect, Hold, Close, outside, TypeOK
    <3>2. ASSUME NEW m \in Messages, NEW value \in Message, Edit(m, value)
          PROVE  message' \in [Messages -> Message] /\ edits' \in 0 .. MaxEdits
                 /\ UNCHANGED <<connected, held, closed>>
      BY <2>2, <3>2, TriageAssumption DEF Edit, TypeOK
    <3>3. \A m \in Messages : /\ [message[m] EXCEPT !.other = @ + 1] \in Message
                              /\ \A folder \in Folders : [message[m] EXCEPT !.folder = folder] \in Message
      <4>1. \A x \in Message : /\ [x EXCEPT !.other = @ + 1] \in Message
                               /\ \A folder \in Folders : [x EXCEPT !.folder = folder] \in Message
        BY DEF Message
      <4>2. QED
        BY <2>2, <4>1 DEF TypeOK
    <3>4. QED
      BY <1>4, <2>2, <3>1, <3>2, <3>3 DEF TypeOK
  <2>4. TypeOK'
    BY <2>1, <2>2, <2>3 DEF TypeOK
  <2>5. \A q \in Plans, n \in Messages : Same(q, n)
    BY <2>1 DEF Same
  <2>6. QED
    BY <2>1, <2>4, <2>5, AllKeep
<1>5. QED
  BY <1>1, <1>2, <1>3, <1>4 DEF World

\* Every step of a plan keeps what is said of all of them.
LEMMA PlanStepInv ==
  ASSUME Inv, NEW p \in Plans, PlanStep(p), scenario' = scenario
  PROVE  Inv'
<1>1. CASE \E action \in Actions \cap scenario, S \in SUBSET Messages : Prepare(p, action, S)
  BY <1>1, PrepareInv
<1>2. CASE \E decision \in Decisions \ {"none"} : Confirm(p, decision)
  BY <1>2, ConfirmInv
<1>3. CASE CancelReview(p) \/ ThreadsRead(p) \/ Refreshed(p) \/ Reconcile(p)
  BY <1>3, TurnsInv
<1>4. CASE ThreadsFail(p) \/ ItemsEnd(p) \/ InspectEnds(p)
  BY <1>4, SettlersSettle, SettleInv
<1>5. CASE \E m \in Messages :
             \/ ReadMessage(p, m) \/ Dispatch(p, m) \/ Answered(p, m) \/ ItemFails(p, m) \/ ItemUnclear(p, m)
             \/ Observed(p, m) \/ NotObserved(p, m)
  BY <1>5, ReadMessageInv, DispatchInv, AnsweredInv, FailsInv, UnclearInv, ObservedInv, NotObservedInv
<1>6. QED
  BY <1>1, <1>2, <1>3, <1>4, <1>5 DEF PlanStep

\* The invariant holds at the start.
LEMMA InitInv == Init => Inv
<1> SUFFICES ASSUME Init PROVE Inv
  OBVIOUS
<1>1. /\ \A p \in Plans : head[p] = NoHead /\ job[p] = NoJob
      /\ \A p \in Plans, m \in Messages : item[p][m] = NoItem /\ hand[p][m] = "idle"
      /\ \A m \in Messages : lock[m] = Nobody
      /\ wire = {} /\ \A s \in Steps : landed[s] = 0
  BY DEF Init
<1>2. TypeOK
  <2>1. NoHead \in Head /\ NoJob \in Job
    BY DEF NoHead, Head, NoJob, Job, Decisions, Actions
  <2>2. Start \in Message /\ NoItem \in Item
    BY DEF NoItem, Item, Start, Message, Folders
  <2> HIDE DEF Start, NoItem, NoHead, NoJob
  <2>3. /\ head \in [Plans -> Head] /\ job \in [Plans -> Job]
        /\ item \in [Plans -> [Messages -> Item]] /\ hand \in [Plans -> [Messages -> Hand]]
    BY <2>1, <2>2 DEF Init, Hand
  <2>4. /\ lock \in [Messages -> Plans \cup {Nobody}]
        /\ claim \in [Plans \X Messages -> Plans \cup {Nobody}]
    BY DEF Init
  <2>5. message \in [Messages -> Message] /\ wire \subseteq Steps /\ landed \in [Steps -> Nat]
    BY <2>2 DEF Init
  <2>6. connected \in BOOLEAN /\ held \in BOOLEAN /\ closed \in BOOLEAN /\ edits \in 0 .. MaxEdits
    <3>1. connected = TRUE /\ held = FALSE /\ closed = FALSE /\ edits = 0
      BY DEF Init
    <3>2. 0 \in 0 .. MaxEdits
      BY TriageAssumption
    <3>3. QED
      BY <3>1, <3>2
  <2>7. QED
    BY <2>3, <2>4, <2>5, <2>6 DEF TypeOK
<1>3. Approved = {}
  BY <1>1 DEF Approved, NoHead
<1>4. IsFiniteSet(Approved)
  BY <1>3, FS_EmptySet
<1>5. ASSUME NEW p \in Plans PROVE PlanRight(p)
  BY <1>1 DEF PlanRight, NoHead, NoJob, Restore
<1>6. ASSUME NEW p \in Plans, NEW m \in Messages PROVE Rows(p, m)
  <2>1. /\ NoHead.state = "none" /\ NoHead.items = {} /\ NoHead.action = "delete" /\ NoJob.at = "none"
        /\ NoItem.state = "none" /\ NoItem.undo = "unsupported" /\ ~NoItem.attempted
        /\ NoItem.done = 0 /\ NoItem.undone = 0
    BY DEF NoHead, NoItem, NoJob
  <2>2. head[p] = NoHead /\ job[p] = NoJob /\ item[p][m] = NoItem /\ hand[p][m] = "idle"
    BY <1>1
  <2>3. ~Restore(p) /\ Count(p, "apply") = 1 /\ Count(p, "undo") = 2
    BY <2>1, <2>2 DEF Restore, Count
  <2>4. ItemRight(p, m)
    BY <2>1, <2>2, <2>3 DEF ItemRight
  <2>5. ASSUME NEW way \in Ways, NEW k \in 1 .. 2 PROVE StepRight(p, m, way, k)
    <3>1. Cursor(item[p][m], way) = 0
      BY <1>1 DEF Cursor, NoItem
    <3>2. <<p, m, way, k>> \notin wire /\ landed[<<p, m, way, k>>] = 0
      BY <1>1 DEF Steps
    <3>3. QED
      BY <1>1, <3>1, <3>2 DEF StepRight
  <2>6. LockRight(p, m) /\ ClaimRight(p, m)
    <3>1. lock[m] # p
      BY <1>1, TriageAssumption
    <3>2. head[p].state # "approved"
      BY <2>1, <2>2
    <3>3. QED
      BY <2>3, <3>1, <3>2 DEF LockRight, ClaimRight
  <2>7. QED
    BY <2>4, <2>5, <2>6 DEF Rows, CallRight
<1>7. QED
  BY <1>2, <1>4, <1>5, <1>6 DEF Inv

\* Every step keeps it.
LEMMA NextInv == Inv /\ [Next]_vars => Inv'
<1> SUFFICES ASSUME Inv, [Next]_vars PROVE Inv'
  OBVIOUS
<1>1. CASE Next
  <2>1. scenario' = scenario
    BY <1>1 DEF Next
  <2>2. CASE World
    BY <2>1, <2>2, WorldInv
  <2>3. CASE \E p \in Plans : PlanStep(p)
    BY <2>1, <2>3, PlanStepInv
  <2>4. QED
    BY <1>1, <2>2, <2>3 DEF Next
<1>2. CASE UNCHANGED vars
  <2>1. /\ UNCHANGED <<head, item, lock, claim, job, hand, wire, landed>>
        /\ UNCHANGED <<message, connected, held, closed, edits>>
    BY <1>2 DEF vars, durable, working, outside, flags
  <2>2. TypeOK'
    BY <2>1 DEF Inv, TypeOK
  <2>3. \A q \in Plans, n \in Messages : Same(q, n)
    BY <2>1 DEF Same
  <2>4. QED
    BY <2>1, <2>2, <2>3, AllKeep
<1>3. QED
  BY <1>1, <1>2

\* The invariant holds in every reachable state.
THEOREM InvHolds == Spec => []Inv
<1>1. QED
  BY InitInv, NextInv, PTL DEF Spec

\* The types hold in every reachable state.
THEOREM TriageTypes == Spec => []TypeOK
<1>1. Inv => TypeOK
  BY DEF Inv
<1>2. QED
  BY <1>1, InvHolds, PTL

-----------------------------------------------------------------------------
(* One plan for a message.                                                 *)

\* A message with an unsettled change is its plan's.
LEMMA LockedRight == Inv => OneHandPerMessage
<1> SUFFICES ASSUME Inv, NEW m \in Messages, NEW p \in Plans, NEW q \in Plans, Unsettled(p, m), Unsettled(q, m)
             PROVE  p = q
  BY DEF OneHandPerMessage
<1>1. ASSUME NEW r \in Plans, Unsettled(r, m) PROVE lock[m] = r
  BY <1>1, Known DEF Unsettled, ItemRight, LockRight
<1>2. QED
  BY <1>1

\* No two plans have a change of the same message unsettled (the locks of
\* provider-mail-triage and what releases them).
THEOREM MessagesHaveOneHand == Spec => []OneHandPerMessage
<1>1. QED
  BY InvHolds, LockedRight, PTL

\* A restore that has sent anything holds the claim on its delete.
LEMMA ClaimedRight == Inv => RestoredOnce
<1> SUFFICES ASSUME Inv, NEW p \in Plans, NEW r \in Plans, NEW m \in head[p].items \cap head[r].items,
                    p # r, Restore(p), Restore(r), item[p][m].origin = item[r][m].origin
             PROVE  \E s \in {p, r} : <<s, m, "apply", 1>> \notin wire /\ landed[<<s, m, "apply", 1>>] = 0
  BY DEF RestoredOnce
<1>1. m \in Messages
  BY DEF Inv, TypeOK, Head
<1>2. ASSUME NEW s \in Plans, NEW o \in {item[s][m].origin}, Restore(s), m \in head[s].items, claim[o, m] # s
      PROVE  <<s, m, "apply", 1>> \notin wire /\ landed[<<s, m, "apply", 1>>] = 0
  <2>1. <<s, m, "apply", 1>> \in Steps
    BY <1>1 DEF Steps, Ways
  <2>2. landed[<<s, m, "apply", 1>>] \in Nat
    BY <2>1 DEF Inv, TypeOK
  <2>3. ClaimRight(s, m)
    BY <1>1, Known
  <2>4. <<s, m, "apply", 1>> \notin wire /\ ~(landed[<<s, m, "apply", 1>>] > 0)
    BY <1>2, <2>3 DEF ClaimRight
  <2>5. QED
    BY <2>2, <2>4
<1>3. claim[item[p][m].origin, m] # p \/ claim[item[r][m].origin, m] # r
  OBVIOUS
<1>4. QED
  BY <1>2, <1>3

\* A deleted message is restored by one plan at most (the claims of restores
\* and when another restore may take one over).
THEOREM DeletesAreRestoredOnce == Spec => []RestoredOnce
<1>1. QED
  BY InvHolds, ClaimedRight, PTL

-----------------------------------------------------------------------------
(* Requests.                                                               *)

\* What SentByItsOwner says of one step.
OwnerStep ==
  \A s \in wire' \ wire :
    LET p == s[1]
        m == s[2] IN
    /\ lock[m] = p /\ connected /\ ~held /\ ~closed
    /\ Restore(p) => LET q == item[p][m].origin IN
         claim[q, m] = p /\ item[q][m].undo = "available"

\* Only the function of a plan makes requests.
LEMMA OnlyDispatchSends ==
  ASSUME Next, ~(\E p \in Plans, m \in Messages : Dispatch(p, m))
  PROVE  wire' \ wire = {}
<1>1. CASE World
  BY <1>1 DEF World, Land, Refuse, Lose, Over, Edit, Lapse, Disconnect, Hold, Close, Restart, outside
<1>2. ASSUME NEW p \in Plans, PlanStep(p) PROVE wire' \ wire = {}
  BY <1>2 DEF PlanStep, Prepare, Confirm, CancelReview, ThreadsRead, ThreadsFail, ItemsEnd, Refreshed,
              Reconcile, InspectEnds, Settle, ReadMessage, Answered, ItemFails, ItemUnclear, Leaves,
              Observed, NotObserved, outside
<1>3. QED
  BY <1>1, <1>2 DEF Next

\* Every request keeps what SentByItsOwner says, by the lock and the claim of its plan.
LEMMA OwnerKept == Inv /\ [Next]_vars => OwnerStep
<1> SUFFICES ASSUME Inv, [Next]_vars, NEW s \in wire' \ wire
             PROVE  /\ lock[s[2]] = s[1] /\ connected /\ ~held /\ ~closed
                    /\ Restore(s[1]) => /\ claim[item[s[1]][s[2]].origin, s[2]] = s[1]
                                        /\ item[item[s[1]][s[2]].origin][s[2]].undo = "available"
  BY DEF OwnerStep
<1>1. CASE UNCHANGED vars
  BY <1>1 DEF vars, outside
<1>2. CASE Next
  <2>1. PICK p \in Plans, m \in Messages : Dispatch(p, m)
    BY <1>2, OnlyDispatchSends
  <2>2. scenario' = scenario
    BY <1>2 DEF Next
  <2>3. /\ m \in head[p].items /\ lock[m] = p /\ ~closed /\ ~held /\ connected
        /\ Restore(p) => RestoreSource(p, m)
        /\ wire' = wire \cup {<<p, m, Way(p), Cursor(item[p][m], Way(p)) + 1>>}
    BY <2>1, <2>2, DispatchIs
  <2>4. s[1] = p /\ s[2] = m
    BY <2>3
  <2>5. Restore(p) => claim[item[p][m].origin, m] = p
    BY <2>3, Known DEF ClaimRight
  <2>6. Restore(p) => item[item[p][m].origin][m].undo = "available"
    BY <2>3 DEF RestoreSource, SourceStands
  <2>7. QED
    BY <2>3, <2>4, <2>5, <2>6
<1>3. QED
  BY <1>1, <1>2

\* A request leaves only for the plan that holds its message, and a restore's
\* only while the delete it takes back stands and is claimed by it (dispatch in
\* provider-mail-triage: only a restore asks for its lock, none for its claim).
THEOREM RequestsAreOwned == Spec => SentByItsOwner
<1>1. Inv /\ [Next]_vars => [OwnerStep]_vars
  BY OwnerKept
<1>2. QED
  BY <1>1, InvHolds, PTL DEF Spec, SentByItsOwner, OwnerStep

-----------------------------------------------------------------------------
(* Each step of each message implements DurableEffect.                     *)

Shown == INSTANCE DurableEffectProofs WITH Effects <- Steps, effect <- Abstract

\* What a step of the program does to step k of a message, as its record, its
\* request and its change tell it.
Turn(p, m, way, k) ==
  LET s          == <<p, m, way, k>>
      from(c, d) == Claim(p, m, way, k) = c /\ Claim(p, m, way, k)' = d
      quiet      == s \notin wire /\ s \notin wire' /\ landed'[s] = landed[s] IN
  \/ Claim(p, m, way, k)' = Claim(p, m, way, k) /\ (s \in wire' <=> s \in wire) /\ landed'[s] = landed[s]
  \/ from("unsent", "pending") /\ quiet
  \/ from("pending", "maybe") /\ s \notin wire /\ s \in wire' /\ landed'[s] = landed[s]
  \/ from("pending", "unsent") /\ quiet
  \/ from("maybe", "unsent") /\ quiet /\ landed[s] = 0
  \/ from("maybe", "known") /\ quiet /\ landed[s] = 1
  \/ /\ from("maybe", "maybe") /\ s \in wire /\ s \notin wire'
     /\ landed'[s] \in {landed[s], landed[s] + 1}

\* Such a turn is a move of DurableEffect, or none.
LEMMA TurnIsMove ==
  ASSUME NEW p \in Plans, NEW m \in Messages, NEW way \in Ways, NEW k \in 1 .. 2,
         landed[<<p, m, way, k>>] \in Nat, Turn(p, m, way, k)
  PROVE  LET s == <<p, m, way, k>> IN
         Abstract'[s] = Abstract[s] \/ Promise!Move(Abstract[s], Abstract'[s])
<1> DEFINE s == <<p, m, way, k>>
           n == landed[s]
<1>0. s \in Steps
  BY DEF Steps
<1>1. /\ Abstract[s] = Shown!E(Claim(p, m, way, k), IF s \in wire THEN 1 ELSE 0, landed[s])
      /\ Abstract'[s] = Shown!E(Claim(p, m, way, k)', IF s \in wire' THEN 1 ELSE 0, landed'[s])
  BY <1>0 DEF Abstract, Shown!E
<1>2. \A x, y : Shown!Move(x, y) <=> Promise!Move(x, y)
  BY DEF Promise!Move, Promise!Ask, Promise!Dispatch, Promise!Withdraw, Promise!Doubt, Promise!Refuse,
         Promise!Learn, Promise!Land, Promise!Lose, Shown!Move, Shown!Ask, Shown!Dispatch,
         Shown!Withdraw, Shown!Doubt, Shown!Refuse, Shown!Learn, Shown!Land, Shown!Lose
<1>3. \A i \in Nat :
        /\ Shown!Move(Shown!E("unsent", 0, i), Shown!E("pending", 0, i))
        /\ Shown!Move(Shown!E("pending", 0, i), Shown!E("maybe", 1, i))
        /\ Shown!Move(Shown!E("pending", 0, i), Shown!E("unsent", 0, i))
        /\ Shown!Move(Shown!E("maybe", 0, 0), Shown!E("unsent", 0, 0))
        /\ Shown!Move(Shown!E("maybe", 0, 1), Shown!E("known", 0, 1))
        /\ \A c : /\ Shown!Move(Shown!E(c, 1, i), Shown!E(c, 0, i + 1))
                  /\ Shown!Move(Shown!E(c, 1, i), Shown!E(c, 0, i))
  BY Shown!Moves
<1>4. QED
  BY <1>1, <1>2, <1>3 DEF Turn

\* What the record of a message says of its next step in a way.
Now(p, m, way) ==
  LET x == item[p][m] IN
  IF State(x, way) \in {"uncertain", "observed"} \/ (State(x, way) = "applying" /\ x.attempted) THEN "maybe"
  ELSE IF Way(p) = way /\ head[p].running # "none" /\ State(x, way) \in {"pending", "applying", "available"}
       THEN "pending" ELSE "unsent"

\* The steps before the next one are known and those after it are not asked for.
LEMMA ClaimIs ==
  ASSUME NEW p \in Plans, NEW m \in Messages, NEW way \in Ways, NEW k \in 1 .. 2
  PROVE  /\ k <= Cursor(item[p][m], way) => Claim(p, m, way, k) = "known"
         /\ ~(k <= Cursor(item[p][m], way)) /\ k > Cursor(item[p][m], way) + 1 => Claim(p, m, way, k) = "unsent"
         /\ ~(k <= Cursor(item[p][m], way)) /\ ~(k > Cursor(item[p][m], way) + 1)
            => Claim(p, m, way, k) = Now(p, m, way)
BY DEF Claim, Now, State

\* A request under way, or over with its change made, is of a step that may have happened.
LEMMA Covered ==
  ASSUME Inv, NEW p \in Plans, NEW m \in Messages, NEW way \in Ways, NEW k \in 1 .. 2
  PROVE  <<p, m, way, k>> \in wire => Claim(p, m, way, k) = "maybe"
<1> SUFFICES ASSUME <<p, m, way, k>> \in wire PROVE Claim(p, m, way, k) = "maybe"
  OBVIOUS
<1>1. StepRight(p, m, way, k) /\ ItemRight(p, m) /\ item[p][m].done \in 0 .. 2 /\ item[p][m].undone \in 0 .. 2
  BY Known, Typed
<1>2. k = Cursor(item[p][m], way) + 1
  BY <1>1 DEF StepRight
<1>3. State(item[p][m], way) \in {"uncertain", "observed"} \/ (State(item[p][m], way) = "applying" /\ item[p][m].attempted)
  BY <1>1 DEF StepRight, ItemRight
<1>4. Now(p, m, way) = "maybe"
  BY <1>3 DEF Now
<1>5. Cursor(item[p][m], way) \in 0 .. 2
  BY <1>1 DEF Cursor
<1>6. QED
  BY <1>2, <1>4, <1>5, ClaimIs

\* A program step that leaves a message's requests alone and only changes what is
\* said of its next step.
LEMMA NowTurns ==
  ASSUME Inv, NEW p \in Plans, NEW m \in Messages, NEW way \in Ways, NEW k \in 1 .. 2,
         <<p, m, way, k>> \in wire' <=> <<p, m, way, k>> \in wire,
         landed'[<<p, m, way, k>>] = landed[<<p, m, way, k>>],
         Cursor(item[p][m], way)' = Cursor(item[p][m], way),
         \/ Now(p, m, way)' = Now(p, m, way)
         \/ Now(p, m, way) = "unsent" /\ Now(p, m, way)' = "pending"
         \/ Now(p, m, way) = "pending" /\ Now(p, m, way)' = "unsent"
         \/ /\ Now(p, m, way) = "maybe" /\ Now(p, m, way)' = "unsent"
            /\ k = Cursor(item[p][m], way) + 1 => <<p, m, way, k>> \notin wire /\ landed[<<p, m, way, k>>] = 0
  PROVE  Turn(p, m, way, k)
<1>1. item[p][m].done \in 0 .. 2 /\ item[p][m].undone \in 0 .. 2
  BY Known, Typed
<1>2. Cursor(item[p][m], way) \in 0 .. 2
  BY <1>1 DEF Cursor
<1>3. PICK c \in 0 .. 2 : c = Cursor(item[p][m], way)
  BY <1>2
<1>4. c = Cursor(item[p][m], way)'
  BY <1>3
<1>5. /\ k <= c => Claim(p, m, way, k) = "known"
      /\ k > c + 1 => Claim(p, m, way, k) = "unsent"
      /\ k = c + 1 => Claim(p, m, way, k) = Now(p, m, way)
  BY <1>3, ClaimIs
<1>6. /\ k <= c => Claim(p, m, way, k)' = "known"
      /\ k > c + 1 => Claim(p, m, way, k)' = "unsent"
      /\ k = c + 1 => Claim(p, m, way, k)' = Now(p, m, way)'
  BY <1>4 DEF Claim, Now, State
<1>7. <<p, m, way, k>> \in wire => Claim(p, m, way, k) = "maybe"
  BY Covered
<1>8. CASE k <= c
  BY <1>5, <1>6, <1>8 DEF Turn
<1>9. CASE k > c + 1
  BY <1>5, <1>6, <1>9 DEF Turn
<1>10. CASE k = c + 1
  BY <1>3, <1>5, <1>6, <1>7, <1>10 DEF Turn
<1>11. QED
  BY <1>8, <1>9, <1>10

\* A program step that leaves a message alone.
LEMMA SameTurns ==
  ASSUME NEW p \in Plans, NEW m \in Messages, NEW way \in Ways, NEW k \in 1 .. 2,
         head'[p] = head[p], item'[p][m] = item[p][m],
         <<p, m, way, k>> \in wire' <=> <<p, m, way, k>> \in wire,
         landed'[<<p, m, way, k>>] = landed[<<p, m, way, k>>]
  PROVE  Turn(p, m, way, k)
BY DEF Turn, Claim, Cursor, Way

\* Steps that keep every record of a message and every plan's decision.
LEMMA QuietTurns ==
  ASSUME Inv, NEW p \in Plans, scenario' = scenario,
         CancelReview(p) \/ Lapse(p) \/ ThreadsRead(p) \/ Refreshed(p) \/ Reconcile(p),
         NEW q \in Plans, NEW n \in Messages, NEW way \in Ways, NEW k \in 1 .. 2
  PROVE  Turn(q, n, way, k)
<1>1. UNCHANGED <<item, wire, landed>>
  BY DEF CancelReview, Lapse, ThreadsRead, Refreshed, Reconcile, durable, outside
<1>2. head'[q].running = head[q].running
  <2>1. head' = head \/ head' = [head EXCEPT ![p].state = "cancelled"] \/ head' = [head EXCEPT ![p].late = TRUE]
    BY DEF CancelReview, Lapse, ThreadsRead, Refreshed, Reconcile, durable
  <2>2. head \in [Plans -> Head]
    BY DEF Inv, TypeOK
  <2>3. QED
    BY <2>1, <2>2 DEF Head
<1>3. QED
  BY <1>1, <1>2 DEF Turn, Claim, Cursor, Way

\* A review asks for nothing.
LEMMA PrepareTurns ==
  ASSUME Inv, NEW p \in Plans, NEW action \in Actions, NEW S \in SUBSET Messages, Prepare(p, action, S),
         scenario' = scenario,
         NEW q \in Plans, NEW n \in Messages, NEW way \in Ways, NEW k \in 1 .. 2
  PROVE  Turn(q, n, way, k)
<1>1. /\ wire' = wire /\ landed' = landed
      /\ head[p].running = "none" /\ head'[p].running = "none"
      /\ item[p][n] = NoItem
      /\ n \notin S => item'[p][n] = NoItem
      /\ n \in S => item'[p][n].state = "pending" /\ item'[p][n].undo = "unsupported"
                    /\ item'[p][n].done = 0 /\ item'[p][n].undone = 0
      /\ q # p => Same(q, n)
  BY PrepareIs
<1>2. CASE q # p
  BY <1>1, <1>2, SameTurns DEF Same
<1>3. CASE q = p
  <2>1. /\ NoItem.state = "none" /\ NoItem.undo = "unsupported" /\ NoItem.done = 0 /\ NoItem.undone = 0
    BY DEF NoItem
  <2>2. /\ item[p][n].state = "none" /\ item[p][n].undo = "unsupported"
        /\ item[p][n].done = 0 /\ item[p][n].undone = 0
        /\ item'[p][n].state \in {"none", "pending"} /\ item'[p][n].undo = "unsupported"
        /\ item'[p][n].done = 0 /\ item'[p][n].undone = 0
    BY <1>1, <2>1
  <2>3. Cursor(item[p][n], way)' = Cursor(item[p][n], way)
    BY <2>2 DEF Cursor
  <2>4. Now(p, n, way) = "unsent" /\ Now(p, n, way)' = "unsent"
    BY <1>1, <2>2 DEF Now, State
  <2>5. QED
    BY <1>1, <1>3, <2>3, <2>4, NowTurns
<1>4. QED
  BY <1>2, <1>3

\* A decision asks for the next step of the messages it is about.
LEMMA ConfirmTurns ==
  ASSUME Inv, NEW p \in Plans, NEW decision \in Decisions \ {"none"}, Confirm(p, decision), scenario' = scenario,
         NEW q \in Plans, NEW n \in Messages, NEW way \in Ways, NEW k \in 1 .. 2
  PROVE  Turn(q, n, way, k)
<1>1. /\ wire' = wire /\ landed' = landed
      /\ head[p].running = "none" /\ Decided(p, decision, n)
      /\ q # p => head'[q] = head[q] /\ item'[q] = item[q]
  BY ConfirmIs
<1>2. CASE q # p
  BY <1>1, <1>2, SameTurns
<1>3. CASE q = p
  <2> DEFINE x == item[p][n]
             y == item'[p][n]
  <2>1. /\ y.undo = x.undo /\ y.attempted = x.attempted /\ y.done = x.done /\ y.undone = x.undone
        /\ y.state = x.state \/ (x.state = "failed" /\ y.state = "pending")
    BY <1>1 DEF Decided, Selected
  <2>2. State(x, way) # "applying"
    BY <1>1, Known DEF ItemRight, PlanRight, State
  <2>3. /\ State(y, way) = State(x, way) \/ (State(x, way) = "failed" /\ State(y, way) = "pending")
    BY <2>1 DEF State
  <2>4. Cursor(item[p][n], way)' = Cursor(item[p][n], way)
    BY <2>1 DEF Cursor
  <2>5. Now(p, n, way) \in {"unsent", "maybe"}
    BY <1>1 DEF Now
  <2>6. Now(p, n, way) = "maybe" <=> State(x, way) \in {"uncertain", "observed"}
    BY <1>1, <2>2 DEF Now
  <2>7. Now(p, n, way)' = "maybe" <=> State(x, way) \in {"uncertain", "observed"}
    BY <2>2, <2>3 DEF Now
  <2>8. Now(p, n, way)' \in {"unsent", "pending", "maybe"}
    BY DEF Now
  <2>9. QED
    BY <1>1, <1>3, <2>4, <2>5, <2>6, <2>7, <2>8, NowTurns
<1>4. QED
  BY <1>2, <1>3

\* The end of a function asks for nothing more.
LEMMA SettleTurns ==
  ASSUME Inv, NEW p \in Plans, NEW x, Settle(p, x), x = [m \in Messages |-> x[m]], Settles(p, x), scenario' = scenario,
         head[p].state = "approved",
         NEW q \in Plans, NEW n \in Messages, NEW way \in Ways, NEW k \in 1 .. 2
  PROVE  Turn(q, n, way, k)
<1>1. /\ wire' = wire /\ landed' = landed /\ head'[p].running = "none"
      /\ item'[p][n] = x[n] /\ x[n] \in Item /\ q # p => Same(q, n)
  BY SettleIs
<1>2. CASE q # p
  BY <1>1, <1>2, SameTurns, SettleIs DEF Same
<1>3. CASE q = p
  <2> DEFINE z == item[p][n]
             y == x[n]
  <2>1. z \in Item /\ z.state # "applying" /\ z.undo # "applying"
    BY Known, Typed DEF Settles
  <2>2. /\ y.attempted = z.attempted /\ y.done = z.done /\ y.undone = z.undone /\ y.undo = z.undo
        /\ y.state = z.state \/ (z.state = "pending" /\ y.state = "failed")
    BY <2>1 DEF Settles, Item
  <2> HIDE DEF y
  <2>3. item'[p][n] = y
    BY <1>1, <1>3, SettleIs DEF y
  <2>4. Cursor(item[p][n], way)' = Cursor(item[p][n], way)
    BY <2>2, <2>3 DEF Cursor
  <2>5. State(z, way) # "applying" /\ (State(y, way) = State(z, way) \/ (State(z, way) = "pending" /\ State(y, way) = "failed"))
    BY <2>1, <2>2 DEF State
  <2>6. Now(p, n, way) = "maybe" <=> State(z, way) \in {"uncertain", "observed"}
    BY <2>5 DEF Now
  <2>7. Now(p, n, way)' = "maybe" <=> State(z, way) \in {"uncertain", "observed"}
    BY <2>3, <2>5 DEF Now
  <2>8. Now(p, n, way) \in {"unsent", "pending", "maybe"} /\ Now(p, n, way)' \in {"unsent", "maybe"}
    <3>1. head'[p].running = "none"
      BY SettleIs
    <3>2. QED
      BY <3>1 DEF Now
  <2>9. wire' = wire /\ landed' = landed
    BY SettleIs
  <2>10. QED
    BY <1>3, <2>4, <2>6, <2>7, <2>8, <2>9, NowTurns
<1>4. QED
  BY <1>2, <1>3

\* A restart asks for nothing more, and what may have been sent stays so.
LEMMA RestartTurns ==
  ASSUME Inv, Restart, scenario' = scenario,
         NEW p \in Plans, NEW m \in Messages, NEW way \in Ways, NEW k \in 1 .. 2
  PROVE  Turn(p, m, way, k)
<1> DEFINE x == item[p][m]
           y == item'[p][m]
<1>1. wire' = wire /\ landed' = landed /\ head'[p].running = "none" /\ CutShort(p, m)
  BY RestartIs
<1>2. ItemRight(p, m) /\ PlanRight(p) /\ x \in Item
  BY Known, Typed
<1>3. /\ y.attempted = x.attempted /\ y.done = x.done /\ y.undone = x.undone
      /\ head[p].running = "none" => y = x
  BY <1>1 DEF CutShort
<1>4. Cursor(item[p][m], way)' = Cursor(item[p][m], way)
  BY <1>3 DEF Cursor
<1>5. Now(p, m, way) \in {"unsent", "pending", "maybe"} /\ Now(p, m, way)' \in {"unsent", "maybe"}
  BY <1>1 DEF Now
<1>6. CASE head[p].running = "none"
  <2>1. Now(p, m, way)' = Now(p, m, way)
    BY <1>1, <1>3, <1>6 DEF Now
  <2>2. QED
    BY <1>1, <1>4, <2>1, NowTurns
<1>7. CASE head[p].running # "none"
  <2>1. /\ State(x, way) \in {"uncertain", "observed"} => State(y, way) = State(x, way)
        /\ State(x, way) = "applying" /\ x.attempted => State(y, way) = "uncertain"
    BY <1>1, <1>7 DEF CutShort, State
  <2>2. State(y, way) # "applying"
    BY <1>1, <1>7 DEF CutShort, State
  <2>3. State(y, way) \in {"uncertain", "observed"} =>
          State(x, way) = State(y, way) \/ (State(x, way) = "applying" /\ x.attempted)
    <3>1. CASE way = "undo"
      BY <1>1, <1>2, <1>7, <3>1 DEF CutShort, State, Item
    <3>2. CASE way # "undo"
      BY <1>1, <1>2, <1>7, <3>2 DEF CutShort, State, Item, ItemRight
    <3>3. QED
      BY <3>1, <3>2
  <2>4. Now(p, m, way) = "maybe" <=> State(y, way) \in {"uncertain", "observed"}
    BY <2>1, <2>3 DEF Now
  <2>5. Now(p, m, way)' = "maybe" <=> State(y, way) \in {"uncertain", "observed"}
    BY <2>2 DEF Now
  <2>6. QED
    BY <1>1, <1>4, <1>5, <2>4, <2>5, NowTurns
<1>8. QED
  BY <1>6, <1>7

\* A request leaves for the next step.
LEMMA DispatchTurns ==
  ASSUME Inv, NEW p \in Plans, NEW m \in Messages, Dispatch(p, m), scenario' = scenario,
         NEW way \in Ways, NEW k \in 1 .. 2
  PROVE  Turn(p, m, way, k)
<1> DEFINE x == item[p][m]
           c == Cursor(x, Way(p))
           s == <<p, m, Way(p), c + 1>>
<1>1. /\ ~x.attempted /\ State(x, Way(p)) \in {"pending", "applying", "available"}
      /\ head' = head /\ landed' = landed /\ wire' = wire \cup {s} /\ head[p].running # "none"
      /\ Way(p) \in Ways
  BY DispatchIs
<1>2. PICK y \in Item :
        /\ item'[p][m] = y
        /\ y.attempted /\ y.origin = x.origin /\ y.done = x.done /\ y.undone = x.undone
        /\ Way(p) = "undo" => y.undo = "applying" /\ y.state = x.state
        /\ Way(p) # "undo" => y.state = "applying" /\ y.undo = x.undo
  BY DispatchIs
<1>3. Way(p)' = Way(p) /\ Cursor(item[p][m], way)' = Cursor(item[p][m], way)
  BY <1>1, <1>2 DEF Way, Cursor
<1>4. ItemRight(p, m) /\ x.done \in 0 .. 2 /\ x.undone \in 0 .. 2
  BY Known, Typed
<1>5. <<p, m, way, k>> \in wire' <=> <<p, m, way, k>> \in wire \/ (way = Way(p) /\ k = c + 1)
  BY <1>1
<1>6. landed'[<<p, m, way, k>>] = landed[<<p, m, way, k>>]
  BY <1>1
<1>7. CASE way = Way(p)
  <2>1. State(y, way) = "applying" /\ y.attempted
    BY <1>2, <1>7 DEF State
  <2>2. Now(p, m, way) = "pending" /\ Now(p, m, way)' = "maybe"
    BY <1>1, <1>2, <1>3, <1>7, <2>1 DEF Now
  <2>3. c \in 0 .. 2
    BY <1>4 DEF Cursor
  <2>4. PICK i \in 0 .. 2 : i = c /\ i = Cursor(x, way) /\ i = Cursor(item[p][m], way)'
    BY <1>3, <1>7, <2>3
  <2>5. /\ k <= i => Claim(p, m, way, k) = "known" /\ Claim(p, m, way, k)' = "known"
        /\ k > i + 1 => Claim(p, m, way, k) = "unsent" /\ Claim(p, m, way, k)' = "unsent"
        /\ k = i + 1 => Claim(p, m, way, k) = "pending" /\ Claim(p, m, way, k)' = "maybe"
    BY <2>2, <2>4 DEF Claim, Now, State
  <2>6. <<p, m, way, k>> \in wire => Claim(p, m, way, k) = "maybe"
    BY Covered
  <2> HIDE DEF c
  <2>7. <<p, m, way, k>> \in wire' <=> <<p, m, way, k>> \in wire \/ k = i + 1
    BY <1>5, <1>7, <2>4
  <2>8. CASE k = i + 1
    BY <1>6, <2>5, <2>6, <2>7, <2>8 DEF Turn
  <2>9. CASE k # i + 1
    <3>1. Claim(p, m, way, k)' = Claim(p, m, way, k)
      BY <2>5, <2>9
    <3>2. QED
      BY <1>6, <2>7, <2>9, <3>1 DEF Turn
  <2>10. QED
    BY <2>8, <2>9
<1>8. CASE way # Way(p)
  <2>1. State(y, way) = State(x, way)
    BY <1>1, <1>2, <1>8 DEF State, Ways
  <2>2. State(x, way) # "applying"
    BY <1>1, <1>4, <1>8 DEF State, ItemRight, Ways, Way
  <2>3. Now(p, m, way)' = Now(p, m, way)
    BY <1>2, <1>3, <1>8, <2>1, <2>2 DEF Now
  <2>4. QED
    BY <1>3, <1>5, <1>6, <1>8, <2>3, NowTurns
<1>9. QED
  BY <1>7, <1>8

\* What the function of a plan knows of the way it does not go.
LEMMA OtherWay ==
  ASSUME Inv, NEW p \in Plans, NEW m \in Messages, NEW way \in Ways, way # Way(p)
  PROVE  State(item[p][m], way) # "applying"
BY Known DEF State, ItemRight, Way, Ways

\* A step that is answered is known, and the next one is asked for.
LEMMA AnsweredTurns ==
  ASSUME Inv, NEW p \in Plans, NEW m \in Messages, Answered(p, m), scenario' = scenario,
         NEW way \in Ways, NEW k \in 1 .. 2
  PROVE  Turn(p, m, way, k)
<1> DEFINE x == item[p][m]
           c == Cursor(x, Way(p))
           last == c + 1 = Count(p, Way(p))
<1>1. PICK y \in Item :
           /\ Leaves(p, m, y)
           /\ ~y.attempted
           /\ Way(p) = "undo" => /\ y.undone = c + 1 /\ y.undo = (IF last THEN "undone" ELSE "available")
                                 /\ y.done = x.done /\ y.state = x.state
           /\ Way(p) # "undo" => /\ y.done = c + 1 /\ y.state = (IF last THEN "applied" ELSE "applying")
                                 /\ y.undo = (IF Restore(p) THEN "unsupported" ELSE "available")
                                 /\ y.undone = x.undone
  BY AnsweredIs
<1>2. item'[p][m] = y /\ head' = head /\ wire' = wire /\ landed' = landed /\ Way(p)' = Way(p)
  BY <1>1, LeavesIs, Known DEF Way
<1>3. hand[p][m] = "done"
  BY DEF Answered
<1>4. /\ ItemRight(p, m) /\ x.done \in 0 .. 2 /\ x.undone \in 0 .. 2 /\ x \in Item
      /\ StepRight(p, m, way, k)
  BY Known, Typed
<1>5. x.attempted /\ State(x, Way(p)) = "applying" /\ Way(p) \in Ways
  BY <1>3, <1>4 DEF ItemRight, Way, Ways
<1>6. c \in 0 .. 2
  BY <1>4 DEF Cursor
<1>7. PICK i \in 0 .. 2 : i = c
  BY <1>6
<1> HIDE DEF c
<1>8. CASE way = Way(p)
  <2>1. Cursor(item[p][m], way)' = i + 1 /\ Cursor(item[p][m], way) = i
    BY <1>1, <1>2, <1>7, <1>8 DEF Cursor, c
  <2>2. Now(p, m, way) = "maybe"
    BY <1>5, <1>8 DEF Now
  <2>3. State(y, way) \notin {"uncertain", "observed"} /\ ~y.attempted
    BY <1>1, <1>8 DEF State
  <2>4. Now(p, m, way)' \in {"unsent", "pending"}
    BY <1>2, <2>3 DEF Now
  <2>5. /\ k <= i => Claim(p, m, way, k) = "known" /\ Claim(p, m, way, k)' = "known"
        /\ k = i + 1 => Claim(p, m, way, k) = "maybe" /\ Claim(p, m, way, k)' = "known"
        /\ k > i + 1 => Claim(p, m, way, k) = "unsent" /\ Claim(p, m, way, k)' \in {"unsent", "pending"}
    <3>1. /\ k <= i => Claim(p, m, way, k) = "known"
          /\ k > i + 1 => Claim(p, m, way, k) = "unsent"
          /\ k = i + 1 => Claim(p, m, way, k) = "maybe"
      BY <2>1, <2>2 DEF Claim, Now, State
    <3>2. /\ k <= i + 1 => Claim(p, m, way, k)' = "known"
          /\ k > i + 1 => Claim(p, m, way, k)' \in {"unsent", "pending"}
      BY <2>1, <2>4 DEF Claim, Now, State
    <3>3. QED
      BY <3>1, <3>2
  <2>6. /\ <<p, m, way, k>> \in wire => Claim(p, m, way, k) = "maybe"
        /\ <<p, m, way, k>> \in wire => landed[<<p, m, way, k>>] = 0
        /\ k = i + 1 => landed[<<p, m, way, k>>] = 1
    BY <1>3, <1>4, <1>8, <2>1, Covered DEF StepRight
  <2>7. wire' = wire /\ landed'[<<p, m, way, k>>] = landed[<<p, m, way, k>>]
    BY <1>2
  <2>8. CASE k <= i
    BY <2>5, <2>7, <2>8 DEF Turn
  <2>9. CASE k = i + 1
    <3>1. <<p, m, way, k>> \notin wire
      BY <2>6, <2>9
    <3>2. QED
      BY <2>5, <2>6, <2>7, <2>9, <3>1 DEF Turn
  <2>10. CASE k > i + 1
    <3>1. <<p, m, way, k>> \notin wire
      BY <2>5, <2>6, <2>10
    <3>2. QED
      BY <2>5, <2>7, <2>10, <3>1 DEF Turn
  <2>11. QED
    BY <2>8, <2>9, <2>10
<1>9. CASE way # Way(p)
  <2>1. State(x, way) # "applying"
    BY <1>9, OtherWay
  <2>2. /\ Cursor(item[p][m], way)' = Cursor(item[p][m], way)
        /\ State(y, way) = State(x, way) \/ (way = "undo" /\ x.undo = "unsupported" /\ State(y, way) \in {"available", "unsupported"})
    <3>1. CASE Way(p) = "undo"
      BY <1>1, <1>2, <1>9, <3>1 DEF Cursor, State, Ways
    <3>2. CASE Way(p) # "undo"
      <4>1. x.state = "applying"
        BY <1>5, <3>2 DEF State
      <4>2. x.undo = "unsupported" /\ way = "undo"
        BY <1>4, <1>5, <1>9, <3>2, <4>1 DEF ItemRight, Ways
      <4>3. QED
        BY <1>1, <1>2, <3>2, <4>2 DEF Cursor, State
    <3>3. QED
      BY <3>1, <3>2
  <2>3. Now(p, m, way)' = Now(p, m, way)
    <3>1. CASE State(y, way) = State(x, way)
      BY <1>2, <1>9, <2>1, <3>1 DEF Now
    <3>2. CASE way = "undo" /\ x.undo = "unsupported" /\ State(y, way) \in {"available", "unsupported"}
      <4>1. Now(p, m, way) = "unsent"
        BY <3>2 DEF Now, State
      <4>2. Now(p, m, way)' = "unsent"
        BY <1>2, <1>9, <3>2 DEF Now
      <4>3. QED
        BY <4>1, <4>2
    <3>3. QED
      BY <2>2, <3>1, <3>2
  <2>4. QED
    BY <1>2, <2>2, <2>3, NowTurns
<1>10. QED
  BY <1>8, <1>9

\* A step that fails before its request, or is refused, has not happened.
LEMMA FailsTurns ==
  ASSUME Inv, NEW p \in Plans, NEW m \in Messages, ItemFails(p, m), scenario' = scenario,
         NEW way \in Ways, NEW k \in 1 .. 2
  PROVE  Turn(p, m, way, k)
<1> DEFINE x == item[p][m]
<1>1. PICK y \in Item :
        /\ Leaves(p, m, y)
        /\ ~y.attempted /\ y.origin = x.origin /\ y.done = x.done /\ y.undone = x.undone
        /\ Way(p) = "undo" => y.undo = "failed" /\ y.state = x.state
        /\ Way(p) # "undo" => y.state = "failed" /\ y.undo = x.undo
  BY FailsIs
<1>2. item'[p][m] = y /\ head' = head /\ wire' = wire /\ landed' = landed /\ Way(p)' = Way(p)
  BY <1>1, LeavesIs, Known DEF Way
<1>3. /\ hand[p][m] \in {"idle", "ready", "denied"} /\ State(x, Way(p)) \in {"pending", "applying", "available"}
      /\ head[p].running # "none"
  BY FailsIs
<1>4. Cursor(item[p][m], way)' = Cursor(item[p][m], way)
  BY <1>1, <1>2 DEF Cursor
<1>5. CASE way = Way(p)
  <2>1. State(y, way) = "failed"
    BY <1>1, <1>5 DEF State
  <2>2. Now(p, m, way)' = "unsent"
    BY <1>2, <2>1 DEF Now
  <2>3. Now(p, m, way) \in {"maybe", "pending"}
    BY <1>3, <1>5 DEF Now
  <2>4. k = Cursor(x, way) + 1 => <<p, m, way, k>> \notin wire /\ landed[<<p, m, way, k>>] = 0
    <3>1. StepRight(p, m, way, k)
      BY Known
    <3>2. State(x, way) \notin {"uncertain", "observed"} /\ hand[p][m] # "done" /\ hand[p][m] # "waiting"
      BY <1>3, <1>5
    <3>3. QED
      BY <3>1, <3>2 DEF StepRight
  <2>5. QED
    BY <1>2, <1>4, <2>2, <2>3, <2>4, NowTurns
<1>6. CASE way # Way(p)
  <2>1. State(y, way) = State(x, way) /\ State(x, way) # "applying"
    BY <1>1, <1>6, OtherWay DEF State, Ways, Way
  <2>2. Now(p, m, way)' = Now(p, m, way)
    BY <1>2, <1>6, <2>1 DEF Now
  <2>3. QED
    BY <1>2, <1>4, <2>2, NowTurns
<1>7. QED
  BY <1>5, <1>6

\* A step without a clear answer may have happened, as before.
LEMMA UnclearTurns ==
  ASSUME Inv, NEW p \in Plans, NEW m \in Messages, ItemUnclear(p, m), scenario' = scenario,
         NEW way \in Ways, NEW k \in 1 .. 2
  PROVE  Turn(p, m, way, k)
<1> DEFINE x == item[p][m]
<1>1. PICK y \in Item :
        /\ Leaves(p, m, y)
        /\ y.attempted = x.attempted /\ y.origin = x.origin /\ y.done = x.done /\ y.undone = x.undone
        /\ Way(p) = "undo" => y.undo = "uncertain" /\ y.state = x.state
        /\ Way(p) # "undo" => y.state = "uncertain" /\ y.undo = x.undo
  BY UnclearIs
<1>2. item'[p][m] = y /\ head' = head /\ wire' = wire /\ landed' = landed /\ Way(p)' = Way(p)
  BY <1>1, LeavesIs, Known DEF Way
<1>3. State(x, Way(p)) = "applying" /\ x.attempted
  BY UnclearIs, Known DEF ItemRight
<1>4. Cursor(item[p][m], way)' = Cursor(item[p][m], way)
  BY <1>1, <1>2 DEF Cursor
<1>5. CASE way = Way(p)
  <2>1. State(y, way) = "uncertain"
    BY <1>1, <1>5 DEF State
  <2>2. Now(p, m, way)' = "maybe" /\ Now(p, m, way) = "maybe"
    BY <1>2, <1>3, <1>5, <2>1 DEF Now
  <2>3. QED
    BY <1>2, <1>4, <2>2, NowTurns
<1>6. CASE way # Way(p)
  <2>1. State(y, way) = State(x, way) /\ State(x, way) # "applying"
    BY <1>1, <1>6, OtherWay DEF State, Ways, Way
  <2>2. Now(p, m, way)' = Now(p, m, way)
    BY <1>2, <1>6, <2>1 DEF Now
  <2>3. QED
    BY <1>2, <1>4, <2>2, NowTurns
<1>7. QED
  BY <1>5, <1>6

\* A step observed, or accepted as it is, may have happened, as before.
LEMMA ObservedTurns ==
  ASSUME Inv, NEW p \in Plans, NEW m \in Messages, Observed(p, m), scenario' = scenario,
         NEW way \in Ways, NEW k \in 1 .. 2
  PROVE  Turn(p, m, way, k)
<1> DEFINE x == item[p][m]
<1>1. /\ job[p].at \in {"check", "acknowledge"} /\ Doubtful(x)
      /\ head' = head /\ wire' = wire /\ landed' = landed
  BY ObservedIs
<1>2. PICK y \in Item :
        /\ item'[p][m] = y
        /\ ~y.attempted /\ y.origin = x.origin /\ y.done = x.done /\ y.undone = x.undone
        /\ x.undo = "uncertain" => y.undo = "observed" /\ y.state = x.state
        /\ x.undo # "uncertain" => y.state = "observed" /\ y.undo = x.undo
  BY ObservedIs
<1>3. Cursor(item[p][m], way)' = Cursor(item[p][m], way) /\ Way(p)' = Way(p)
  BY <1>1, <1>2 DEF Cursor, Way
<1>4. x.state # "applying" /\ x.undo # "applying"
  BY <1>1, Known DEF ItemRight
<1>5. \/ State(y, way) = State(x, way)
      \/ State(x, way) = "uncertain" /\ State(y, way) = "observed"
  BY <1>1, <1>2 DEF State, Doubtful
<1>6. State(x, way) # "applying"
  BY <1>4 DEF State
<1>7. Now(p, m, way)' = Now(p, m, way)
  <2>1. CASE State(y, way) = State(x, way)
    BY <1>1, <1>2, <1>3, <1>6, <2>1 DEF Now
  <2>2. CASE State(x, way) = "uncertain" /\ State(y, way) = "observed"
    BY <1>2, <2>2 DEF Now
  <2>3. QED
    BY <1>5, <2>1, <2>2
<1>8. QED
  BY <1>1, <1>3, <1>7, NowTurns

\* A request is over.
LEMMA ProviderTurns ==
  ASSUME Inv, NEW s \in wire, Land(s) \/ Refuse(s) \/ Lose(s),
         NEW q \in Plans, NEW n \in Messages, NEW way \in Ways, NEW k \in 1 .. 2
  PROVE  Turn(q, n, way, k)
<1>1. /\ wire' = wire \ {s} /\ head' = head /\ item' = item
      /\ landed' = landed \/ landed' = [landed EXCEPT ![s] = @ + 1]
  BY DEF Land, Refuse, Lose, Over, durable
<1>2. <<q, n, way, k>> \in Steps /\ s \in Steps /\ landed \in [Steps -> Nat]
  BY DEF Inv, TypeOK, Steps
<1>3. CASE <<q, n, way, k>> # s
  <2>1. landed'[<<q, n, way, k>>] = landed[<<q, n, way, k>>]
    BY <1>1, <1>2, <1>3
  <2>2. QED
    BY <1>1, <1>3, <2>1, SameTurns
<1>4. CASE <<q, n, way, k>> = s
  <2>1. Claim(q, n, way, k) = "maybe"
    BY <1>4, Covered
  <2>2. Claim(q, n, way, k)' = Claim(q, n, way, k)
    BY <1>1 DEF Claim, Cursor, Way
  <2>3. landed'[<<q, n, way, k>>] \in {landed[<<q, n, way, k>>], landed[<<q, n, way, k>>] + 1}
    BY <1>1, <1>2, <1>4
  <2>4. QED
    BY <1>1, <1>4, <2>1, <2>2, <2>3 DEF Turn
<1>5. QED
  BY <1>3, <1>4

\* What a plan's function does at one message is not seen at another.
LEMMA HandTurns ==
  ASSUME Inv, NEW p \in Plans, NEW m \in Messages, scenario' = scenario,
         \/ ReadMessage(p, m) \/ Dispatch(p, m) \/ Answered(p, m) \/ ItemFails(p, m) \/ ItemUnclear(p, m)
         \/ Observed(p, m) \/ NotObserved(p, m),
         NEW q \in Plans, NEW n \in Messages, NEW way \in Ways, NEW k \in 1 .. 2
  PROVE  Turn(q, n, way, k)
<1>1. CASE ReadMessage(p, m) \/ NotObserved(p, m)
  <2>1. UNCHANGED <<head, item, wire, landed>>
    BY <1>1 DEF ReadMessage, NotObserved, durable, outside
  <2>2. QED
    BY <2>1, SameTurns
<1>2. CASE \/ Dispatch(p, m) \/ Answered(p, m) \/ ItemFails(p, m) \/ ItemUnclear(p, m) \/ Observed(p, m)
  <2>1. CASE q = p /\ n = m
    BY <1>2, <2>1, DispatchTurns, AnsweredTurns, FailsTurns, UnclearTurns, ObservedTurns
  <2>2. CASE q # p \/ n # m
    <3>1. Same(q, n)
      <4>1. CASE Dispatch(p, m)
        BY <2>2, <4>1, DispatchIs
      <4>2. CASE Observed(p, m)
        BY <2>2, <4>2, ObservedIs
      <4>3. CASE Answered(p, m) \/ ItemFails(p, m) \/ ItemUnclear(p, m)
        <5>1. PICK y \in Item : Leaves(p, m, y)
          BY <4>3, AnsweredIs, FailsIs, UnclearIs
        <5>2. QED
          BY <2>2, <5>1, LeavesIs, Known
      <4>4. QED
        BY <1>2, <4>1, <4>2, <4>3
    <3>2. QED
      BY <3>1, SameTurns DEF Same
  <2>3. QED
    BY <2>1, <2>2
<1>3. QED
  BY <1>1, <1>2

\* Every step of the program does to every step of every message what DurableEffect allows.
LEMMA NextTurns ==
  ASSUME Inv, [Next]_vars,
         NEW q \in Plans, NEW n \in Messages, NEW way \in Ways, NEW k \in 1 .. 2
  PROVE  Turn(q, n, way, k)
<1>1. CASE UNCHANGED <<head, item, wire, landed>>
  BY <1>1, SameTurns
<1>2. CASE Next
  <2>1. scenario' = scenario
    BY <1>2 DEF Next
  <2>2. CASE World
    <3>1. CASE \E s \in wire : Land(s) \/ Refuse(s) \/ Lose(s)
      BY <3>1, ProviderTurns
    <3>2. CASE \E p \in Plans : Lapse(p)
      BY <2>1, <3>2, QuietTurns
    <3>3. CASE Restart
      BY <2>1, <3>3, RestartTurns
    <3>4. CASE \/ \E m \in Messages : \E value : Edit(m, value)
               \/ Disconnect \/ Hold \/ Close
      BY <1>1, <3>4 DEF Edit, Disconnect, Hold, Close, durable, outside
    <3>5. QED
      BY <2>2, <3>1, <3>2, <3>3, <3>4 DEF World
  <2>3. ASSUME NEW p \in Plans, PlanStep(p) PROVE Turn(q, n, way, k)
    <3>1. CASE \E action \in Actions \cap scenario, S \in SUBSET Messages : Prepare(p, action, S)
      BY <2>1, <3>1, PrepareTurns
    <3>2. CASE \E decision \in Decisions \ {"none"} : Confirm(p, decision)
      BY <2>1, <3>2, ConfirmTurns
    <3>3. CASE CancelReview(p) \/ ThreadsRead(p) \/ Refreshed(p) \/ Reconcile(p)
      BY <2>1, <3>3, QuietTurns
    <3>4. CASE ThreadsFail(p) \/ ItemsEnd(p) \/ InspectEnds(p)
      BY <2>1, <3>4, SettlersSettle, SettleTurns
    <3>5. CASE \E m \in Messages :
                 \/ ReadMessage(p, m) \/ Dispatch(p, m) \/ Answered(p, m) \/ ItemFails(p, m) \/ ItemUnclear(p, m)
                 \/ Observed(p, m) \/ NotObserved(p, m)
      BY <2>1, <3>5, HandTurns
    <3>6. QED
      BY <2>3, <3>1, <3>2, <3>3, <3>4, <3>5 DEF PlanStep
  <2>4. QED
    BY <1>2, <2>2, <2>3 DEF Next
<1>3. CASE UNCHANGED vars
  BY <1>1, <1>3 DEF vars, durable, outside
<1>4. QED
  BY <1>2, <1>3

\* Each step of each reviewed change, of its undo and of a restore implements
\* DurableEffect: it is made at most once and never claimed less than it may have
\* been, whatever is refused, lost, continued, checked, accepted or restarted.
THEOREM StepsAreDurable == Spec => EachStepIsDurable
<1>1. Init => Promise!Init
  <2>1. ASSUME Init, NEW s \in Steps
        PROVE  Abstract[s] = Promise!Untouched
    <3>1. PICK p \in Plans, m \in Messages, way \in Ways, k \in 1 .. 2 :
            s = <<p, m, way, k>> /\ s[1] = p /\ s[2] = m /\ s[3] = way /\ s[4] = k
      BY DEF Steps
    <3>2. head[p] = NoHead /\ item[p][m] = NoItem /\ s \notin wire /\ landed[s] = 0
      BY <2>1 DEF Init
    <3>3. /\ NoHead.running = "none" /\ NoItem.state = "none" /\ NoItem.undo = "unsupported"
          /\ NoItem.done = 0 /\ NoItem.undone = 0
      BY DEF NoHead, NoItem
    <3>4. Now(p, m, way) = "unsent" /\ Cursor(item[p][m], way) = 0
      BY <3>2, <3>3 DEF Now, State, Cursor
    <3>5. Claim(p, m, way, k) = "unsent"
      BY <3>4, ClaimIs
    <3>6. QED
      BY <3>1, <3>2, <3>5 DEF Abstract, Promise!Untouched
  <2>2. Abstract = [s \in Steps |-> Abstract[s]]
    BY DEF Abstract
  <2>3. QED
    BY <2>1, <2>2 DEF Promise!Init
<1>2. Inv /\ [Next]_vars => [Promise!Next]_Abstract
  <2> SUFFICES ASSUME Inv, [Next]_vars PROVE Promise!Next
    OBVIOUS
  <2>1. ASSUME NEW s \in Steps
        PROVE  Abstract'[s] = Abstract[s] \/ Promise!Move(Abstract[s], Abstract'[s])
    <3>1. PICK p \in Plans, m \in Messages, way \in Ways, k \in 1 .. 2 : s = <<p, m, way, k>>
      BY DEF Steps
    <3>2. Turn(p, m, way, k)
      BY NextTurns
    <3>3. landed[s] \in Nat
      BY DEF Inv, TypeOK
    <3>4. QED
      BY <3>1, <3>2, <3>3, TurnIsMove
  <2>2. Abstract' = [s \in Steps |-> Abstract'[s]]
    BY DEF Abstract
  <2> HIDE DEF Abstract
  <2>3. QED
    BY <2>1, <2>2 DEF Promise!Next
<1>3. QED
  BY <1>1, <1>2, InvHolds, PTL DEF Spec, EachStepIsDurable, Promise!Spec

=============================================================================
