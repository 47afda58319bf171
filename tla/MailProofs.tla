----------------------------- MODULE MailProofs -----------------------------
(***************************************************************************)
(* Safety of MailDelivery for every number of drafts and writers. Inv ties *)
(* each saved record to the function that works on it, to the request it   *)
(* has under way and to what took place at the provider; it is inductive.  *)
(* Most steps are one operation's turn without a request: Turn says what   *)
(* such a step may change and TurnInv that it keeps Inv, so what is left   *)
(* of each is that it is a turn. Dispatch, Land, Refuse and Restart are    *)
(* done one by one. From Inv follow that no operation has two next         *)
(* versions, with the kinship of the records, and that each stage          *)
(* implements DurableEffect.                                               *)
(***************************************************************************)
EXTENDS MailPromises, FiniteSetTheorems, SequenceTheorems, TLAPS

AllKinds == Kinds \cup {None}
StageNames == {"send", "create", "create-reply", "update-reply", "update-draft", "update-file", "send-draft"}
Creating == {"create", "create-reply"}

\* The plans of this behaviour, and how many of its stages save a draft.
PlanOf == [k \in AllKinds |-> Plan(k)]
Saves(P, k) == IF k \in Sends THEN Len(P[k]) - 1 ELSE Len(P[k])

\* What the proofs use of the plans.
Planned(P) ==
  \A k \in AllKinds :
    /\ P[k] \in Seq(StageNames) /\ Len(P[k]) \in 0 .. MaxStages
    /\ k \in {"open", None} <=> Len(P[k]) = 0
    /\ Saves(P, k) \in 0 .. Len(P[k])
    /\ \A i \in 1 .. Len(P[k]) :
         /\ P[k][i] \in StageNames
         /\ Reads(P[k][i]) <=> k \in Following \/ i > 1
         /\ P[k][i] \in {"send", "send-draft"} <=> i > Saves(P, k)
         /\ P[k][i] = "send" <=> k = "send"
         /\ P[k][i] \in Creating <=> k \in {"draft", "reply"} /\ i = 1
         /\ P[k][i] \in {"create", "update-reply", "update-draft"} => i = Saves(P, k)
         /\ P[k][i] = "update-draft" => k \in Following
         /\ P[k][i] = "update-file" => i < Saves(P, k)

\* What is used of the plans holds of them.
LEMMA PlanFacts == Planned(PlanOf)
<1> SUFFICES ASSUME NEW k \in AllKinds PROVE
    /\ PlanOf[k] \in Seq(StageNames) /\ Len(PlanOf[k]) \in 0 .. MaxStages
    /\ k \in {"open", None} <=> Len(PlanOf[k]) = 0
    /\ Saves(PlanOf, k) \in 0 .. Len(PlanOf[k])
    /\ \A i \in 1 .. Len(PlanOf[k]) :
         /\ PlanOf[k][i] \in StageNames
         /\ Reads(PlanOf[k][i]) <=> k \in Following \/ i > 1
         /\ PlanOf[k][i] \in {"send", "send-draft"} <=> i > Saves(PlanOf, k)
         /\ PlanOf[k][i] = "send" <=> k = "send"
         /\ PlanOf[k][i] \in Creating <=> k \in {"draft", "reply"} /\ i = 1
         /\ PlanOf[k][i] \in {"create", "update-reply", "update-draft"} => i = Saves(PlanOf, k)
         /\ PlanOf[k][i] = "update-draft" => k \in Following
         /\ PlanOf[k][i] = "update-file" => i < Saves(PlanOf, k)
  BY DEF Planned
<1> USE DEF AllKinds, Kinds, First, Following, Sends, StageNames, Reads, Creating, MaxStages, None, Saves
<1>0. PlanOf[k] = Plan(k)
  BY DEF PlanOf
<1>1. CASE k = "send"
  <2>1. PlanOf[k] = <<"send">> BY <1>0, <1>1 DEF Plan
  <2> QED BY <1>1, <2>1
<1>2. CASE k = "draft"
  <2>1. PlanOf[k] = <<"create">> BY <1>0, <1>2 DEF Plan
  <2> QED BY <1>2, <2>1
<1>3. CASE k = "reply"
  <2>1. CASE Gmail
    <3>1. PlanOf[k] = <<"create">> BY <1>0, <1>3, <2>1 DEF Plan
    <3> QED BY <1>3, <3>1
  <2>2. CASE ~Gmail
    <3>1. PlanOf[k] = <<"create-reply", "update-reply">> BY <1>0, <1>3, <2>2 DEF Plan
    <3> QED BY <1>3, <3>1
  <2> QED BY <2>1, <2>2
<1>4. CASE k = "edit"
  <2>1. PlanOf[k] = <<"update-draft">> BY <1>0, <1>4 DEF Plan
  <2> QED BY <1>4, <2>1
<1>5. CASE k = "files"
  <2>1. PlanOf[k] = <<"update-file", "update-file", "update-draft">> BY <1>0, <1>5 DEF Plan
  <2> QED BY <1>5, <2>1
<1>6. CASE k = "post"
  <2>1. CASE Gmail
    <3>1. PlanOf[k] = <<"send-draft">> BY <1>0, <1>6, <2>1 DEF Plan
    <3> QED BY <1>6, <3>1
  <2>2. CASE ~Gmail
    <3>1. PlanOf[k] = <<"update-draft", "send-draft">> BY <1>0, <1>6, <2>2 DEF Plan
    <3> QED BY <1>6, <3>1
  <2> QED BY <2>1, <2>2
<1>7. CASE k = "post-files"
  <2>1. PlanOf[k] = <<"update-file", "update-draft", "send-draft">> BY <1>0, <1>7 DEF Plan
  <2> QED BY <1>7, <2>1
<1>8. CASE k \in {"open", None}
  <2>1. PlanOf[k] = <<>> BY <1>0, <1>8 DEF Plan
  <2> QED BY <1>8, <2>1
<1> QED
  BY <1>1, <1>2, <1>3, <1>4, <1>5, <1>6, <1>7, <1>8

\* The scenario decides the plans.
LEMMA PlanStays == scenario' = scenario => PlanOf' = PlanOf
BY DEF PlanOf, Plan, Gmail

-----------------------------------------------------------------------------
\* The end of the path of N from each element of S, while it is in B.
PathEnds(f, S, B, N) == f = [x \in S |-> IF x \in B THEN f[N[x]] ELSE x]

\* Following N from an element of S until it leaves B is a function that
\* exists, whether or not every path ends.
LEMMA PathsEnd ==
  ASSUME NEW S, NEW B, NEW N, \A x \in S \cap B : N[x] \in S
  PROVE  \E f : PathEnds(f, S, B, N)
<1> DEFINE Path(x, n, s) == s[0] = x /\ s[n] \notin B /\ \A k \in 0 .. n - 1 : s[k] \in B /\ s[k + 1] = N[s[k]]
           Ends(x) == {r \in S : \E n \in Nat : \E s \in [0 .. n -> S] : Path(x, n, s) /\ s[n] = r}
           f == [x \in S |-> CHOOSE r : r \in Ends(x)]
<1>1. ASSUME NEW x \in S, x \in B PROVE Ends(x) = Ends(N[x])
  <2>1. ASSUME NEW r \in Ends(x) PROVE r \in Ends(N[x])
    <3>1. PICK n \in Nat : \E s \in [0 .. n -> S] : Path(x, n, s) /\ s[n] = r
      BY <2>1
    <3>2. PICK s \in [0 .. n -> S] : Path(x, n, s) /\ s[n] = r
      BY <3>1
    <3>3. n > 0
      BY <1>1, <3>2
    <3> DEFINE t == [k \in 0 .. n - 1 |-> s[k + 1]]
    <3>4. n - 1 \in Nat /\ t \in [0 .. n - 1 -> S]
      BY <3>3
    <3>5. t[0] = N[x] /\ t[n - 1] = r /\ r \notin B
      BY <3>2, <3>3
    <3>6. \A k \in 0 .. (n - 1) - 1 : t[k] \in B /\ t[k + 1] = N[t[k]]
      BY <3>2, <3>3
    <3> HIDE DEF t
    <3>7. QED
      BY <3>4, <3>5, <3>6
  <2>2. ASSUME NEW r \in Ends(N[x]) PROVE r \in Ends(x)
    <3>1. PICK n \in Nat : \E s \in [0 .. n -> S] : Path(N[x], n, s) /\ s[n] = r
      BY <2>2
    <3>2. PICK s \in [0 .. n -> S] : Path(N[x], n, s) /\ s[n] = r
      BY <3>1
    <3> DEFINE t == [k \in 0 .. n + 1 |-> IF k = 0 THEN x ELSE s[k - 1]]
    <3>4. n + 1 \in Nat /\ t \in [0 .. n + 1 -> S]
      OBVIOUS
    <3>5. t[0] = x /\ t[n + 1] = r /\ r \notin B
      BY <3>2
    <3>6. \A k \in 0 .. (n + 1) - 1 : t[k] \in B /\ t[k + 1] = N[t[k]]
      BY <1>1, <3>2
    <3> HIDE DEF t
    <3>7. QED
      BY <3>4, <3>5, <3>6
  <2>3. QED
    BY <2>1, <2>2
<1>2. ASSUME NEW x \in S, x \notin B PROVE Ends(x) = {x}
  <2>1. ASSUME NEW r \in Ends(x) PROVE r = x
    <3>1. PICK n \in Nat : \E s \in [0 .. n -> S] : Path(x, n, s) /\ s[n] = r
      BY <2>1
    <3>2. PICK s \in [0 .. n -> S] : Path(x, n, s) /\ s[n] = r
      BY <3>1
    <3>3. n = 0
      BY <1>2, <3>2
    <3>4. QED
      BY <3>2, <3>3
  <2>2. x \in Ends(x)
    <3> DEFINE t == [k \in 0 .. 0 |-> x]
    <3>1. t \in [0 .. 0 -> S] /\ Path(x, 0, t) /\ t[0] = x
      BY <1>2
    <3>2. QED
      BY <3>1
  <2>3. QED
    BY <2>1, <2>2
<1>3. ASSUME NEW x \in S PROVE f[x] = IF x \in B THEN f[N[x]] ELSE x
  <2> HIDE DEF Ends
  <2>1. CASE x \in B
    BY <1>1, <2>1
  <2>2. CASE x \notin B
    BY <1>2, <2>2
  <2>3. QED
    BY <2>1, <2>2
<1>4. f = [x \in S |-> IF x \in B THEN f[N[x]] ELSE x]
  <2> DEFINE g == [x \in S |-> IF x \in B THEN f[N[x]] ELSE x]
  <2> HIDE DEF Ends
  <2>1. \A x \in S : f[x] = g[x]
    <3> HIDE DEF f
    <3> QED BY <1>3
  <2>2. DOMAIN f = S /\ DOMAIN g = S /\ f = [x \in S |-> f[x]] /\ g = [x \in S |-> g[x]]
    OBVIOUS
  <2> HIDE DEF f, g
  <2>3. f = g
    BY <2>1, <2>2
  <2>4. QED
    BY <2>3 DEF g
<1>5. QED
  BY <1>4 DEF PathEnds

\* An operation that was given up hands its draft back.
Back(o) == head[o].state \in GivenUp /\ head[o].previous # None

\* Returned, which follows previous back while a record is given up, has the
\* value its definition unfolds to.
LEMMA ReturnedUnfolds ==
  ASSUME \A o \in Operations : Back(o) => head[o].previous \in Operations
  PROVE  \A o \in Operations : Returned[o] = IF Back(o) THEN Returned[head[o].previous] ELSE o
<1> DEFINE B == {o \in Operations : Back(o)}
           N == [o \in Operations |-> head[o].previous]
           F(f) == f = [o \in Operations |-> IF head[o].state \in GivenUp /\ head[o].previous # None
                                              THEN f[head[o].previous] ELSE o]
<1>1. \E f : PathEnds(f, Operations, B, N)
  <2>1. \A x \in Operations \cap B : N[x] \in Operations
    OBVIOUS
  <2> HIDE DEF B, N
  <2>2. QED
    BY <2>1, PathsEnd
<1>2. \E f : F(f)
  <2>1. ASSUME NEW f, PathEnds(f, Operations, B, N) PROVE F(f)
    BY <2>1 DEF PathEnds, Back
  <2> HIDE DEF B, N, F
  <2>2. QED
    BY <1>1, <2>1
<1>3. Returned = CHOOSE f : F(f)
  BY DEF Returned
<1>4. F(Returned)
  <2> HIDE DEF F
  <2>1. QED
    BY <1>2, <1>3
<1>5. QED
  BY <1>4 DEF Back

-----------------------------------------------------------------------------
(* The invariant of one record and its function.                           *)

Right(P, o, h, j) ==
  /\ h \in Record /\ j \in Job
  /\ h.state = "none" => h = NoHead
  /\ h.state # "none" => h.kind \in Kinds /\ h.writer \in Writers
  /\ h.done <= Len(P[h.kind])
  /\ h.attempted => h.state \in {"running", "uncertain"} /\ h.done < Len(P[h.kind])
  /\ h.state = "uncertain" => h.attempted
  /\ h.state \in {"preparing", "prepared", "failed"} => h.done = 0
  /\ h.state = "saved" => h.kind \notin Sends /\ h.done = Len(P[h.kind])
  /\ h.state = "accepted" => h.kind \in Sends /\ h.done = Len(P[h.kind])
  /\ h.kind \in Following <=> h.previous # None
  /\ h.kind \in Following => h.draft # None
  /\ h.kind \in {"draft", "reply"} => h.draft = IF h.done = 0 THEN None ELSE o
  /\ h.kind = "send" => h.draft = None
  /\ h.kind = "open" => /\ h.state \in {"preparing", "saved", "failed"}
                        /\ h.draft = None <=> h.state # "saved"
  /\ j.pc = "idle" => j = Idle
  /\ h.state \notin {"preparing", "running", "uncertain", "interrupted"} => j.pc = "idle"
  /\ h.state = "preparing" => j.pc \in {"reading", "ready"}
  /\ h.state = "preparing" /\ h.kind = "open" /\ j.pc = "ready" => j.draft # None
  /\ h.state = "running" => j.pc \in {"reading", "ready", "call", "refused", "finish"}
  /\ h.state \in {"uncertain", "interrupted"} => j.pc \in {"idle", "checking"}
  /\ h.state = "running" => (h.attempted <=> j.pc \in {"call", "refused"})
  /\ h.state = "running" /\ j.pc = "ready" => h.done < Len(P[h.kind])
  /\ h.state = "running" /\ j.pc = "finish" => h.done = Len(P[h.kind])

\* What a record never takes back.
Grows(h, g) ==
  /\ h.state # "none" => /\ g.state # "none" /\ g.kind = h.kind
                         /\ g.writer = h.writer /\ g.previous = h.previous
  /\ h.draft # None => g.draft = h.draft
  /\ h.state \in GivenUp => g.state \in GivenUp
  /\ h.done <= g.done

\* The stages of an operation that took place are those its record completed,
\* and at most the one it attempted.
Covered(o) ==
  /\ \A k \in 1 .. MaxStages : landed[o][k] \in {0, 1}
  /\ \A k \in 1 .. MaxStages : k <= head[o].done => landed[o][k] = 1
  /\ \A k \in 1 .. MaxStages : landed[o][k] = 1 =>
       k <= head[o].done \/ (k = head[o].done + 1 /\ head[o].attempted)
  /\ job[o].pc = "refused" => landed[o][head[o].done + 1] = 0

\* A request is for the stage its operation attempts, and a change of a draft for
\* the version its record retains.
Awaited(c) ==
  /\ c.stage = head[c.op].done + 1 /\ head[c.op].attempted /\ landed[c.op][c.stage] = 0
  /\ job[c.op].pc # "refused"
  /\ Reads(PlanOf[head[c.op].kind][c.stage]) => c.tag = head[c.op].key /\ c.tag > 0

Wired ==
  /\ \A i, k \in 1 .. Len(wire) : wire[i].op = wire[k].op => i = k
  /\ \A i \in 1 .. Len(wire) : Awaited(wire[i])

\* A marker is left by the last stage that saves the draft.
SaidBy(p) ==
  /\ Saves(PlanOf, head[p].kind) > 0
  /\ landed[p][Saves(PlanOf, head[p].kind)] = 1
Marked == \A d \in Drafts : \A p \in Operations : marker[d] = p => SaidBy(p)

\* What was sent was sent by the last stage.
Posted ==
  \A o \in Operations : sent[o] # "nothing" =>
    head[o].kind \in Sends /\ landed[o][Len(PlanOf[head[o].kind])] = 1

Local == \A o \in Operations : Right(PlanOf, o, head[o], job[o])
Inv == TypeOK /\ Local /\ (\A o \in Operations : Covered(o)) /\ Wired /\ Marked /\ Posted

InWire(o) == \E i \in 1 .. Len(wire) : wire[i].op = o

-----------------------------------------------------------------------------
(* Steps of one operation that make no call.                               *)

Step(o, h, j) ==
  /\ head' = [head EXCEPT ![o] = h] /\ job' = [job EXCEPT ![o] = j]
  /\ Right(PlanOf, o, h, j) /\ Grows(head[o], h)
  /\ UNCHANGED <<wire, landed, scenario, marker, version, content, sent>>

\* The record keeps its stages, or completes all that took place.
Still(o, h, j) ==
  /\ h.done = head[o].done /\ h.attempted = head[o].attempted
  /\ h.attempted => h.key = head[o].key
  /\ j.pc = "refused" => job[o].pc = "refused"

Closes(o, h, j) ==
  /\ ~h.attempted /\ ~InWire(o) /\ j.pc # "refused"
  /\ \A k \in 1 .. MaxStages : landed[o][k] = 1 <=> k <= h.done
  /\ h.done = head[o].done => ~head[o].attempted \/ h.state # "running"

\* A request on the wire is a call of an operation's stage.
LEMMA WireTypes ==
  ASSUME TypeOK, NEW i \in 1 .. Len(wire)
  PROVE  wire[i] \in Call /\ wire[i].op \in Operations /\ wire[i].stage \in 1 .. MaxStages /\ wire[i].tag \in Nat
<1>1. wire[i] \in Call
  BY DEF TypeOK
<1> QED
  BY <1>1 DEF Call

\* A step of one operation keeps the types and the other records.
LEMMA StepTypes ==
  ASSUME Inv, NEW o \in Operations, NEW h, NEW j, Step(o, h, j)
  PROVE  /\ head' \in [Operations -> Record] /\ job' \in [Operations -> Job]
         /\ head'[o] = h /\ job'[o] = j
         /\ \A p \in Operations : p # o => head'[p] = head[p] /\ job'[p] = job[p]
         /\ PlanOf' = PlanOf
BY PlanStays DEF Inv, TypeOK, Step, Right

\* ... and each record's agreement with its function.
LEMMA StepLocal ==
  ASSUME Inv, NEW o \in Operations, NEW h, NEW j, Step(o, h, j)
  PROVE  Local'
<1>1. \A p \in Operations : Right(PlanOf, p, head'[p], job'[p])
  BY StepTypes DEF Inv, Local, Step
<1> QED
  BY <1>1, StepTypes DEF Local

\* ... and what the markers say.
LEMMA StepMarked ==
  ASSUME Inv, NEW o \in Operations, NEW h, NEW j, Step(o, h, j)
  PROVE  Marked'
<1>1. \A p \in Operations : SaidBy(p) => head'[p].kind = head[p].kind
  <2>1. SUFFICES ASSUME SaidBy(o) PROVE head[o].state # "none"
    BY StepTypes DEF Step, Grows
  <2>2. SUFFICES ASSUME head[o].state = "none" PROVE FALSE
    OBVIOUS
  <2>3. head[o].kind = None
    BY <2>2 DEF Inv, Local, Right, NoHead
  <2>4. QED
    BY <2>1, <2>3, PlanFacts DEF SaidBy, Saves, Planned, AllKinds, Sends, None
<1>2. \A p \in Operations : SaidBy(p) => SaidBy(p)'
  BY <1>1, StepTypes DEF SaidBy, Step
<1> QED
  BY <1>2 DEF Inv, Marked, Step

\* ... and that a message left its account by a stage that took place.
LEMMA StepPosted ==
  ASSUME Inv, NEW o \in Operations, NEW h, NEW j, Step(o, h, j)
  PROVE  Posted'
<1>1. ASSUME NEW p \in Operations, sent[p] # "nothing" PROVE head'[p].kind = head[p].kind
  <2>1. head[p].kind \in Sends
    BY <1>1 DEF Inv, Posted
  <2>2. head[p].state # "none"
    BY <2>1 DEF Inv, Local, Right, NoHead, Sends, None
  <2>3. QED
    BY <2>2, StepTypes DEF Step, Grows
<1>2. ASSUME NEW p \in Operations, sent'[p] # "nothing"
      PROVE  head'[p].kind \in Sends /\ landed'[p][Len(PlanOf'[head'[p].kind])] = 1
  <2>1. sent[p] # "nothing" /\ landed' = landed /\ PlanOf' = PlanOf
    BY <1>2, StepTypes DEF Step
  <2>2. head'[p].kind = head[p].kind
    BY <1>1, <2>1
  <2>3. QED
    BY <2>1, <2>2 DEF Inv, Posted
<1>3. QED
  BY <1>2 DEF Posted

\* ... and what is covered and awaited, if it makes and ends no request or ends one that is over.
LEMMA StepCovered ==
  ASSUME Inv, NEW o \in Operations, NEW h, NEW j, Step(o, h, j), Still(o, h, j) \/ Closes(o, h, j)
  PROVE  (\A p \in Operations : Covered(p)') /\ Wired'
<1>1. ASSUME NEW p \in Operations, p # o PROVE Covered(p)'
  BY <1>1, StepTypes DEF Inv, Covered, Step
<1>2. Covered(o)'
  <2>1. h \in Record /\ head[o] \in Record
    BY DEF Step, Right, Inv, TypeOK
  <2>2. CASE Still(o, h, j)
    BY <2>1, <2>2, StepTypes DEF Inv, Covered, Step, Still
  <2>3. CASE Closes(o, h, j)
    BY <2>1, <2>3, StepTypes DEF Inv, Covered, Step, Closes
  <2>4. QED
    BY <2>2, <2>3
<1>3. ASSUME NEW i \in 1 .. Len(wire) PROVE Awaited(wire[i])'
  <2>1. wire[i].op \in Operations
    BY WireTypes DEF Inv
  <2>2. Awaited(wire[i]) /\ head[o] \in Record
    BY DEF Inv, Wired, TypeOK
  <2>3. CASE wire[i].op # o
    BY <2>1, <2>2, <2>3, StepTypes DEF Awaited, Step
  <2>4. CASE wire[i].op = o
    <3>1. Still(o, h, j)
      BY <2>4 DEF Closes, InWire
    <3>2. head[o].state # "none"
      BY <2>2, <2>4 DEF Inv, Local, Right, Awaited, NoHead
    <3>3. h.kind = head[o].kind
      BY <3>2 DEF Step, Grows
    <3>4. QED
      BY <2>1, <2>2, <2>4, <3>1, <3>3, StepTypes DEF Awaited, Step, Still
  <2>5. QED
    BY <2>3, <2>4
<1> QED
  BY <1>1, <1>2, <1>3 DEF Wired, Inv, Step

-----------------------------------------------------------------------------
(* Which of these steps each request and each return of an await is.       *)

Turn(o) == \E h, j : Step(o, h, j) /\ (Still(o, h, j) \/ Closes(o, h, j))

\* What the invariant says of one operation.
LEMMA Known ==
  ASSUME Inv, NEW o \in Operations
  PROVE  /\ head[o] \in Record /\ job[o] \in Job /\ Right(PlanOf, o, head[o], job[o])
         /\ head[o].kind \in AllKinds /\ head[o].done \in Nat /\ Covered(o)
         /\ Stages(o) = PlanOf[head[o].kind]
         /\ Left(o) <=> head[o].done < Len(PlanOf[head[o].kind])
         /\ Left(o) => /\ head[o].done + 1 \in 1 .. Len(PlanOf[head[o].kind])
                       /\ head[o].done + 1 \in 1 .. MaxStages
                       /\ Stage(o) = PlanOf[head[o].kind][head[o].done + 1]
<1>1. head[o] \in Record /\ job[o] \in Job /\ Right(PlanOf, o, head[o], job[o]) /\ Covered(o)
  BY DEF Inv, TypeOK, Local
<1>2. head[o].kind \in AllKinds /\ head[o].done \in 0 .. MaxStages
  BY <1>1 DEF Record, AllKinds
<1>3. Stages(o) = PlanOf[head[o].kind]
  BY <1>2 DEF Stages, PlanOf
<1>4. Len(PlanOf[head[o].kind]) \in 0 .. MaxStages
  BY <1>2, PlanFacts DEF Planned
<1>5. Left(o) <=> head[o].done < Len(PlanOf[head[o].kind])
  BY <1>3 DEF Left
<1>6. ASSUME Left(o)
      PROVE  /\ head[o].done + 1 \in 1 .. Len(PlanOf[head[o].kind])
             /\ head[o].done + 1 \in 1 .. MaxStages
             /\ Stage(o) = PlanOf[head[o].kind][head[o].done + 1]
  <2>1. Stage(o) = PlanOf[head[o].kind][head[o].done + 1]
    BY <1>3 DEF Stage
  <2>2. QED
    BY <1>2, <1>4, <1>5, <1>6, <2>1 DEF MaxStages
<1> QED
  BY <1>1, <1>2, <1>3, <1>5, <1>6

\* A record before its operation is asked for.
LEMMA NoHeadFields ==
  /\ NoHead \in Record /\ NoHead.state = "none" /\ NoHead.kind = None /\ NoHead.writer = None
  /\ NoHead.previous = None /\ NoHead.draft = None /\ NoHead.done = 0
  /\ NoHead.attempted = FALSE /\ NoHead.key = 0
BY DEF NoHead, Record, States, MaxStages

\* Prepare is such a step.
LEMMA PrepareTurns == ASSUME Inv, NEW o \in Operations, Prepare(o) PROVE Turn(o)
<1>1. PICK k \in First \cap scenario, w \in Writers :
         Become(o, [NoHead EXCEPT !.state = "preparing", !.kind = k, !.writer = w])
  BY DEF Prepare
<1> DEFINE h == [NoHead EXCEPT !.state = "preparing", !.kind = k, !.writer = w]
           j == [job[o] EXCEPT !.pc = "reading"]
<1>2. head[o] = NoHead /\ job' = [job EXCEPT ![o] = j] /\ head' = [head EXCEPT ![o] = h]
      /\ UNCHANGED <<wire, landed, scenario, marker, version, content, sent>>
  BY <1>1, Known DEF Prepare, Go, Become, Job, world, provider
<1>3. /\ h.state = "preparing" /\ h.kind = k /\ h.writer = w /\ h.previous = None /\ h.draft = None
      /\ h.done = 0 /\ h.attempted = FALSE /\ h.key = 0 /\ h \in Record
  BY NoHeadFields DEF Record, States, Kinds
<1>4. j \in Job /\ j.pc = "reading"
  BY Known DEF Job, Steps
<1>5. Len(PlanOf[k]) \in Nat /\ k \in AllKinds
  BY PlanFacts DEF Planned, AllKinds, Kinds
<1> HIDE DEF h, j
<1>6. Right(PlanOf, o, h, j)
  BY <1>3, <1>4, <1>5 DEF Right, First, Following, Kinds, None
<1>a. head[o].state = "none" /\ head[o].draft = None /\ head[o].done = 0 /\ head[o].attempted = FALSE
  BY <1>2, NoHeadFields
<1>b. Grows(head[o], h)
  BY <1>a, <1>3 DEF Grows, GivenUp
<1>7. Still(o, h, j)
  BY <1>a, <1>3, <1>4 DEF Still
<1> QED
  BY <1>2, <1>b, <1>6, <1>7 DEF Turn, Step

\* PrepareNext is such a step.
LEMMA PrepareNextTurns == ASSUME Inv, NEW o \in Operations, PrepareNext(o) PROVE Turn(o)
<1>1. PICK k \in Following \cap scenario, p \in Operations :
         /\ Editable(p)
         /\ Become(o, [NoHead EXCEPT !.state = "preparing", !.kind = k, !.previous = p,
                       !.writer = head[p].writer, !.draft = head[p].draft])
  BY DEF PrepareNext
<1> DEFINE h == [NoHead EXCEPT !.state = "preparing", !.kind = k, !.previous = p,
                       !.writer = head[p].writer, !.draft = head[p].draft]
           j == [job[o] EXCEPT !.pc = "reading"]
<1>2. head[o] = NoHead /\ job' = [job EXCEPT ![o] = j] /\ head' = [head EXCEPT ![o] = h]
      /\ UNCHANGED <<wire, landed, scenario, marker, version, content, sent>>
  BY <1>1, Known DEF PrepareNext, Go, Become, Job, world, provider
<1>3. head[p] \in Record /\ head[p].draft # None /\ head[p].writer \in Writers
  BY <1>1, Known DEF Editable, Right
<1>4. /\ h.state = "preparing" /\ h.kind = k /\ h.writer = head[p].writer /\ h.previous = p
      /\ h.draft = head[p].draft /\ h.done = 0 /\ h.attempted = FALSE /\ h.key = 0 /\ h \in Record
  BY <1>3, NoHeadFields DEF Record, States, Kinds
<1>5. j \in Job /\ j.pc = "reading"
  BY Known DEF Job, Steps
<1>6. Len(PlanOf[k]) \in Nat /\ k \in AllKinds /\ p # None
  BY PlanFacts, MailAssumption DEF Planned, AllKinds, Kinds, Drafts
<1> HIDE DEF h, j
<1>7. Right(PlanOf, o, h, j)
  BY <1>3, <1>4, <1>5, <1>6 DEF Right, First, Following, Kinds
<1>a. head[o].state = "none" /\ head[o].draft = None /\ head[o].done = 0 /\ head[o].attempted = FALSE
  BY <1>2, NoHeadFields
<1>b. Grows(head[o], h)
  BY <1>a, <1>4 DEF Grows, GivenUp
<1>8. Still(o, h, j)
  BY <1>a, <1>4, <1>5 DEF Still
<1> QED
  BY <1>2, <1>b, <1>7, <1>8 DEF Turn, Step

\* ReadDraft is such a step.
LEMMA ReadDraftTurns == ASSUME Inv, NEW o \in Operations, ReadDraft(o) PROVE Turn(o)
<1>1. PICK d \in IF head[o].kind = "open" THEN Drafts ELSE {head[o].draft} :
         job' = [job EXCEPT ![o] = IF d = None THEN [Idle EXCEPT !.pc = "ready"]
            ELSE [pc |-> "ready", draft |-> d, tag |-> version[d], marker |-> marker[d]]]
  BY DEF ReadDraft
<1> DEFINE h == head[o]
           j == IF d = None THEN [Idle EXCEPT !.pc = "ready"]
                ELSE [pc |-> "ready", draft |-> d, tag |-> version[d], marker |-> marker[d]]
<1>2. /\ h.state = "preparing" /\ job' = [job EXCEPT ![o] = j] /\ head' = [head EXCEPT ![o] = h]
      /\ UNCHANGED <<wire, landed, scenario, marker, version, content, sent>>
  BY <1>1, Known DEF ReadDraft, world, provider, Inv, TypeOK
<1>3. d \in Drafts \cup {None}
  BY <1>1, Known DEF Record
<1>4. j \in Job /\ j.pc = "ready" /\ j.draft = d
  BY <1>3 DEF Idle, Job, Steps, Inv, TypeOK
<1>5. h.kind = "open" => d # None
  BY <1>1, MailAssumption
<1> HIDE DEF j
<1>6. Right(PlanOf, o, h, j)
  BY <1>2, <1>4, <1>5, Known DEF Right
<1>7. Grows(head[o], h) /\ Still(o, h, j)
  BY <1>2, <1>4, Known DEF Grows, Still
<1> QED
  BY <1>2, <1>6, <1>7 DEF Turn, Step

\* Prepared is such a step.
LEMMA PreparedTurns == ASSUME Inv, NEW o \in Operations, Prepared(o) PROVE Turn(o)
<1> DEFINE h == [head[o] EXCEPT !.state = "prepared", !.key = job[o].tag]
<1>1. /\ head[o].state = "preparing" /\ head[o].kind # "open"
      /\ job' = [job EXCEPT ![o] = Idle] /\ head' = [head EXCEPT ![o] = h]
      /\ UNCHANGED <<wire, landed, scenario, marker, version, content, sent>>
  BY DEF Prepared, Become, End, world, provider
<1>2. Right(PlanOf, o, head[o], job[o]) /\ head[o] \in Record /\ job[o] \in Job /\ head[o].done \in Nat
  BY Known
<1>3. /\ h.state = "prepared" /\ h.kind = head[o].kind /\ h.writer = head[o].writer
      /\ h.previous = head[o].previous /\ h.draft = head[o].draft /\ h.done = head[o].done
      /\ h.attempted = head[o].attempted /\ h \in Record
  BY <1>2 DEF Record, States, Job
<1>4. Idle \in Job /\ Idle.pc = "idle"
  BY DEF Idle, Job, Steps, None
<1> HIDE DEF h
<1>5. Right(PlanOf, o, h, Idle)
  BY <1>1, <1>2, <1>3, <1>4 DEF Right
<1>6. Grows(head[o], h) /\ Still(o, h, Idle)
  BY <1>1, <1>2, <1>3, <1>4 DEF Grows, Still, Right, GivenUp
<1> QED
  BY <1>1, <1>5, <1>6 DEF Turn, Step

\* Opened is such a step.
LEMMA OpenedTurns == ASSUME Inv, NEW o \in Operations, Opened(o) PROVE Turn(o)
<1> DEFINE h == [head[o] EXCEPT !.state = "saved", !.draft = job[o].draft, !.key = job[o].tag]
<1>1. /\ head[o].state = "preparing" /\ head[o].kind = "open" /\ job[o].pc = "ready"
      /\ job' = [job EXCEPT ![o] = Idle] /\ head' = [head EXCEPT ![o] = h]
      /\ UNCHANGED <<wire, landed, scenario, marker, version, content, sent>>
  BY DEF Opened, Become, End, world, provider
<1>2. Right(PlanOf, o, head[o], job[o]) /\ head[o] \in Record /\ job[o] \in Job /\ head[o].done \in Nat
  BY Known
<1>3. /\ h.state = "saved" /\ h.kind = head[o].kind /\ h.writer = head[o].writer
      /\ h.previous = head[o].previous /\ h.draft = job[o].draft /\ h.done = head[o].done
      /\ h.attempted = head[o].attempted /\ h \in Record
  BY <1>2 DEF Record, States, Job
<1>4. Idle \in Job /\ Idle.pc = "idle"
  BY DEF Idle, Job, Steps, None
<1>5. Len(PlanOf["open"]) = 0
  BY PlanFacts DEF Planned, AllKinds, Kinds, First
<1> HIDE DEF h
<1>6. Right(PlanOf, o, h, Idle)
  BY <1>1, <1>2, <1>3, <1>4, <1>5 DEF Right, Sends, Following
<1>7. Grows(head[o], h) /\ Still(o, h, Idle)
  BY <1>1, <1>2, <1>3, <1>4 DEF Grows, Still, Right, GivenUp
<1> QED
  BY <1>1, <1>6, <1>7 DEF Turn, Step

\* The record takes another state, and nothing else.
LEMMA StateTurns ==
  ASSUME Inv, NEW o \in Operations, NEW s \in States, NEW j \in Job,
         s # "none", head[o].state # "none", head[o].state \in GivenUp => s \in GivenUp,
         j.pc = "refused" => job[o].pc = "refused",
         Right(PlanOf, o, [head[o] EXCEPT !.state = s], j),
         head' = [head EXCEPT ![o].state = s], job' = [job EXCEPT ![o] = j],
         UNCHANGED <<world, provider>>
  PROVE  Turn(o)
<1> DEFINE h == [head[o] EXCEPT !.state = s]
<1>1. head[o] \in Record /\ head[o].done \in Nat
  BY Known
<1>2. head' = [head EXCEPT ![o] = h]
  BY DEF Inv, TypeOK
<1>3. /\ h.state = s /\ h.kind = head[o].kind /\ h.writer = head[o].writer
      /\ h.previous = head[o].previous /\ h.draft = head[o].draft /\ h.done = head[o].done
      /\ h.attempted = head[o].attempted /\ h.key = head[o].key
  BY <1>1 DEF Record
<1> HIDE DEF h
<1>4. Grows(head[o], h) /\ Still(o, h, j)
  BY <1>1, <1>3 DEF Grows, Still
<1> QED
  BY <1>2, <1>4 DEF Turn, Step, h, world, provider

\* Setting the state of a record leaves its other fields.
LEMMA StateFields ==
  ASSUME NEW r \in Record, NEW s \in States, NEW h, h = [r EXCEPT !.state = s]
  PROVE  /\ h \in Record /\ h.state = s /\ h.kind = r.kind /\ h.writer = r.writer
         /\ h.previous = r.previous /\ h.draft = r.draft /\ h.done = r.done
         /\ h.attempted = r.attempted /\ h.key = r.key /\ r.done \in Nat
BY DEF Record

\* Setting the step of a function leaves its other fields.
LEMMA JobFields ==
  ASSUME NEW o \in Operations, Inv, NEW pc \in Steps
  PROVE  /\ [job[o] EXCEPT !.pc = pc] \in Job
         /\ [job[o] EXCEPT !.pc = pc].pc = pc
         /\ [job EXCEPT ![o].pc = pc] = [job EXCEPT ![o] = [job[o] EXCEPT !.pc = pc]]
BY DEF Job, Inv, TypeOK

\* A function that does not run is well typed.
LEMMA IdleFields == Idle \in Job /\ Idle.pc = "idle"
BY DEF Idle, Job, Steps

\* A stage that reads a draft has one.
LEMMA StageHasDraft ==
  ASSUME Inv, NEW o \in Operations, Left(o), Reads(Stage(o))
  PROVE  head[o].draft \in Drafts /\ (head[o].kind \in Following \/ head[o].done > 0)
<1>1. Right(PlanOf, o, head[o], job[o]) /\ head[o] \in Record /\ head[o].kind \in AllKinds
  BY Known
<1>2. /\ head[o].done + 1 \in 1 .. Len(PlanOf[head[o].kind])
      /\ Stage(o) = PlanOf[head[o].kind][head[o].done + 1]
  BY Known
<1>3. head[o].kind \in Following \/ head[o].done > 0
  BY <1>1, <1>2, PlanFacts, Known DEF Planned
<1>4. head[o].kind # "send" /\ head[o].kind \notin {"open", None}
  BY <1>1, <1>2, PlanFacts, Known DEF Planned, Reads
<1>5. head[o].draft # None
  BY <1>1, <1>3, <1>4, MailAssumption DEF Right, AllKinds, Kinds, First, Drafts
<1> QED
  BY <1>1, <1>3, <1>5 DEF Record

\* NotPrepared is such a step.
LEMMA NotPreparedTurns == ASSUME Inv, NEW o \in Operations, NotPrepared(o) PROVE Turn(o)
<1> DEFINE h == [head[o] EXCEPT !.state = "failed"]
<1>1. head[o].state = "preparing" /\ job' = [job EXCEPT ![o] = Idle] /\ head' = [head EXCEPT ![o].state = "failed"]
  BY DEF NotPrepared, Become, End, Inv, TypeOK
<1>2. "failed" \in States /\ "idle" \in Steps
  BY DEF States, Steps
<1>3. h \in Record /\ h.state = "failed" /\ h.kind = head[o].kind /\ h.writer = head[o].writer
      /\ h.previous = head[o].previous /\ h.draft = head[o].draft /\ h.done = head[o].done
      /\ h.attempted = head[o].attempted /\ Right(PlanOf, o, head[o], job[o]) /\ Idle \in Job /\ Idle.pc = "idle"
  BY <1>2, Known, StateFields, IdleFields
<1> HIDE DEF h
<1>4. Right(PlanOf, o, h, Idle)
  BY <1>1, <1>3 DEF Right
<1> QED
  BY <1>1, <1>2, <1>3, <1>4, StateTurns DEF NotPrepared, h, GivenUp

\* Confirm is such a step.
LEMMA ConfirmTurns == ASSUME Inv, NEW o \in Operations, Confirm(o) PROVE Turn(o)
<1> DEFINE h == [head[o] EXCEPT !.state = "running"]
           j == [job[o] EXCEPT !.pc = "reading"]
<1>2. "running" \in States /\ "reading" \in Steps
  BY DEF States, Steps
<1>1. /\ head[o].state \in {"prepared", "interrupted"}
      /\ job' = [job EXCEPT ![o] = j] /\ head' = [head EXCEPT ![o].state = "running"]
  BY <1>2, JobFields DEF Confirm, Confirmable, Become, Go, Inv, TypeOK
<1>3. h \in Record /\ h.state = "running" /\ h.kind = head[o].kind /\ h.writer = head[o].writer
      /\ h.previous = head[o].previous /\ h.draft = head[o].draft /\ h.done = head[o].done
      /\ h.attempted = head[o].attempted /\ Right(PlanOf, o, head[o], job[o]) /\ j \in Job /\ j.pc = "reading"
  BY <1>2, Known, StateFields, JobFields
<1> HIDE DEF h, j
<1>4. Right(PlanOf, o, h, j)
  BY <1>1, <1>3 DEF Right
<1> QED
  BY <1>1, <1>2, <1>3, <1>4, StateTurns DEF Confirm, h, GivenUp

\* Cancel is such a step.
LEMMA CancelTurns == ASSUME Inv, NEW o \in Operations, Cancel(o) PROVE Turn(o)
<1> DEFINE h == [head[o] EXCEPT !.state = "cancelled"]
<1>1. /\ head[o].state \in {"prepared", "interrupted"} /\ job[o].pc = "idle"
      /\ job' = [job EXCEPT ![o] = job[o]] /\ head' = [head EXCEPT ![o].state = "cancelled"]
  BY DEF Cancel, Confirmable, Become, service, Inv, TypeOK
<1>2. "cancelled" \in States
  BY DEF States
<1>3. h \in Record /\ h.state = "cancelled" /\ h.kind = head[o].kind /\ h.writer = head[o].writer
      /\ h.previous = head[o].previous /\ h.draft = head[o].draft /\ h.done = head[o].done
      /\ h.attempted = head[o].attempted /\ Right(PlanOf, o, head[o], job[o]) /\ job[o] \in Job
  BY <1>2, Known, StateFields
<1> HIDE DEF h
<1>4. Right(PlanOf, o, h, job[o])
  BY <1>1, <1>3 DEF Right
<1> QED
  BY <1>1, <1>2, <1>3, <1>4, StateTurns DEF Cancel, h, GivenUp

\* The record stays, and the function moves.
LEMMA JobTurns ==
  ASSUME Inv, NEW o \in Operations, NEW j \in Job, Right(PlanOf, o, head[o], j),
         j.pc = "refused" => job[o].pc = "refused",
         job' = [job EXCEPT ![o] = j], UNCHANGED <<head, world, provider>>
  PROVE  Turn(o)
<1>1. head' = [head EXCEPT ![o] = head[o]] /\ head[o].done \in Nat
  BY Known DEF Inv, TypeOK
<1>2. Grows(head[o], head[o]) /\ Still(o, head[o], j)
  BY <1>1 DEF Grows, Still
<1> QED
  BY <1>1, <1>2 DEF Turn, Step, world, provider

\* Check is such a step.
LEMMA CheckTurns == ASSUME Inv, NEW o \in Operations, Check(o) PROVE Turn(o)
<1> DEFINE j == [job[o] EXCEPT !.pc = "checking"]
<1>1. "checking" \in Steps
  BY DEF Steps
<1>2. head[o].state \in {"uncertain", "interrupted"} /\ job' = [job EXCEPT ![o] = j] /\ j \in Job /\ j.pc = "checking"
  BY <1>1, JobFields DEF Check, Go, Inv, TypeOK
<1> HIDE DEF j
<1>3. Right(PlanOf, o, head[o], j)
  BY <1>2, Known DEF Right
<1> QED
  BY <1>2, <1>3, JobTurns DEF Check

\* NotFound is such a step.
LEMMA NotFoundTurns == ASSUME Inv, NEW o \in Operations, NotFound(o) PROVE Turn(o)
<1>1. "idle" \in Steps
  BY DEF Steps
<1>2. job[o].pc = "checking" /\ job' = [job EXCEPT ![o] = Idle] /\ Idle \in Job /\ Idle.pc = "idle"
  BY <1>1, IdleFields DEF NotFound, End
<1>3. head[o].state \in {"uncertain", "interrupted"}
  BY <1>2, Known DEF Right, Job, Record, States
<1>4. Right(PlanOf, o, head[o], Idle)
  BY <1>2, <1>3, Known DEF Right
<1> QED
  BY <1>2, <1>4, JobTurns DEF NotFound

\* Read is such a step.
LEMMA ReadTurns == ASSUME Inv, NEW o \in Operations, Read(o) PROVE Turn(o)
<1> DEFINE t == IF Reads(Stage(o)) THEN version[head[o].draft] ELSE 0
           j == [job[o] EXCEPT !.pc = "ready", !.tag = t]
<1>0. Left(o) /\ head[o].state = "running" /\ job[o].pc = "reading"
  BY DEF Read
<1>1. t \in Nat
  <2>1. CASE Reads(Stage(o))
    <3>1. head[o].draft \in Drafts
      BY <1>0, <2>1, StageHasDraft
    <3>2. QED
      BY <2>1, <3>1 DEF Inv, TypeOK
  <2>2. CASE ~Reads(Stage(o))
    BY <2>2
  <2>3. QED
    BY <2>1, <2>2
<1>2. job' = [job EXCEPT ![o] = j]
  BY DEF Read, Inv, TypeOK
<1> HIDE DEF t
<1>3. j \in Job /\ j.pc = "ready"
  BY <1>1, Known DEF Job, Steps
<1> HIDE DEF j
<1>4. Right(PlanOf, o, head[o], j)
  BY <1>0, <1>3, Known DEF Right
<1> QED
  BY <1>2, <1>3, <1>4, JobTurns DEF Read

\* Finish is such a step.
LEMMA FinishTurns == ASSUME Inv, NEW o \in Operations, Finish(o) PROVE Turn(o)
<1> DEFINE h == [head[o] EXCEPT !.state = Final(o)]
<1>1. head[o].state = "running" /\ ~Left(o) /\ job[o].pc \in {"reading", "finish"}
      /\ job' = [job EXCEPT ![o] = Idle] /\ head' = [head EXCEPT ![o].state = Final(o)]
  BY DEF Finish, Become, End, Inv, TypeOK
<1>2. Final(o) \in States /\ "idle" \in Steps /\ Final(o) = (IF head[o].kind \in Sends THEN "accepted" ELSE "saved")
  BY DEF States, Steps, Final
<1>3. h \in Record /\ h.state = Final(o) /\ h.kind = head[o].kind /\ h.writer = head[o].writer
      /\ h.previous = head[o].previous /\ h.draft = head[o].draft /\ h.done = head[o].done
      /\ h.attempted = head[o].attempted /\ Right(PlanOf, o, head[o], job[o]) /\ Idle \in Job /\ Idle.pc = "idle"
  BY <1>2, Known, StateFields, IdleFields
<1>5. head[o].done = Len(PlanOf[head[o].kind])
  <2>1. Len(PlanOf[head[o].kind]) \in Nat
    BY Known, PlanFacts DEF Planned
  <2>2. QED
    BY <1>1, <2>1, Known DEF Right
<1> HIDE DEF h
<1>4. Right(PlanOf, o, h, Idle)
  BY <1>1, <1>2, <1>3, <1>5 DEF Right
<1> QED
  BY <1>1, <1>2, <1>3, <1>4, StateTurns DEF Finish, h, GivenUp

\* A stage that took place, was refused or was not attempted has no request under way.
LEMMA LandedIsOver ==
  ASSUME Inv, NEW o \in Operations, landed[o][head[o].done + 1] > 0 \/ ~head[o].attempted \/ job[o].pc = "refused"
  PROVE  ~InWire(o)
BY DEF Inv, Wired, Awaited, InWire

\* What took place are the stages the record completes.
LEMMA DoneNow ==
  ASSUME Inv, NEW o \in Operations, NEW n \in 0 .. MaxStages,
         \/ n = head[o].done /\ ~head[o].attempted
         \/ n = head[o].done /\ job[o].pc = "refused"
         \/ n = head[o].done + 1 /\ landed[o][n] > 0
  PROVE  \A k \in 1 .. MaxStages : landed[o][k] = 1 <=> k <= n
<1>1. Covered(o) /\ head[o].done \in Nat
  BY Known
<1>2. n = head[o].done /\ job[o].pc = "refused" => \A k \in 1 .. MaxStages : k = n + 1 => landed[o][k] = 0
  BY <1>1 DEF Covered
<1>3. n = head[o].done + 1 => n \in 1 .. MaxStages
  BY <1>1
<1> QED
  BY <1>1, <1>2, <1>3 DEF Covered, MaxStages

\* Fail is such a step.
LEMMA FailTurns == ASSUME Inv, NEW o \in Operations, Fail(o) PROVE Turn(o)
<1>1. /\ head[o].state = "running" /\ job' = [job EXCEPT ![o] = Idle]
      /\ UNCHANGED <<world, provider>>
  BY DEF Fail, End
<1>2. Stopped(o) = (IF head[o].done > 0 THEN "interrupted" ELSE "failed") /\ Stopped(o) \in States /\ "uncertain" \in States
  BY DEF Stopped, States
<1>3. Right(PlanOf, o, head[o], job[o]) /\ head[o] \in Record /\ head[o].done \in Nat /\ Idle \in Job /\ Idle.pc = "idle"
  BY Known, IdleFields
<1>4. CASE job[o].pc \in {"reading", "ready"} /\ Become(o, [head[o] EXCEPT !.state = Stopped(o)])
  <2> DEFINE h == [head[o] EXCEPT !.state = Stopped(o)]
  <2>1. head' = [head EXCEPT ![o].state = Stopped(o)]
    BY <1>4 DEF Become, Inv, TypeOK
  <2>2. h \in Record /\ h.state = Stopped(o) /\ h.kind = head[o].kind /\ h.writer = head[o].writer
        /\ h.previous = head[o].previous /\ h.draft = head[o].draft /\ h.done = head[o].done
        /\ h.attempted = head[o].attempted
    BY <1>2, <1>3, StateFields
  <2> HIDE DEF h
  <2>3. Right(PlanOf, o, h, Idle)
    BY <1>1, <1>2, <1>3, <1>4, <2>2 DEF Right
  <2> QED
    BY <1>1, <1>2, <1>3, <2>1, <2>3, StateTurns DEF h, GivenUp
<1>5. CASE job[o].pc \in {"call", "refused"} /\ Become(o, [head[o] EXCEPT !.state = "uncertain"])
  <2> DEFINE h == [head[o] EXCEPT !.state = "uncertain"]
  <2>1. head' = [head EXCEPT ![o].state = "uncertain"]
    BY <1>5 DEF Become, Inv, TypeOK
  <2>2. h \in Record /\ h.state = "uncertain" /\ h.kind = head[o].kind /\ h.writer = head[o].writer
        /\ h.previous = head[o].previous /\ h.draft = head[o].draft /\ h.done = head[o].done
        /\ h.attempted = head[o].attempted
    BY <1>2, <1>3, StateFields
  <2> HIDE DEF h
  <2>3. Right(PlanOf, o, h, Idle)
    BY <1>1, <1>2, <1>3, <1>5, <2>2 DEF Right
  <2> QED
    BY <1>1, <1>2, <1>3, <2>1, <2>3, StateTurns DEF h, GivenUp
<1>6. CASE job[o].pc = "refused" /\ Become(o, [head[o] EXCEPT !.state = Stopped(o), !.attempted = FALSE])
  <2> DEFINE h == [head[o] EXCEPT !.state = Stopped(o), !.attempted = FALSE]
  <2>1. head' = [head EXCEPT ![o] = h]
    BY <1>6 DEF Become
  <2>2. h \in Record /\ h.state = Stopped(o) /\ h.kind = head[o].kind /\ h.writer = head[o].writer
        /\ h.previous = head[o].previous /\ h.draft = head[o].draft /\ h.done = head[o].done
        /\ h.attempted = FALSE
    BY <1>2, <1>3 DEF Record
  <2> HIDE DEF h
  <2>3. Right(PlanOf, o, h, Idle)
    BY <1>1, <1>2, <1>3, <1>6, <2>2 DEF Right
  <2>4. Grows(head[o], h)
    BY <1>1, <1>2, <1>3, <2>2 DEF Grows, GivenUp
  <2>5. head[o].done \in 0 .. MaxStages
    BY <1>3 DEF Record
  <2>6. Closes(o, h, Idle)
    BY <1>2, <1>3, <1>6, <2>2, <2>5, LandedIsOver, DoneNow DEF Closes
  <2> QED
    BY <1>1, <2>1, <2>3, <2>4, <2>6 DEF Turn, Step, world, provider
<1> QED
  BY <1>4, <1>5, <1>6 DEF Fail

\* Answered is such a step.
LEMMA AnsweredTurns == ASSUME Inv, NEW o \in Operations, Answered(o) PROVE Turn(o)
<1> DEFINE d == IF Stage(o) \in Creating THEN o ELSE head[o].draft
           h == [head[o] EXCEPT !.attempted = FALSE, !.done = @ + 1, !.draft = d, !.key = job[o].tag]
           pc == IF head[o].done + 1 < Len(Stages(o)) THEN "reading" ELSE "finish"
           j == [job[o] EXCEPT !.pc = pc]
<1>1. Right(PlanOf, o, head[o], job[o]) /\ head[o] \in Record /\ job[o] \in Job /\ head[o].done \in Nat
      /\ head[o].kind \in AllKinds
  BY Known
<1>2. /\ job[o].pc = "call" /\ landed[o][head[o].done + 1] > 0
      /\ head' = [head EXCEPT ![o] = h] /\ job' = [job EXCEPT ![o] = j]
      /\ UNCHANGED <<world, provider>>
  BY DEF Answered, Become, Go, Inv, TypeOK, Creating
<1>3. head[o].state = "running" /\ head[o].attempted /\ Left(o)
  BY <1>1, <1>2, Known DEF Right, Record, States
<1>4. /\ head[o].done + 1 \in 1 .. Len(PlanOf[head[o].kind]) /\ head[o].done + 1 \in 0 .. MaxStages
      /\ Stage(o) = PlanOf[head[o].kind][head[o].done + 1] /\ Stages(o) = PlanOf[head[o].kind]
      /\ Len(PlanOf[head[o].kind]) \in Nat
  BY <1>1, <1>3, Known, PlanFacts DEF Planned
<1>5. d \in Drafts \cup {None} /\ (Stage(o) \in Creating <=> head[o].kind \in {"draft", "reply"} /\ head[o].done = 0)
  <2>1. Stage(o) \in Creating <=> head[o].kind \in {"draft", "reply"} /\ head[o].done + 1 = 1
    BY <1>1, <1>4, PlanFacts DEF Planned
  <2>2. QED
    BY <1>1, <2>1 DEF Record, Drafts
<1>6. /\ h \in Record /\ h.state = "running" /\ h.kind = head[o].kind /\ h.writer = head[o].writer
      /\ h.previous = head[o].previous /\ h.draft = d /\ h.done = head[o].done + 1 /\ h.attempted = FALSE
  BY <1>1, <1>3, <1>4, <1>5 DEF Record, Job
<1>7. j \in Job /\ j.pc = pc
  BY <1>1 DEF Job, Steps
<1>8. /\ h.done = Len(PlanOf[h.kind]) <=> pc = "finish"
      /\ pc \in {"reading", "finish"} /\ h.done <= Len(PlanOf[h.kind])
  BY <1>4, <1>6
<1> HIDE DEF h, j, pc
<1>9. Right(PlanOf, o, h, j)
  BY <1>1, <1>3, <1>5, <1>6, <1>7, <1>8 DEF Right, Following
<1>10. Grows(head[o], h)
  BY <1>1, <1>3, <1>5, <1>6 DEF Grows, GivenUp, Right
<1>11. Closes(o, h, j)
  BY <1>1, <1>2, <1>4, <1>6, <1>7, <1>8, LandedIsOver, DoneNow DEF Closes
<1> QED
  BY <1>2, <1>9, <1>10, <1>11 DEF Turn, Step, world, provider

\* The stages that save a draft come first.
LEMMA SavingStages ==
  ASSUME Inv, NEW o \in Operations
  PROVE  /\ Saves(PlanOf, head[o].kind) \in 0 .. MaxStages
         /\ Saves(PlanOf, head[o].kind) <= Len(PlanOf[head[o].kind])
         /\ Saving(o) = 1 .. Saves(PlanOf, head[o].kind)
         /\ Cardinality(Saving(o)) = Saves(PlanOf, head[o].kind)
<1> DEFINE k == head[o].kind
           n == Saves(PlanOf, k)
<1>1. k \in AllKinds /\ Stages(o) = PlanOf[k]
  BY Known
<1>2. /\ PlanOf[k] \in Seq(StageNames) /\ Len(PlanOf[k]) \in 0 .. MaxStages
      /\ n \in 0 .. Len(PlanOf[k])
      /\ \A i \in 1 .. Len(PlanOf[k]) : PlanOf[k][i] \in {"send", "send-draft"} <=> i > n
  BY <1>1, PlanFacts DEF Planned
<1>3. DOMAIN PlanOf[k] = 1 .. Len(PlanOf[k])
  BY <1>2
<1>4. n \in 0 .. MaxStages
  BY <1>2 DEF MaxStages
<1> HIDE DEF n
<1>5. Saving(o) = 1 .. n
  BY <1>1, <1>2, <1>3, <1>4 DEF Saving
<1>6. Cardinality(1 .. n) = n
  <2>1. n \in Int /\ 1 \in Int /\ n \in Nat
    BY <1>4
  <2>2. Cardinality(1 .. n) = IF 1 > n THEN 0 ELSE n - 1 + 1
    BY <2>1, FS_Interval
  <2>3. QED
    BY <2>1, <2>2
<1> QED
  BY <1>2, <1>4, <1>5, <1>6 DEF n

\* Found is such a step: when what was looked for is a file of the draft,
LEMMA FileFoundTurns ==
  ASSUME Inv, NEW o \in Operations, Found(o), FileFound(o) PROVE Turn(o)
<1> DEFINE h == [head[o] EXCEPT !.state = "interrupted", !.attempted = FALSE, !.done = @ + 1, !.key = @ + 1]
<1>1. Right(PlanOf, o, head[o], job[o]) /\ head[o] \in Record /\ head[o].done \in Nat
      /\ head[o].kind \in AllKinds /\ Idle \in Job /\ Idle.pc = "idle"
  BY Known, IdleFields
<1>2. /\ head[o].attempted /\ landed[o][head[o].done + 1] > 0 /\ Stage(o) = "update-file"
      /\ head' = [head EXCEPT ![o] = h] /\ job' = [job EXCEPT ![o] = Idle]
      /\ UNCHANGED <<world, provider>>
  BY DEF Found, FileFound, Become, End, Inv, TypeOK
<1>3. head[o].state \in {"running", "uncertain"} /\ Left(o)
  BY <1>1, <1>2, Known DEF Right
<1>4. /\ head[o].done + 1 \in 1 .. Len(PlanOf[head[o].kind]) /\ head[o].done + 1 \in 0 .. MaxStages
      /\ Stage(o) = PlanOf[head[o].kind][head[o].done + 1]
      /\ Len(PlanOf[head[o].kind]) \in Nat
  BY <1>1, <1>3, Known, PlanFacts DEF Planned
<1>5. head[o].kind \in Following \/ head[o].done > 0
  BY <1>2, <1>3, StageHasDraft DEF Reads
<1>a. head[o].key + 1 \in Nat
  BY <1>1 DEF Record
<1>6. /\ h \in Record /\ h.state = "interrupted" /\ h.kind = head[o].kind /\ h.writer = head[o].writer
      /\ h.previous = head[o].previous /\ h.draft = head[o].draft /\ h.done = head[o].done + 1 /\ h.attempted = FALSE
  BY <1>1, <1>4, <1>a DEF Record, States
<1> HIDE DEF h
<1>7. Right(PlanOf, o, h, Idle)
  BY <1>1, <1>3, <1>4, <1>5, <1>6 DEF Right, Following
<1>8. Grows(head[o], h)
  BY <1>1, <1>3, <1>6 DEF Grows, GivenUp
<1>9. Closes(o, h, Idle)
  BY <1>1, <1>2, <1>4, <1>6, LandedIsOver, DoneNow DEF Closes
<1> QED
  BY <1>2, <1>7, <1>8, <1>9 DEF Turn, Step, world, provider

\* What is shown of a draft tells which of its stages took place.
LEMMA ShownIsSaved ==
  ASSUME Inv, NEW o \in Operations, DraftFound(o)
  PROVE  LET n == Saves(PlanOf, head[o].kind) IN
         /\ n > 0
         /\ \/ n = head[o].done /\ ~head[o].attempted
            \/ n = head[o].done + 1 /\ landed[o][n] > 0 /\ head[o].attempted
<1> DEFINE n == Saves(PlanOf, head[o].kind)
<1>1. n \in 0 .. MaxStages /\ Saving(o) = 1 .. n /\ Cardinality(Saving(o)) = n
      /\ Right(PlanOf, o, head[o], job[o]) /\ head[o].kind \in AllKinds /\ head[o].done \in Nat /\ Covered(o)
  BY SavingStages, Known
<1>2. n > 0 /\ head[o].done <= n
  BY <1>1 DEF DraftFound
<1>3. landed[o][n] = 1 \/ head[o].done >= n
  <2>1. SavedAs(o) \in Drafts
    BY Known DEF SavedAs, Record, Drafts
  <2>2. CASE marker[SavedAs(o)] = o
    BY <2>1, <2>2 DEF Inv, Marked, SaidBy
  <2>3. CASE marker[SavedAs(o)] # o
    BY <1>1, <2>3 DEF DraftFound, DraftShown
  <2>4. QED
    BY <2>2, <2>3
<1>4. CASE head[o].done = n
  <2>1. SUFFICES ASSUME head[o].attempted PROVE FALSE
    BY <1>2, <1>4
  <2>2. Left(o)
    BY <2>1, Known DEF Right
  <2>3. Stage(o) \in {"send", "send-draft"} /\ (Stage(o) = "send" <=> head[o].kind = "send")
    BY <1>1, <1>4, <2>2, Known, PlanFacts DEF Planned
  <2>4. Stage(o) = "send"
    BY <2>1, <2>3 DEF DraftFound
  <2>5. Len(PlanOf["send"]) > 1
    BY <1>2, <2>3, <2>4 DEF Saves, Sends
  <2>6. PlanOf["send"][2] = "send" /\ Reads(PlanOf["send"][2])
    BY <2>5, PlanFacts DEF Planned, AllKinds, Kinds, First
  <2>7. QED
    BY <2>6 DEF Reads
<1>5. CASE head[o].done # n
  <2>1. landed[o][n] = 1 /\ n \in 1 .. MaxStages
    BY <1>1, <1>2, <1>3, <1>5
  <2>2. n <= head[o].done \/ (n = head[o].done + 1 /\ head[o].attempted)
    BY <1>1, <2>1 DEF Covered
  <2>3. QED
    BY <1>1, <1>2, <1>5, <2>1, <2>2
<1> QED
  BY <1>4, <1>5

\* ... when it is the draft,
LEMMA DraftFoundTurns ==
  ASSUME Inv, NEW o \in Operations, Found(o), DraftFound(o) PROVE Turn(o)
<1> DEFINE n == Saves(PlanOf, head[o].kind)
           s == IF head[o].kind \in Sends THEN "interrupted" ELSE "saved"
           h == [head[o] EXCEPT !.attempted = FALSE, !.done = n, !.draft = SavedAs(o),
                                !.key = version[SavedAs(o)], !.state = s]
<1>1. Right(PlanOf, o, head[o], job[o]) /\ head[o] \in Record /\ head[o].done \in Nat /\ job[o] \in Job
      /\ head[o].kind \in AllKinds /\ Idle \in Job /\ Idle.pc = "idle"
  BY Known, IdleFields
<1>2. n \in 0 .. MaxStages /\ Cardinality(Saving(o)) = n /\ n <= Len(PlanOf[head[o].kind])
      /\ Len(PlanOf[head[o].kind]) \in Nat
      /\ (head[o].kind \notin Sends => n = Len(PlanOf[head[o].kind]))
  BY <1>1, SavingStages, PlanFacts DEF Planned, Saves
<1>3. n > 0 /\ ((n = head[o].done /\ ~head[o].attempted) \/ (n = head[o].done + 1 /\ landed[o][n] > 0 /\ head[o].attempted))
  BY ShownIsSaved
<1>4. /\ job[o].pc = "checking"
      /\ head' = [head EXCEPT ![o] = h] /\ job' = [job EXCEPT ![o] = Idle]
      /\ UNCHANGED <<world, provider>>
  BY <1>2 DEF Found, DraftFound, Become, End, Inv, TypeOK
<1>5. head[o].state \in {"uncertain", "interrupted"}
  BY <1>1, <1>4 DEF Right, Record, States
<1>6. SavedAs(o) \in Drafts /\ version[SavedAs(o)] \in Nat /\ SavedAs(o) = IF head[o].draft = None THEN o ELSE head[o].draft
  BY <1>1 DEF SavedAs, Record, Drafts, Inv, TypeOK
<1>7. /\ h \in Record /\ h.state = s /\ h.kind = head[o].kind /\ h.writer = head[o].writer
      /\ h.previous = head[o].previous /\ h.draft = SavedAs(o) /\ h.done = n /\ h.attempted = FALSE
  BY <1>1, <1>2, <1>6 DEF Record, States
<1>8. head[o].kind \notin {"open", "send", None}
  <2>1. Len(PlanOf["open"]) = 0 /\ Len(PlanOf[None]) = 0
    BY PlanFacts DEF Planned, AllKinds, Kinds, First
  <2>2. CASE head[o].kind = "send"
    <3>1. Len(PlanOf["send"]) > 1
      BY <1>2, <1>3, <2>2 DEF Saves, Sends
    <3>2. PlanOf["send"][2] = "send" /\ Reads(PlanOf["send"][2])
      BY <1>2, <3>1, <2>2, PlanFacts DEF Planned, AllKinds, Kinds, First
    <3>3. QED
      BY <3>2 DEF Reads
  <2>3. QED
    BY <1>2, <1>3, <2>1, <2>2
<1>9. SavedAs(o) # None
  BY <1>6, MailAssumption
<1> HIDE DEF h, n
<1>10. Right(PlanOf, o, h, Idle)
  BY <1>1, <1>2, <1>3, <1>5, <1>6, <1>7, <1>8, <1>9 DEF Right, Following
<1>11. Grows(head[o], h)
  BY <1>1, <1>3, <1>5, <1>6, <1>7 DEF Grows, GivenUp
<1>12. Closes(o, h, Idle)
  BY <1>1, <1>2, <1>3, <1>7, LandedIsOver, DoneNow DEF Closes
<1> QED
  BY <1>4, <1>10, <1>11, <1>12 DEF Turn, Step, world, provider

\* ... and when it is the sent message.
LEMMA SendFoundTurns ==
  ASSUME Inv, NEW o \in Operations, Found(o), SendFound(o) PROVE Turn(o)
<1> DEFINE n == Len(PlanOf[head[o].kind])
           h == [head[o] EXCEPT !.attempted = FALSE, !.done = n, !.state = "accepted"]
<1>1. Right(PlanOf, o, head[o], job[o]) /\ head[o] \in Record /\ head[o].done \in Nat /\ job[o] \in Job
      /\ head[o].kind \in AllKinds /\ Idle \in Job /\ Idle.pc = "idle" /\ Covered(o)
  BY Known, IdleFields
<1>2. /\ job[o].pc = "checking" /\ head[o].kind \in Sends /\ sent[o] = o
      /\ head' = [head EXCEPT ![o] = h] /\ job' = [job EXCEPT ![o] = Idle]
      /\ UNCHANGED <<world, provider>>
  BY <1>1, Known DEF Found, SendFound, Become, End
<1>3. head[o].state \in {"uncertain", "interrupted"}
  BY <1>1, <1>2 DEF Right, Record, States
<1>4. n \in 0 .. MaxStages /\ head[o].done <= n /\ head[o].kind \notin {"open", None}
  BY <1>1, <1>2, PlanFacts DEF Planned, Right, Sends, None
<1>5. n \in 1 .. MaxStages /\ landed[o][n] = 1
  <2>1. "nothing" # o /\ n # 0
    BY <1>1, <1>4, PlanFacts, MailAssumption DEF Drafts, Planned
  <2>2. QED
    BY <1>2, <1>4, <2>1 DEF Inv, Posted
<1>6. (n = head[o].done /\ ~head[o].attempted) \/ (n = head[o].done + 1 /\ landed[o][n] > 0)
  BY <1>1, <1>4, <1>5 DEF Covered, Right
<1>7. /\ h \in Record /\ h.state = "accepted" /\ h.kind = head[o].kind /\ h.writer = head[o].writer
      /\ h.previous = head[o].previous /\ h.draft = head[o].draft /\ h.done = n /\ h.attempted = FALSE
  BY <1>1, <1>4 DEF Record, States
<1> HIDE DEF h
<1>8. Right(PlanOf, o, h, Idle)
  BY <1>1, <1>2, <1>3, <1>4, <1>7 DEF Right, Sends
<1>9. Grows(head[o], h)
  BY <1>1, <1>3, <1>4, <1>7 DEF Grows, GivenUp
<1>10. Closes(o, h, Idle)
  BY <1>1, <1>4, <1>6, <1>7, LandedIsOver, DoneNow DEF Closes
<1> QED
  BY <1>2, <1>8, <1>9, <1>10 DEF Turn, Step, world, provider

\* Every request of the owner and every return of an await, but one.
LEMMA Turns ==
  ASSUME Inv, NEW o \in Operations, Request(o) \/ Work(o), ~Dispatch(o)
  PROVE  Turn(o)
<1>1. CASE Request(o)
  BY <1>1, PrepareTurns, PrepareNextTurns, ConfirmTurns, CancelTurns, CheckTurns DEF Request
<1>2. CASE Work(o)
  <2>1. Found(o) => Turn(o)
    BY FileFoundTurns, DraftFoundTurns, SendFoundTurns DEF Found
  <2>2. QED
    BY <1>2, <2>1, ReadDraftTurns, PreparedTurns, OpenedTurns, NotPreparedTurns, ReadTurns,
       AnsweredTurns, FinishTurns, FailTurns, NotFoundTurns DEF Work
<1> QED
  BY <1>1, <1>2

-----------------------------------------------------------------------------
(* Requests.                                                               *)

Pending == {wire[n] : n \in 1 .. Len(wire)}

\* The elements of two sequences joined.
LEMMA Joined ==
  ASSUME NEW S, NEW a \in Seq(S), NEW b \in Seq(S)
  PROVE  /\ a \o b \in Seq(S) /\ Len(a \o b) = Len(a) + Len(b)
         /\ \A n \in 1 .. Len(a) : (a \o b)[n] = a[n]
         /\ \A n \in 1 .. Len(b) : (a \o b)[Len(a) + n] = b[n]
OBVIOUS

\* The elements of a sequence with one left out.
LEMMA CutOut ==
  ASSUME NEW S, NEW s \in Seq(S), NEW i \in 1 .. Len(s), NEW t,
         t = SubSeq(s, 1, i - 1) \o SubSeq(s, i + 1, Len(s))
  PROVE  /\ t \in Seq(S) /\ Len(t) = Len(s) - 1
         /\ \A n \in 1 .. Len(t) : t[n] = IF n < i THEN s[n] ELSE s[n + 1]
<1>1. Len(s) \in Nat /\ i \in Nat /\ i >= 1 /\ i <= Len(s)
  OBVIOUS
<1>2. PICK a : /\ a = SubSeq(s, 1, i - 1) /\ a \in Seq(S) /\ Len(a) = i - 1
               /\ \A n \in 1 .. i - 1 : a[n] = s[n]
  <2>1. LET a == SubSeq(s, 1, i - 1) IN
        a \in Seq(S) /\ Len(a) = i - 1 /\ \A n \in 1 .. i - 1 : a[n] = s[n]
    BY <1>1
  <2>2. QED
    BY ONLY <2>1
<1>3. PICK b : /\ b = SubSeq(s, i + 1, Len(s)) /\ b \in Seq(S) /\ Len(b) = Len(s) - i
               /\ \A n \in 1 .. Len(s) - i : b[n] = s[n + i]
  <2>1. LET b == SubSeq(s, i + 1, Len(s)) IN
        b \in Seq(S) /\ Len(b) = Len(s) - i /\ \A n \in 1 .. Len(s) - i : b[n] = s[n + i]
    BY <1>1
  <2>2. QED
    BY ONLY <2>1
<1>4. t = a \o b
  BY <1>2, <1>3
<1>5. /\ t \in Seq(S) /\ Len(t) = Len(a) + Len(b)
      /\ \A n \in 1 .. Len(a) : t[n] = a[n]
      /\ \A n \in 1 .. Len(b) : t[Len(a) + n] = b[n]
  <2>1. a \in Seq(S) /\ b \in Seq(S)
    BY <1>2, <1>3
  <2>2. QED
    BY ONLY <2>1, <1>4, Joined
<1>6. Len(a) = i - 1 /\ Len(b) = Len(s) - i
  BY <1>2, <1>3
<1>a. Len(t) = Len(s) - 1
  <2>1. Len(t) = (i - 1) + (Len(s) - i)
    BY <1>5, <1>6
  <2>2. QED
    BY ONLY <2>1, <1>1
<1>7. ASSUME NEW n \in 1 .. Len(t) PROVE t[n] = IF n < i THEN s[n] ELSE s[n + 1]
  <2>1. n \in 1 .. Len(s) - 1
    BY <1>a, <1>7
  <2>3. CASE n < i
    <3>1. n \in 1 .. i - 1 /\ n \in 1 .. Len(a)
      BY ONLY <1>1, <1>6, <2>1, <2>3
    <3>2. QED
      BY ONLY <1>2, <1>5, <2>3, <3>1
  <2>4. CASE ~(n < i)
    <3>1. /\ n - (i - 1) \in 1 .. Len(s) - i /\ n - (i - 1) \in 1 .. Len(b)
          /\ (n - (i - 1)) + i = n + 1 /\ Len(a) + (n - (i - 1)) = n
      BY ONLY <1>1, <1>6, <2>1, <2>4
    <3>2. t[n] = b[n - (i - 1)]
      BY ONLY <1>5, <3>1
    <3>3. b[n - (i - 1)] = s[(n - (i - 1)) + i]
      BY ONLY <1>3, <3>1
    <3>4. QED
      BY <2>4, <3>1, <3>2, <3>3
  <2>5. QED
    BY <2>3, <2>4
<1> QED
  BY <1>5, <1>a, <1>7

\* A pending request is a call of an operation's stage.
LEMMA PendingTypes ==
  ASSUME TypeOK, NEW c \in Pending
  PROVE  c \in Call /\ c.op \in Operations /\ c.stage \in 1 .. MaxStages /\ c.tag \in Nat
BY WireTypes DEF Pending

\* A pending request is the only one of its operation and is awaited.
LEMMA PendingAwaited ==
  ASSUME Inv
  PROVE  /\ \A c \in Pending : Awaited(c)
         /\ \A c, e \in Pending : c.op = e.op => c = e
         /\ \A o \in Operations : InWire(o) <=> \E c \in Pending : c.op = o
<1>1. \A i \in 1 .. Len(wire) : Awaited(wire[i])
  BY DEF Inv, Wired
<1>2. \A i, k \in 1 .. Len(wire) : wire[i].op = wire[k].op => i = k
  BY DEF Inv, Wired
<1>3. \A c \in Pending : \E i \in 1 .. Len(wire) : c = wire[i]
  BY DEF Pending
<1>4. \A i \in 1 .. Len(wire) : wire[i] \in Pending
  BY DEF Pending
<1>5. ASSUME NEW c \in Pending, NEW e \in Pending, c.op = e.op
      PROVE  c = e
  BY <1>2, <1>3, <1>5
<1>6. ASSUME NEW o \in Operations
      PROVE  InWire(o) <=> \E c \in Pending : c.op = o
  BY <1>3, <1>4 DEF InWire
<1>7. QED
  BY <1>1, <1>3, <1>5, <1>6

\* A request that is over leaves the others.
LEMMA Taking ==
  ASSUME Inv, NEW i \in 1 .. Len(wire), Taken(i)
  PROVE  /\ wire' \in Seq(Call)
         /\ \A n, k \in 1 .. Len(wire') : wire'[n].op = wire'[k].op => n = k
         /\ Pending' = Pending \ {wire[i]}
<1>1. wire \in Seq(Call) /\ Len(wire) \in Nat /\ i \in Nat
  BY DEF Inv, TypeOK
<1>2. wire' \in Seq(Call) /\ Len(wire') = Len(wire) - 1
      /\ \A n \in 1 .. Len(wire') : wire'[n] = IF n < i THEN wire[n] ELSE wire[n + 1]
  BY <1>1, CutOut DEF Taken
<1>3. \A m, k \in 1 .. Len(wire) : wire[m].op = wire[k].op => m = k
  BY DEF Inv, Wired
<1>4. ASSUME NEW n \in 1 .. Len(wire'), NEW k \in 1 .. Len(wire'), wire'[n].op = wire'[k].op
      PROVE  n = k
  <2> DEFINE m(x) == IF x < i THEN x ELSE x + 1
  <2>1. m(n) \in 1 .. Len(wire) /\ m(k) \in 1 .. Len(wire) /\ wire'[n] = wire[m(n)] /\ wire'[k] = wire[m(k)]
    BY <1>1, <1>2
  <2>2. m(n) = m(k)
    <3> HIDE DEF m
    <3> QED BY <1>3, <1>4, <2>1
  <2>3. QED
    BY <1>1, <2>2
<1>5. ASSUME NEW n \in 1 .. Len(wire') PROVE wire'[n] \in Pending \ {wire[i]}
  <2> DEFINE m == IF n < i THEN n ELSE n + 1
  <2>1. m \in 1 .. Len(wire) /\ wire'[n] = wire[m] /\ m # i
    BY <1>1, <1>2
  <2> HIDE DEF m
  <2>2. wire[m] # wire[i]
    BY <1>3, <2>1
  <2>3. QED
    BY <2>1, <2>2 DEF Pending
<1>6. ASSUME NEW m \in 1 .. Len(wire), wire[m] # wire[i] PROVE \E n \in 1 .. Len(wire') : wire'[n] = wire[m]
  <2> DEFINE n == IF m < i THEN m ELSE m - 1
  <2>1. m # i
    BY <1>6
  <2>2. n \in 1 .. Len(wire') /\ wire'[n] = wire[m]
    BY <1>1, <1>2, <2>1
  <2>3. QED
    BY <2>2
<1>7. Pending' = Pending \ {wire[i]}
  <2>1. ASSUME NEW c \in Pending' PROVE c \in Pending \ {wire[i]}
    BY <1>5, <2>1 DEF Pending
  <2>2. ASSUME NEW c \in Pending \ {wire[i]} PROVE c \in Pending'
    BY <1>6, <2>2 DEF Pending
  <2>3. QED
    BY <2>1, <2>2
<1> QED
  BY <1>2, <1>4, <1>7

\* A request made joins the others.
LEMMA Adding ==
  ASSUME Inv, NEW c \in Call, wire' = Append(wire, c), ~InWire(c.op)
  PROVE  /\ wire' \in Seq(Call)
         /\ \A n, k \in 1 .. Len(wire') : wire'[n].op = wire'[k].op => n = k
         /\ Pending' = Pending \cup {c}
<1>1. wire \in Seq(Call) /\ Len(wire) \in Nat
  BY DEF Inv, TypeOK
<1>2. wire' \in Seq(Call) /\ Len(wire') = Len(wire) + 1 /\ wire'[Len(wire) + 1] = c
      /\ \A n \in 1 .. Len(wire) : wire'[n] = wire[n]
  BY <1>1
<1>3. \A m, k \in 1 .. Len(wire) : wire[m].op = wire[k].op => m = k
  BY DEF Inv, Wired
<1>4. \A n \in 1 .. Len(wire') : n \in 1 .. Len(wire) \/ n = Len(wire) + 1
  BY <1>1, <1>2
<1>5. Len(wire) + 1 \in 1 .. Len(wire') /\ \A n \in 1 .. Len(wire) : n \in 1 .. Len(wire')
  BY <1>1, <1>2
<1>6. \A n, k \in 1 .. Len(wire') : wire'[n].op = wire'[k].op => n = k
  BY <1>2, <1>3, <1>4 DEF InWire
<1>7. Pending' = Pending \cup {c}
  BY <1>2, <1>4, <1>5 DEF Pending
<1> QED
  BY <1>2, <1>6, <1>7

\* Wired, of the requests as a set.
LEMMA WiredNow ==
  ASSUME \A n, k \in 1 .. Len(wire') : wire'[n].op = wire'[k].op => n = k,
         \A c \in Pending' : Awaited(c)'
  PROVE  Wired'
BY DEF Wired, Pending

-----------------------------------------------------------------------------
(* Requests made, taken and refused.                                       *)

\* The types of the fields of a record and of its function.
LEMMA Fields ==
  ASSUME Inv, NEW o \in Operations
  PROVE  /\ head[o].state \in States /\ head[o].kind \in AllKinds /\ head[o].draft \in Drafts \cup {None}
         /\ head[o].done \in 0 .. MaxStages /\ head[o].attempted \in BOOLEAN /\ head[o].key \in Nat
         /\ head[o].previous \in Operations \cup {None} /\ head[o].writer \in Writers \cup {None}
         /\ job[o].pc \in Steps /\ job[o].draft \in Drafts \cup {None} /\ job[o].tag \in Nat
         /\ job[o].marker \in Operations \cup {None}
BY Known DEF Record, Job

\* The stages of an operation that has any were planned when it was asked for.
LEMMA Begun ==
  ASSUME Inv, NEW o \in Operations, head[o].state = "none"
  PROVE  /\ head[o] = NoHead /\ head[o].attempted = FALSE /\ head[o].done = 0
         /\ Len(PlanOf[head[o].kind]) = 0 /\ Saves(PlanOf, head[o].kind) = 0
<1>1. head[o] = NoHead
  BY Known DEF Right
<1>2. Len(PlanOf[None]) = 0 /\ None \notin Sends
  BY PlanFacts DEF Planned, AllKinds, Sends, None
<1> QED
  BY <1>1, <1>2, NoHeadFields DEF Saves

\* A step in which nothing takes place, no marker is set and no plan changes
\* keeps what the markers and the sent messages say.
LEMMA StaysMarked ==
  ASSUME Inv, landed' = landed, sent' = sent, scenario' = scenario,
         \A d \in Drafts : \A p \in Operations : marker'[d] = p => marker[d] = p,
         \A p \in Operations : head[p].state # "none" => head'[p].kind = head[p].kind
  PROVE  Marked' /\ Posted'
<1>1. PlanOf' = PlanOf
  BY PlanStays
<1>2. ASSUME NEW p \in Operations, SaidBy(p) PROVE SaidBy(p)'
  <2>1. head[p].state # "none"
    <3>1. Saves(PlanOf, head[p].kind) > 0
      BY <1>2 DEF SaidBy
    <3>2. ASSUME head[p].state = "none" PROVE FALSE
      <4>1. Saves(PlanOf, head[p].kind) = 0
        BY <3>2, Begun
      <4>2. QED
        BY <3>1, <4>1
    <3>3. QED
      BY <3>2
  <2>2. QED
    BY <1>1, <1>2, <2>1 DEF SaidBy
<1>3. Marked'
  BY <1>2 DEF Inv, Marked
<1>4. ASSUME NEW o \in Operations, sent[o] # "nothing" PROVE head'[o].kind = head[o].kind
  <2>1. head[o].kind \in Sends
    BY <1>4 DEF Inv, Posted
  <2>2. QED
    BY <2>1, Begun, NoHeadFields DEF Sends, None
<1>5. Posted'
  BY <1>1, <1>4 DEF Inv, Posted
<1> QED
  BY <1>3, <1>5

\* The stage a pending request is for.
LEMMA AwaitedStage ==
  ASSUME Inv, NEW c \in Pending
  PROVE  /\ c.op \in Operations /\ c.tag \in Nat /\ Left(c.op) /\ head[c.op].attempted
         /\ c.stage = head[c.op].done + 1 /\ c.stage \in 1 .. MaxStages
         /\ c.stage \in 1 .. Len(PlanOf[head[c.op].kind])
         /\ Plan(head[c.op].kind)[c.stage] = PlanOf[head[c.op].kind][c.stage]
         /\ Plan(head[c.op].kind)[c.stage] = Stage(c.op)
         /\ Stage(c.op) \in StageNames
         /\ head[c.op].state \in {"running", "uncertain"}
         /\ landed[c.op][c.stage] = 0 /\ job[c.op].pc # "refused"
         /\ Reads(Stage(c.op)) => c.tag = head[c.op].key /\ c.tag > 0 /\ head[c.op].draft \in Drafts
<1>1. c.op \in Operations /\ c.tag \in Nat /\ Awaited(c)
  BY PendingTypes, PendingAwaited DEF Inv
<1>2. head[c.op].attempted /\ c.stage = head[c.op].done + 1 /\ Right(PlanOf, c.op, head[c.op], job[c.op])
  BY <1>1, Known DEF Awaited
<1>3. head[c.op].state \in {"running", "uncertain"} /\ Left(c.op)
  BY <1>1, <1>2, Known DEF Right
<1>4. /\ c.stage \in 1 .. Len(PlanOf[head[c.op].kind]) /\ c.stage \in 1 .. MaxStages
      /\ Stage(c.op) = PlanOf[head[c.op].kind][c.stage] /\ Plan(head[c.op].kind) = PlanOf[head[c.op].kind]
  BY <1>1, <1>2, <1>3, Known DEF PlanOf
<1>5. Stage(c.op) \in StageNames
  BY <1>1, <1>4, Known, PlanFacts DEF Planned
<1>6. Reads(Stage(c.op)) => head[c.op].draft \in Drafts
  BY <1>1, <1>3, StageHasDraft
<1> QED
  BY <1>1, <1>2, <1>3, <1>4, <1>5, <1>6 DEF Awaited

\* Dispatch keeps the invariant.
LEMMA DispatchInv ==
  ASSUME Inv, NEW o \in Operations, Dispatch(o)
  PROVE  /\ head' \in [Operations -> Record] /\ job' \in [Operations -> Job] /\ wire' \in Seq(Call)
         /\ Local' /\ (\A p \in Operations : Covered(p)') /\ Wired' /\ Marked' /\ Posted'
<1> DEFINE h == [head[o] EXCEPT !.attempted = TRUE]
           j == [job[o] EXCEPT !.pc = "call"]
           c == [op |-> o, stage |-> head[o].done + 1, tag |-> job[o].tag]
<1>1. /\ head[o].state = "running" /\ job[o].pc = "ready"
      /\ Reads(Stage(o)) => job[o].tag > 0 /\ job[o].tag = head[o].key
      /\ head' = [head EXCEPT ![o] = h] /\ job' = [job EXCEPT ![o] = j]
      /\ wire' = Append(wire, c) /\ landed' = landed /\ marker' = marker /\ sent' = sent
      /\ scenario' = scenario
  BY DEF Dispatch, Become, Go, world, Inv, TypeOK
<1>2. Right(PlanOf, o, head[o], job[o]) /\ head[o] \in Record /\ job[o] \in Job /\ Covered(o)
  BY Known
<1>3. head[o].attempted = FALSE /\ head[o].done < Len(PlanOf[head[o].kind]) /\ Left(o)
  BY <1>1, <1>2, Known, Fields DEF Right
<1>4. /\ h \in Record /\ h.state = "running" /\ h.kind = head[o].kind /\ h.writer = head[o].writer
      /\ h.previous = head[o].previous /\ h.draft = head[o].draft /\ h.done = head[o].done
      /\ h.attempted = TRUE /\ h.key = head[o].key
  BY <1>1, <1>2 DEF Record
<1>5. j \in Job /\ j.pc = "call"
  BY <1>2 DEF Job, Steps
<1>6. c \in Call /\ c.op = o /\ c.stage = head[o].done + 1 /\ c.tag = job[o].tag
  BY <1>3, Known, Fields DEF Call
<1> HIDE DEF h, j, c
<1>7. Right(PlanOf, o, h, j)
  BY <1>1, <1>2, <1>3, <1>4, <1>5 DEF Right
<1>8. PlanOf' = PlanOf
  BY <1>1, PlanStays
<1>9. /\ head' \in [Operations -> Record] /\ job' \in [Operations -> Job]
      /\ head'[o] = h /\ job'[o] = j
      /\ \A p \in Operations : p # o => head'[p] = head[p] /\ job'[p] = job[p]
  BY <1>1, <1>4, <1>5 DEF Inv, TypeOK
<1>10. Local'
  BY <1>7, <1>8, <1>9 DEF Inv, Local
<1>11. ASSUME NEW p \in Operations PROVE Covered(p)'
  <2>1. CASE p # o
    BY <1>1, <1>9, <2>1 DEF Inv, Covered
  <2>2. CASE p = o
    BY <1>1, <1>2, <1>3, <1>4, <1>5, <1>9, <2>2 DEF Covered
  <2>3. QED
    BY <2>1, <2>2
<1>12. ~InWire(o)
  BY <1>3, LandedIsOver
<1>13. /\ wire' \in Seq(Call) /\ \A n, k \in 1 .. Len(wire') : wire'[n].op = wire'[k].op => n = k
       /\ Pending' = Pending \cup {c}
  BY <1>1, <1>6, <1>12, Adding
<1>14. ASSUME NEW e \in Pending' PROVE Awaited(e)'
  <2>1. CASE e \in Pending
    <3>1. e.op # o /\ e.op \in Operations /\ Awaited(e)
      BY <1>12, <2>1, PendingAwaited, PendingTypes DEF Inv
    <3>2. QED
      BY <1>1, <1>8, <1>9, <3>1 DEF Awaited
  <2>2. CASE e = c
    <3>1. landed[o][head[o].done + 1] = 0
      <4>1. head[o].done + 1 \in 1 .. MaxStages /\ ~(head[o].done + 1 <= head[o].done)
        BY <1>3, Known, Fields
      <4>2. QED
        BY <1>2, <1>3, <4>1 DEF Covered
    <3>2. Stage(o) = PlanOf[head[o].kind][head[o].done + 1]
      BY <1>3, Known
    <3>3. QED
      BY <1>1, <1>4, <1>5, <1>6, <1>8, <1>9, <2>2, <3>1, <3>2 DEF Awaited
  <2>3. QED
    BY <1>13, <2>1, <2>2
<1>15. Wired'
  BY <1>13, <1>14, WiredNow
<1>16. Marked' /\ Posted'
  BY <1>1, <1>4, <1>9, StaysMarked
<1> QED
  BY <1>9, <1>10, <1>11, <1>13, <1>15, <1>16

\* Refuse keeps the invariant.
LEMMA RefuseInv ==
  ASSUME Inv, NEW i \in 1 .. Len(wire), Refuse(i)
  PROVE  /\ job' \in [Operations -> Job] /\ wire' \in Seq(Call)
         /\ Local' /\ (\A p \in Operations : Covered(p)') /\ Wired' /\ Marked' /\ Posted'
<1> DEFINE c == wire[i]
           o == c.op
           j == IF job[o].pc = "call" THEN [job[o] EXCEPT !.pc = "refused"] ELSE job[o]
<1>1. c \in Pending /\ o \in Operations
  BY WireTypes DEF Pending, Inv
<1>2. /\ job' = [job EXCEPT ![o] = j] /\ Taken(i) /\ head' = head /\ landed' = landed
      /\ marker' = marker /\ sent' = sent /\ scenario' = scenario
  BY <1>1 DEF Refuse, world, Inv, TypeOK
<1>3. Right(PlanOf, o, head[o], job[o]) /\ head[o] \in Record /\ job[o] \in Job /\ Covered(o)
  BY <1>1, Known
<1>4. j \in Job /\ (j = job[o] \/ (job[o].pc = "call" /\ j.pc = "refused"))
  BY <1>3 DEF Job, Steps
<1> HIDE DEF j, c
<1>5. landed[o][head[o].done + 1] = 0
  BY <1>1, AwaitedStage
<1>6. Right(PlanOf, o, head[o], j)
  BY <1>3, <1>4 DEF Right
<1>7. PlanOf' = PlanOf
  BY <1>2, PlanStays
<1>8. /\ job' \in [Operations -> Job] /\ job'[o] = j
      /\ \A p \in Operations : p # o => job'[p] = job[p]
  BY <1>1, <1>2, <1>4 DEF Inv, TypeOK
<1>9. Local'
  BY <1>2, <1>6, <1>7, <1>8 DEF Inv, Local
<1>10. ASSUME NEW p \in Operations PROVE Covered(p)'
  <2>1. Covered(p) /\ (p = o => landed[p][head[p].done + 1] = 0)
    BY <1>5 DEF Inv
  <2>2. QED
    BY <1>2, <1>8, <2>1 DEF Covered
<1>11. /\ wire' \in Seq(Call) /\ \A n, k \in 1 .. Len(wire') : wire'[n].op = wire'[k].op => n = k
       /\ Pending' = Pending \ {c}
  BY <1>2, Taking DEF c
<1>12. ASSUME NEW e \in Pending' PROVE Awaited(e)'
  <2>1. e \in Pending /\ e # c
    BY <1>11
  <2>2. e.op # o /\ e.op \in Operations /\ Awaited(e)
    BY <1>1, <2>1, PendingAwaited, PendingTypes DEF Inv
  <2>3. QED
    BY <1>2, <1>7, <1>8, <2>2 DEF Awaited
<1>13. Wired'
  BY <1>11, <1>12, WiredNow
<1>14. Marked' /\ Posted'
  BY <1>2, StaysMarked
<1> QED
  BY <1>8, <1>9, <1>10, <1>11, <1>13, <1>14

\* Counting one thing up leaves the other counts.
LEMMA CountedUp ==
  ASSUME NEW A, NEW B, NEW f \in [A -> [B -> Nat]], NEW a \in A, NEW b \in B, f[a][b] = 0,
         NEW g, g = [f EXCEPT ![a][b] = @ + 1]
  PROVE  /\ g \in [A -> [B -> Nat]] /\ g[a][b] = 1
         /\ \A x \in A : \A y \in B : x # a \/ y # b => g[x][y] = f[x][y]
<1> DEFINE h == [f[a] EXCEPT ![b] = @ + 1]
<1>1. g = [f EXCEPT ![a] = h]
  OBVIOUS
<1>2. h \in [B -> Nat] /\ h[b] = 1 /\ \A y \in B : y # b => h[y] = f[a][y]
  OBVIOUS
<1> HIDE DEF h
<1> QED
  BY <1>1, <1>2

\* A stage that takes place leaves the others.
LEMMA LandedUp ==
  ASSUME Inv, NEW o \in Operations, NEW i \in 1 .. MaxStages, landed[o][i] = 0,
         landed' = [landed EXCEPT ![o][i] = @ + 1]
  PROVE  /\ landed' \in [Operations -> [1 .. MaxStages -> Nat]] /\ landed'[o][i] = 1
         /\ \A p \in Operations : \A k \in 1 .. MaxStages : p # o \/ k # i => landed'[p][k] = landed[p][k]
<1>1. PICK f, g, S : f = landed /\ g = landed' /\ S = 1 .. MaxStages
  OBVIOUS
<1>2. f \in [Operations -> [S -> Nat]] /\ i \in S /\ f[o][i] = 0 /\ g = [f EXCEPT ![o][i] = @ + 1]
  BY <1>1 DEF Inv, TypeOK
<1>3. /\ g \in [Operations -> [S -> Nat]] /\ g[o][i] = 1
      /\ \A p \in Operations : \A k \in S : p # o \/ k # i => g[p][k] = f[p][k]
  BY <1>2, CountedUp
<1>4. QED
  BY <1>1, <1>3

\* Land keeps the invariant.
LEMMA LandInv ==
  ASSUME Inv, NEW i \in 1 .. Len(wire), Land(i)
  PROVE  /\ TypeOK' /\ Local' /\ (\A p \in Operations : Covered(p)') /\ Wired' /\ Marked' /\ Posted'
<1>0. PICK c : c = wire[i]
  OBVIOUS
<1> DEFINE o == c.op
           s == Stage(o)
           d == Target(o, s)
           v == CASE s \in {"create", "create-reply"} -> 1
                  [] s \in {"send", "send-draft"}     -> 0
                  [] OTHER -> version[d] + 1
           j == IF job[o].pc = "call" THEN [job[o] EXCEPT !.tag = v] ELSE job[o]
<1>1. c \in Pending /\ o \in Operations
  BY <1>0, WireTypes DEF Pending, Inv
<1>2. /\ Taken(i) /\ head' = head /\ owner' = owner
      /\ landed' = [landed EXCEPT ![o][c.stage] = @ + 1]
      /\ version' = IF s = "send" THEN version ELSE [version EXCEPT ![d] = v]
      /\ IF s \in {"create", "update-reply", "update-draft"}
         THEN /\ content' = [content EXCEPT ![d] = o]
              /\ marker' = [marker EXCEPT ![d] = o]
         ELSE content' = content /\ marker' = marker
      /\ sent' = CASE s = "send" \/ (s = "send-draft" /\ Gmail) -> [sent EXCEPT ![o] = o]
                   [] s = "send-draft" /\ ~Gmail -> [sent EXCEPT ![o] = content[d]]
                   [] OTHER -> sent
      /\ UNCHANGED <<closed, held, connected, scenario, edits>>
  <2>1. Plan(head[o].kind)[c.stage] = s
    BY <1>1, AwaitedStage
  <2>2. QED
    BY <1>0, <2>1 DEF Land, world
<1>3. job' = [job EXCEPT ![o] = j]
  <2>1. Plan(head[o].kind)[c.stage] = s
    BY <1>1, AwaitedStage
  <2>2. QED
    BY <1>0, <1>1, <2>1 DEF Land, Inv, TypeOK
<1>4. /\ c.stage = head[o].done + 1 /\ c.stage \in 1 .. MaxStages
      /\ c.stage \in 1 .. Len(PlanOf[head[o].kind]) /\ s = PlanOf[head[o].kind][c.stage]
      /\ s \in StageNames /\ landed[o][c.stage] = 0 /\ job[o].pc # "refused"
      /\ head[o].attempted /\ (Reads(s) => head[o].draft \in Drafts)
  BY <1>1, AwaitedStage, Known
<1>5. s # "send" => d \in Drafts
  BY <1>1, <1>4 DEF Target, Reads, StageNames, Drafts
<1>6. v \in Nat
  BY <1>5 DEF Inv, TypeOK
<1>7. Right(PlanOf, o, head[o], job[o]) /\ head[o] \in Record /\ job[o] \in Job /\ Covered(o)
      /\ head[o].kind \in AllKinds
  BY <1>1, Known
<1>8. j \in Job /\ j.pc = job[o].pc /\ (j = job[o] \/ job[o].pc = "call")
  BY <1>6, <1>7 DEF Job
<1> HIDE DEF j, v
<1>9. Right(PlanOf, o, head[o], j)
  BY <1>7, <1>8 DEF Right
<1>10. PlanOf' = PlanOf
  BY <1>2, PlanStays
<1>11. /\ job' \in [Operations -> Job] /\ job'[o] = j
       /\ \A p \in Operations : p # o => job'[p] = job[p]
  BY <1>1, <1>3, <1>8 DEF Inv, TypeOK
<1>12. Local'
  BY <1>2, <1>9, <1>10, <1>11 DEF Inv, Local
<1>13. /\ landed' \in [Operations -> [1 .. MaxStages -> Nat]] /\ landed'[o][c.stage] = 1
       /\ \A p \in Operations : \A k \in 1 .. MaxStages : p # o \/ k # c.stage => landed'[p][k] = landed[p][k]
  <2>1. PICK p \in Operations, k \in 1 .. MaxStages : p = o /\ k = c.stage
    BY <1>1, <1>4
  <2>2. landed[p][k] = 0 /\ landed' = [landed EXCEPT ![p][k] = @ + 1]
    BY <1>2, <1>4, <2>1
  <2>3. landed' \in [Operations -> [1 .. MaxStages -> Nat]]
    BY <2>2, LandedUp
  <2>4. landed'[p][k] = 1
    BY <2>2, LandedUp
  <2>5. \A q \in Operations : \A n \in 1 .. MaxStages : q # p \/ n # k => landed'[q][n] = landed[q][n]
    BY <2>2, LandedUp
  <2>6. QED
    BY <2>1, <2>3, <2>4, <2>5
<1>14. ASSUME NEW p \in Operations PROVE Covered(p)'
  <2>1. CASE p # o
    <3>1. job'[p] = job[p] /\ head'[p] = head[p] /\ Covered(p) /\ \A k \in 1 .. MaxStages : landed'[p][k] = landed[p][k]
      BY <1>2, <1>11, <1>13, <2>1 DEF Inv
    <3>2. job[p].pc = "refused" => head[p].done + 1 \in 1 .. MaxStages
      <4>1. job[p].pc = "refused" => head[p].state = "running"
        BY Known DEF Right, Record, States
      <4>2. QED
        BY <4>1, Known DEF Right
    <3>3. QED
      BY <3>1, <3>2 DEF Covered
  <2>2. CASE p = o
    <3>1. head[o].done \in Nat
      BY <1>1, Known
    <3>2. /\ head'[p] = head[o] /\ head[o].attempted /\ job'[p].pc # "refused"
          /\ landed'[p][c.stage] = 1
          /\ \A k \in 1 .. MaxStages : k # c.stage => landed'[p][k] = landed[o][k]
      BY <1>1, <1>2, <1>4, <1>8, <1>11, <1>13, <2>2
    <3>3. /\ \A k \in 1 .. MaxStages : landed[o][k] \in {0, 1}
          /\ \A k \in 1 .. MaxStages : k <= head[o].done => landed[o][k] = 1
          /\ \A k \in 1 .. MaxStages : landed[o][k] = 1 => k <= head[o].done \/ k = head[o].done + 1
      BY <1>7 DEF Covered
    <3>4. QED
      BY <1>4, <3>1, <3>2, <3>3 DEF Covered
  <2>3. QED
    BY <2>1, <2>2
<1>15. /\ wire' \in Seq(Call) /\ \A n, k \in 1 .. Len(wire') : wire'[n].op = wire'[k].op => n = k
       /\ Pending' = Pending \ {c}
  BY <1>2, <1>0, Taking
<1>16. ASSUME NEW e \in Pending' PROVE Awaited(e)'
  <2>1. e \in Pending /\ e # c
    BY <1>15
  <2>2. e.op # o /\ e.op \in Operations /\ Awaited(e) /\ e.stage \in 1 .. MaxStages
    BY <1>1, <2>1, PendingAwaited, PendingTypes DEF Inv
  <2>3. landed'[e.op][e.stage] = landed[e.op][e.stage]
    BY <1>13, <2>2
  <2>4. QED
    BY <1>2, <1>10, <1>11, <2>2, <2>3 DEF Awaited
<1>17. Wired'
  BY <1>15, <1>16, WiredNow
<1>18. ASSUME NEW p \in Operations, NEW k \in 1 .. MaxStages, landed[p][k] = 1 PROVE landed'[p][k] = 1
  BY <1>4, <1>13, <1>18
<1>19. ASSUME NEW p \in Operations PROVE Saves(PlanOf, head[p].kind) \in Nat /\ Saves(PlanOf, head[p].kind) <= MaxStages
  BY Known, PlanFacts DEF Planned, MaxStages
<1>20. ASSUME NEW p \in Operations, SaidBy(p) PROVE SaidBy(p)'
  <2>1. Saves(PlanOf, head[p].kind) \in 1 .. MaxStages
    BY <1>19, <1>20 DEF SaidBy, MaxStages
  <2>2. QED
    BY <1>2, <1>10, <1>18, <1>20, <2>1 DEF SaidBy
<1>21. s \in {"create", "update-reply", "update-draft"} => SaidBy(o)'
  <2>1. s \in {"create", "update-reply", "update-draft"} => c.stage = Saves(PlanOf, head[o].kind)
    BY <1>4, <1>7, PlanFacts DEF Planned
  <2>2. c.stage > 0
    BY <1>4
  <2>3. QED
    BY <1>2, <1>10, <1>13, <2>1, <2>2 DEF SaidBy
<1>22. Marked'
  <2>1. ASSUME NEW e \in Drafts, NEW p \in Operations, marker'[e] = p PROVE SaidBy(p)'
    <3>1. marker[e] = p \/ (s \in {"create", "update-reply", "update-draft"} /\ p = o)
      BY <1>2, <2>1 DEF Inv, TypeOK
    <3>2. CASE marker[e] = p
      <4>1. SaidBy(p)
        BY <3>2 DEF Inv, Marked
      <4>2. QED
        BY <1>20, <4>1
    <3>3. CASE s \in {"create", "update-reply", "update-draft"} /\ p = o
      BY <1>21, <3>3
    <3>4. QED
      BY <3>1, <3>2, <3>3
  <2>2. QED
    BY <2>1 DEF Marked
<1>23. Posted'
  <2>1. ASSUME NEW p \in Operations, sent'[p] # "nothing"
        PROVE  head[p].kind \in Sends /\ landed'[p][Len(PlanOf[head[p].kind])] = 1
    <3>1. CASE sent[p] # "nothing"
      <4>1. head[p].kind \in Sends /\ landed[p][Len(PlanOf[head[p].kind])] = 1
        BY <3>1 DEF Inv, Posted
      <4>2. Len(PlanOf[head[p].kind]) \in 1 .. MaxStages
        <5>1. head[p].kind \in AllKinds /\ head[p].kind \notin {"open", None}
          BY <4>1, Known DEF Sends, None
        <5>2. QED
          BY <5>1, PlanFacts DEF Planned, MaxStages
      <4>3. QED
        BY <1>18, <4>1, <4>2
    <3>2. CASE sent[p] = "nothing"
      <4>1. p = o /\ s \in {"send", "send-draft"}
        BY <1>2, <2>1, <3>2 DEF Inv, TypeOK
      <4>2. c.stage > Saves(PlanOf, head[o].kind)
        BY <1>4, <1>7, <4>1, PlanFacts DEF Planned
      <4>3. Len(PlanOf[head[o].kind]) \in Nat
        BY <1>7, PlanFacts DEF Planned
      <4>4. head[o].kind \in Sends /\ c.stage = Len(PlanOf[head[o].kind])
        BY <1>4, <4>2, <4>3 DEF Saves
      <4>5. QED
        BY <1>13, <4>1, <4>4
    <3>3. QED
      BY <3>1, <3>2
  <2>2. QED
    BY <1>2, <1>10, <2>1 DEF Posted
<1>24. TypeOK'
  <2>1. version' \in [Drafts -> Nat] /\ content' \in [Drafts -> Drafts] /\ marker' \in [Drafts -> Operations \cup {None}]
    BY <1>1, <1>2, <1>5, <1>6 DEF Inv, TypeOK, Drafts
  <2>2. sent' \in [Operations -> Drafts \cup {"nothing"}]
    <3>1. o \in Drafts
      BY <1>1 DEF Drafts
    <3>2. s = "send-draft" => content[d] \in Drafts
      BY <1>5 DEF Inv, TypeOK
    <3>3. QED
      BY <1>1, <1>2, <3>1, <3>2 DEF Inv, TypeOK
  <2>3. QED
    BY <1>2, <1>11, <1>13, <1>15, <2>1, <2>2 DEF Inv, TypeOK
<1> QED
  BY <1>12, <1>14, <1>17, <1>22, <1>23, <1>24

\* Restart keeps the invariant.
LEMMA RestartInv ==
  ASSUME Inv, Restart
  PROVE  /\ head' \in [Operations -> Record] /\ job' \in [Operations -> Job]
         /\ Local' /\ (\A p \in Operations : Covered(p)') /\ Wired' /\ Marked' /\ Posted'
<1>1. /\ wire' = wire /\ landed' = landed /\ marker' = marker /\ sent' = sent /\ scenario' = scenario
      /\ PlanOf' = PlanOf
  BY PlanStays DEF Restart, world, provider
<1>2. ASSUME NEW o \in Operations
      PROVE  /\ head'[o] \in Record /\ job'[o] = Idle /\ head'[o].kind = head[o].kind
             /\ head'[o].done = head[o].done /\ head'[o].attempted = head[o].attempted
             /\ head'[o].key = head[o].key /\ Right(PlanOf, o, head'[o], Idle)
  <2>1. head'[o] = Recovered(head[o]) /\ job'[o] = Idle
    BY DEF Restart
  <2>2. Right(PlanOf, o, head[o], job[o]) /\ head[o] \in Record
    BY Known
  <2>3. PICK t \in States : /\ head'[o] = [head[o] EXCEPT !.state = t]
                            /\ t = CASE head[o].state = "preparing" -> "failed"
                                     [] head[o].state = "running" -> IF head[o].attempted THEN "uncertain" ELSE "interrupted"
                                     [] OTHER -> head[o].state
    BY <2>1, <2>2 DEF Recovered, Record, States
  <2> DEFINE h == head'[o]
  <2>4. /\ h \in Record /\ h.state = t /\ h.kind = head[o].kind /\ h.writer = head[o].writer
        /\ h.previous = head[o].previous /\ h.draft = head[o].draft /\ h.done = head[o].done
        /\ h.attempted = head[o].attempted /\ h.key = head[o].key
    BY <2>2, <2>3, StateFields
  <2> HIDE DEF h
  <2>5. head[o].state \notin {"preparing", "running"} => h = head[o]
    BY <2>1 DEF Recovered, h
  <2>6. Right(PlanOf, o, h, Idle)
    <3>1. CASE head[o].state \notin {"preparing", "running"}
      <4>1. h = head[o]
        BY <2>5, <3>1
      <4>2. QED
        BY <2>2, <3>1, <4>1, IdleFields DEF Right
    <3>2. CASE head[o].state = "preparing"
      <4>1. t = "failed"
        BY <2>3, <3>2
      <4>2. QED
        BY <2>2, <2>4, <3>2, <4>1, IdleFields DEF Right
    <3>3. CASE head[o].state = "running"
      <4>1. t = IF head[o].attempted THEN "uncertain" ELSE "interrupted"
        BY <2>3, <3>3
      <4>2. QED
        BY <2>2, <2>4, <3>3, <4>1, IdleFields DEF Right
    <3>4. QED
      BY <3>1, <3>2, <3>3
  <2>7. QED
    BY <2>1, <2>4, <2>6 DEF h
<1>3. head' \in [Operations -> Record] /\ job' \in [Operations -> Job]
  BY <1>2, IdleFields DEF Restart
<1>4. Local'
  BY <1>1, <1>2 DEF Local
<1>5. \A p \in Operations : Covered(p)'
  BY <1>1, <1>2, IdleFields DEF Covered, Inv
<1>6. ASSUME NEW i \in 1 .. Len(wire) PROVE Awaited(wire[i])'
  <2>1. wire[i].op \in Operations /\ Awaited(wire[i])
    BY WireTypes DEF Inv, Wired
  <2>2. QED
    BY <1>1, <1>2, <2>1, IdleFields DEF Awaited
<1>7. Wired'
  BY <1>1, <1>6 DEF Wired, Inv
<1>8. Marked' /\ Posted'
  BY <1>1, <1>2, StaysMarked
<1> QED
  BY <1>3, <1>4, <1>5, <1>7, <1>8

-----------------------------------------------------------------------------
(* The invariant.                                                          *)

\* The invariant holds in the initial states.
LEMMA InitInv == ASSUME MailAssumption, Init PROVE Inv
<1>1. Idle \in Job /\ NoHead \in Record /\ NoHead = NoHead /\ MaxEdits \in Nat
  BY IdleFields, NoHeadFields, MailAssumption
<1>2. Outside \in Drafts /\ Operations \subseteq Drafts
  BY DEF Drafts
<1>3. TypeOK
  <2>1. /\ head \in [Operations -> Record] /\ owner \in [Drafts -> Operations \cup {None}]
        /\ job \in [Operations -> Job] /\ closed \in BOOLEAN /\ held \in BOOLEAN /\ connected \in BOOLEAN
    BY <1>1 DEF Init
  <2>2. wire \in Seq(Call)
    BY DEF Init
  <2>3. landed \in [Operations -> [1 .. MaxStages -> Nat]]
    BY DEF Init
  <2>4. /\ version \in [Drafts -> Nat] /\ content \in [Drafts -> Drafts]
        /\ marker \in [Drafts -> Operations \cup {None}]
    BY <1>2 DEF Init
  <2>5. sent \in [Operations -> Drafts \cup {"nothing"}] /\ edits \in 0 .. MaxEdits
    BY <1>1 DEF Init
  <2>6. QED
    BY <2>1, <2>2, <2>3, <2>4, <2>5 DEF TypeOK
<1>4. Len(PlanOf[None]) = 0 /\ Saves(PlanOf, None) = 0
  BY PlanFacts DEF Planned, AllKinds, Saves, Sends, None
<1>5. \A o \in Operations : Right(PlanOf, o, NoHead, Idle)
  BY <1>1, <1>4, NoHeadFields, IdleFields DEF Right, Kinds, Following, First, Sends, GivenUp, None
<1>6. Local
  BY <1>5 DEF Init, Local
<1>7. \A o \in Operations : Covered(o)
  BY NoHeadFields, IdleFields DEF Init, Covered
<1>8. Wired
  BY DEF Init, Wired
<1>9. Marked
  BY MailAssumption DEF Init, Marked, Drafts
<1>10. Posted
  BY DEF Init, Posted
<1> QED
  BY <1>3, <1>6, <1>7, <1>8, <1>9, <1>10 DEF Inv

\* A draft's owner is an operation.
LEMMA OwnerTypes ==
  ASSUME Inv, NEW o \in Operations, NEW d \in Drafts \cup {None}
  PROVE  /\ Remembered(o, d) \in [Drafts -> Operations \cup {None}]
         /\ [owner EXCEPT ![d] = o] \in [Drafts -> Operations \cup {None}]
BY DEF Inv, TypeOK, Remembered

\* Whoever takes a turn may take the draft of its record over, or of what it read.
LEMMA OwnerMoves ==
  ASSUME Inv, NEW o \in Operations, Request(o) \/ Work(o)
  PROVE  owner' \in [Drafts -> Operations \cup {None}]
<1>1. owner \in [Drafts -> Operations \cup {None}]
  BY DEF Inv, TypeOK
<1>2. CASE PrepareNext(o)
  <2>1. PICK p \in Operations : owner' = [owner EXCEPT ![head[p].draft] = o]
    BY <1>2 DEF PrepareNext
  <2>2. QED
    BY <2>1, Fields, OwnerTypes
<1>3. CASE Opened(o)
  <2>1. owner' = [owner EXCEPT ![job[o].draft] = o]
    BY <1>3 DEF Opened
  <2>2. QED
    BY <2>1, Fields, OwnerTypes
<1>4. CASE Answered(o)
  <2>1. PICK d \in {o, head[o].draft} : owner' = Remembered(o, d)
    BY <1>4 DEF Answered
  <2>2. d \in Drafts \cup {None}
    BY Fields DEF Drafts
  <2>3. QED
    BY <2>1, <2>2, OwnerTypes
<1>5. CASE Found(o)
  <2>1. owner' = owner \/ \E d \in {o, head[o].draft} : owner' = Remembered(o, d)
    BY <1>5 DEF Found, FileFound, DraftFound, SendFound, SavedAs
  <2>2. \A d \in {o, head[o].draft} : d \in Drafts \cup {None}
    BY Fields DEF Drafts
  <2>3. QED
    BY <1>1, <2>1, <2>2, OwnerTypes
<1>6. CASE NotFound(o)
  <2>1. owner' = owner \/ owner' = Remembered(o, head[o].draft)
    BY <1>6 DEF NotFound
  <2>2. QED
    BY <1>1, <2>1, Fields, OwnerTypes
<1>7. CASE ~(PrepareNext(o) \/ Opened(o) \/ Answered(o) \/ Found(o) \/ NotFound(o))
  <2>1. owner' = owner
    BY <1>7 DEF Request, Work, Prepare, Confirm, Cancel, Check, ReadDraft, Prepared, NotPrepared,
                Read, Dispatch, Finish, Fail
  <2>2. QED
    BY <1>1, <2>1
<1> QED
  BY <1>2, <1>3, <1>4, <1>5, <1>6, <1>7

\* A turn keeps the invariant.
LEMMA TurnInv ==
  ASSUME Inv, NEW o \in Operations, Turn(o), owner' \in [Drafts -> Operations \cup {None}],
         UNCHANGED <<held, connected, edits>>, closed' = closed
  PROVE  Inv'
<1>1. PICK h, j : Step(o, h, j) /\ (Still(o, h, j) \/ Closes(o, h, j))
  BY DEF Turn
<1>2. TypeOK'
  BY <1>1, StepTypes DEF Inv, TypeOK, Step
<1> QED
  BY <1>1, <1>2, StepLocal, StepMarked, StepPosted, StepCovered DEF Inv

\* Every step keeps the invariant.
LEMMA NextInv == ASSUME Inv, [Next]_vars PROVE Inv'
<1>1. CASE \E o \in Operations : Request(o) \/ Work(o)
  <2>1. PICK o \in Operations : Request(o) \/ Work(o)
    BY <1>1
  <2>2. owner' \in [Drafts -> Operations \cup {None}]
    BY <2>1, OwnerMoves
  <2>3. UNCHANGED <<held, connected, edits>> /\ closed' = closed
    BY <2>1 DEF Request, Work, Prepare, PrepareNext, Confirm, Cancel, Check, ReadDraft, Prepared,
                Opened, NotPrepared, Read, Dispatch, Answered, Finish, Fail, Found, NotFound,
                world, provider, service
  <2>4. CASE Dispatch(o)
    <3>1. UNCHANGED <<landed, version, content, marker, sent>>
      BY <2>4 DEF Dispatch
    <3>2. TypeOK'
      BY <2>2, <2>3, <2>4, <3>1, DispatchInv DEF Inv, TypeOK
    <3>3. QED
      BY <2>4, <3>2, DispatchInv DEF Inv
  <2>5. CASE ~Dispatch(o)
    BY <2>1, <2>2, <2>3, <2>5, Turns, TurnInv
  <2>6. QED
    BY <2>4, <2>5
<1>2. CASE \E i \in 1 .. Len(wire) : Land(i) \/ Refuse(i)
  <2>1. PICK i \in 1 .. Len(wire) : Land(i) \/ Refuse(i)
    BY <1>2
  <2>2. CASE Land(i)
    BY <2>2, LandInv DEF Inv
  <2>3. CASE Refuse(i)
    <3>1. TypeOK'
      BY <2>3, RefuseInv DEF Refuse, Inv, TypeOK, world
    <3>2. QED
      BY <2>3, <3>1, RefuseInv DEF Inv
  <2>4. QED
    BY <2>1, <2>2, <2>3
<1>3. CASE \E d \in Drafts : Edit(d)
  <2>1. PICK d \in Drafts : Edit(d)
    BY <1>3
  <2>2. UNCHANGED <<head, owner, closed, job, held, connected, scenario, wire, landed, sent>>
    BY <2>1 DEF Edit, service, world
  <2>3. TypeOK'
    <3>1. /\ version' \in [Drafts -> Nat] /\ content' \in [Drafts -> Drafts]
          /\ marker' \in [Drafts -> Operations \cup {None}]
      BY <2>1 DEF Edit, Inv, TypeOK, Drafts
    <3>2. edits' \in 0 .. MaxEdits
      BY <2>1, MailAssumption DEF Edit, Inv, TypeOK
    <3>3. QED
      BY <2>2, <3>1, <3>2 DEF Inv, TypeOK
  <2>4. \A e \in Drafts : \A p \in Operations : marker'[e] = p => marker[e] = p
    BY <2>1, MailAssumption DEF Edit, Inv, TypeOK, Drafts
  <2>5. Marked' /\ Posted'
    BY <2>2, <2>4, StaysMarked
  <2>6. PlanOf' = PlanOf
    BY <2>2, PlanStays
  <2>7. Local' /\ (\A p \in Operations : Covered(p)') /\ Wired'
    BY <2>2, <2>6 DEF Inv, Local, Covered, Wired, Awaited
  <2>8. QED
    BY <2>3, <2>5, <2>7 DEF Inv
<1>4. CASE Restart
  <2>1. TypeOK'
    BY <1>4, RestartInv DEF Restart, Inv, TypeOK, world, provider
  <2>2. QED
    BY <1>4, <2>1, RestartInv DEF Inv
<1>5. CASE Close \/ Hold \/ Connect \/ UNCHANGED vars
  <2>1. UNCHANGED <<head, owner, job, scenario, provider>>
    BY <1>5 DEF Close, Hold, Connect, vars, service, world
  <2>2. closed' \in BOOLEAN /\ held' \in BOOLEAN /\ connected' \in BOOLEAN
    BY <1>5 DEF Close, Hold, Connect, vars, service, world, Inv, TypeOK
  <2>3. TypeOK'
    BY <2>1, <2>2 DEF Inv, TypeOK, provider
  <2>4. PlanOf' = PlanOf
    BY <2>1, PlanStays
  <2>5. Marked' /\ Posted'
    BY <2>1, StaysMarked DEF provider
  <2>6. Local' /\ (\A p \in Operations : Covered(p)') /\ Wired'
    BY <2>1, <2>4 DEF Inv, Local, Covered, Wired, Awaited, provider
  <2>7. QED
    BY <2>3, <2>5, <2>6 DEF Inv
<1> QED
  BY <1>1, <1>2, <1>3, <1>4, <1>5 DEF Next

\* A record, its function, the request under way and what took place agree: the
\* stages completed are those that took place, once each and in order, and at most
\* one request of an operation is under way, the stage its record waits for.
THEOREM MailInv == Spec => []Inv
<1>1. Init => Inv
  BY InitInv, MailAssumption
<1>2. Inv /\ [Next]_vars => Inv'
  BY NextInv
<1> QED
  BY <1>1, <1>2, PTL DEF Spec

\* The state keeps its shape.
THEOREM MailTypes == Spec => []TypeOK
<1>1. Inv => TypeOK
  BY DEF Inv
<1> QED
  BY <1>1, MailInv, PTL

-----------------------------------------------------------------------------
(* Records grow, and are begun only by the two requests that prepare one.  *)

\* A record that does not change grows.
LEMMA GrowsSame == ASSUME Inv, NEW p \in Operations, head'[p] = head[p] PROVE Grows(head[p], head'[p])
BY Known DEF Grows

\* A record only grows, and Prepare and PrepareNext alone begin one.
LEMMA HeadMoves ==
  ASSUME Inv, [Next]_vars, NEW p \in Operations
  PROVE  /\ Grows(head[p], head'[p])
         /\ head[p].state = "none" => head'[p] = head[p] \/ Prepare(p) \/ PrepareNext(p)
<1>1. CASE \E o \in Operations : Request(o) \/ Work(o)
  <2>1. PICK o \in Operations : Request(o) \/ Work(o)
    BY <1>1
  <2>2. CASE Dispatch(o)
    <3>1. head' = [head EXCEPT ![o] = [head[o] EXCEPT !.attempted = TRUE]] /\ head[o].state = "running"
      BY <2>2 DEF Dispatch, Become
    <3>2. p = o => head'[p] = [head[p] EXCEPT !.attempted = TRUE] /\ head[p].state = "running"
      BY <3>1 DEF Inv, TypeOK
    <3>3. p # o => head'[p] = head[p]
      BY <3>1 DEF Inv, TypeOK
    <3>4. ASSUME p = o PROVE Grows(head[p], head'[p])
      <4> DEFINE h == head'[p]
      <4>1. head[p] \in Record /\ head[p].done \in Nat
        BY Known
      <4>2. h.state = head[p].state /\ h.kind = head[p].kind /\ h.writer = head[p].writer
            /\ h.previous = head[p].previous /\ h.draft = head[p].draft /\ h.done = head[p].done
        BY <3>2, <3>4, <4>1 DEF Record
      <4> HIDE DEF h
      <4>3. Grows(head[p], h)
        BY <4>1, <4>2 DEF Grows
      <4>4. QED
        BY <4>3 DEF h
    <3>5. QED
      BY <3>2, <3>3, <3>4, GrowsSame
  <2>3. CASE ~Dispatch(o)
    <3>1. PICK h, j : Step(o, h, j)
      BY <2>1, <2>3, Turns DEF Turn
    <3>2. Grows(head[p], head'[p])
      <4>1. p = o => Grows(head[p], head'[p])
        BY <3>1, StepTypes DEF Step
      <4>2. p # o => head'[p] = head[p]
        BY <3>1, StepTypes
      <4>3. QED
        BY <4>1, <4>2, GrowsSame
    <3>3. ASSUME head[p].state = "none", head'[p] # head[p] PROVE Prepare(p) \/ PrepareNext(p)
      <4>1. p = o /\ head[o].state = "none"
        BY <3>1, <3>3, StepTypes
      <4>2. ~head[o].attempted /\ job[o].pc = "idle"
        BY <4>1, Known, Begun DEF Right
      <4>3. CASE Confirm(o) \/ Cancel(o) \/ Check(o) \/ ReadDraft(o) \/ Prepared(o) \/ Opened(o) \/ NotPrepared(o)
        BY <4>1, <4>3 DEF Confirm, Cancel, Confirmable, Check, ReadDraft, Prepared, Opened, NotPrepared
      <4>4. CASE Read(o) \/ Answered(o) \/ Finish(o) \/ Fail(o) \/ Found(o) \/ NotFound(o)
        BY <4>1, <4>2, <4>4 DEF Read, Answered, Finish, Fail, Found, NotFound
      <4>5. QED
        BY <2>1, <2>3, <4>1, <4>3, <4>4 DEF Request, Work
    <3>4. QED
      BY <3>2, <3>3
  <2>4. QED
    BY <2>2, <2>3
<1>2. CASE Restart
  <2>1. head'[p] = Recovered(head[p])
    BY <1>2 DEF Restart
  <2>2. head[p] \in Record
    BY Known
  <2>3. head[p].state \notin {"preparing", "running"} => head'[p] = head[p]
    BY <2>1 DEF Recovered
  <2>4. ASSUME head[p].state \in {"preparing", "running"} PROVE Grows(head[p], head'[p])
    <3>1. PICK t \in States : head'[p] = [head[p] EXCEPT !.state = t] /\ t # "none"
      BY <2>1, <2>4 DEF Recovered, States
    <3>2. PICK h : h = head'[p]
      OBVIOUS
    <3>3. /\ h.state = t /\ h.kind = head[p].kind /\ h.writer = head[p].writer
          /\ h.previous = head[p].previous /\ h.draft = head[p].draft /\ h.done = head[p].done
          /\ head[p].done \in Nat
      BY <2>2, <3>1, <3>2, StateFields
    <3>4. Grows(head[p], h)
      BY <2>4, <3>1, <3>3 DEF Grows, GivenUp
    <3>5. QED
      BY <3>2, <3>4
  <2>5. QED
    BY <2>3, <2>4, GrowsSame
<1>3. CASE UNCHANGED head
  BY <1>3, GrowsSame
<1>4. QED
  <2>1. Close \/ Hold \/ Connect \/ UNCHANGED vars => UNCHANGED head
    BY DEF Close, Hold, Connect, vars
  <2>2. (\E i \in 1 .. Len(wire) : Land(i) \/ Refuse(i)) \/ (\E d \in Drafts : Edit(d)) => UNCHANGED head
    BY DEF Land, Refuse, Edit
  <2>3. QED
    BY <1>1, <1>2, <1>3, <2>1, <2>2 DEF Next

-----------------------------------------------------------------------------
(* One next version.                                                       *)

\* A version follows one of the same writing, of the same draft.
Kin(o) ==
  LET q == head[o].previous IN
  q # None => /\ q # o /\ head[q].state # "none" /\ head[q].writer = head[o].writer
              /\ head[q].draft = head[o].draft

KinInv == (\A o \in Operations : Kin(o)) /\ OneNextVersion

\* The records Prepare and PrepareNext begin.
LEMMA BornFields ==
  ASSUME Inv, NEW o \in Operations
  PROVE  /\ Prepare(o) => /\ head'[o].previous = None /\ head'[o].draft = None
                          /\ head'[o].state = "preparing"
                          /\ \A p \in Operations : p # o => head'[p] = head[p]
         /\ PrepareNext(o) =>
              \E p \in Operations :
                /\ head'[o].previous = p /\ head'[o].writer = head[p].writer /\ head'[o].draft = head[p].draft
                /\ head'[o].state = "preparing" /\ p # o /\ head[p].state # "none"
                /\ Editable(p) /\ p \in Tips(head[p].writer) /\ OwnsDraft(p)
                /\ owner' = [owner EXCEPT ![head[p].draft] = o]
                /\ \A r \in Operations : r # o => head'[r] = head[r]
<1>1. ASSUME Prepare(o)
      PROVE  /\ head'[o].previous = None /\ head'[o].draft = None /\ head'[o].state = "preparing"
             /\ \A p \in Operations : p # o => head'[p] = head[p]
  <2>1. PICK k, w : head' = [head EXCEPT ![o] = [NoHead EXCEPT !.state = "preparing", !.kind = k, !.writer = w]]
    BY <1>1 DEF Prepare, Become
  <2>2. QED
    BY <2>1 DEF Inv, TypeOK, NoHead
<1>2. ASSUME PrepareNext(o)
      PROVE  \E p \in Operations :
                /\ head'[o].previous = p /\ head'[o].writer = head[p].writer /\ head'[o].draft = head[p].draft
                /\ head'[o].state = "preparing" /\ p # o /\ head[p].state # "none"
                /\ Editable(p) /\ p \in Tips(head[p].writer) /\ OwnsDraft(p)
                /\ owner' = [owner EXCEPT ![head[p].draft] = o]
                /\ \A r \in Operations : r # o => head'[r] = head[r]
  <2>1. PICK k \in Following, p \in Operations :
          /\ Editable(p) /\ p \in Tips(head[p].writer) /\ OwnsDraft(p)
          /\ head' = [head EXCEPT ![o] = [NoHead EXCEPT !.state = "preparing", !.kind = k, !.previous = p,
                       !.writer = head[p].writer, !.draft = head[p].draft]]
          /\ owner' = [owner EXCEPT ![head[p].draft] = o]
    BY <1>2 DEF PrepareNext, Become
  <2>2. head[o].state = "none" /\ head[p].state # "none"
    BY <1>2, <2>1, NoHeadFields DEF PrepareNext, Editable
  <2>3. /\ head'[o].previous = p /\ head'[o].writer = head[p].writer /\ head'[o].draft = head[p].draft
        /\ head'[o].state = "preparing" /\ \A r \in Operations : r # o => head'[r] = head[r]
    BY <2>1 DEF Inv, TypeOK, NoHead
  <2>4. QED
    BY <2>1, <2>2, <2>3
<1> QED
  BY <1>1, <1>2

\* Every step keeps the kinship of the records.
LEMMA KinNext == ASSUME Inv, KinInv, [Next]_vars PROVE KinInv'
<1>1. ASSUME NEW o \in Operations PROVE Kin(o)'
  <2>1. CASE head[o].state # "none"
    <3>1. head'[o].previous = head[o].previous /\ head'[o].writer = head[o].writer
      BY <2>1, HeadMoves DEF Grows
    <3>2. SUFFICES ASSUME head[o].previous # None
                   PROVE  LET q == head[o].previous IN
                          q # o /\ head'[q].state # "none" /\ head'[q].writer = head'[o].writer
                          /\ head'[q].draft = head'[o].draft
      BY <3>1 DEF Kin
    <3>3. PICK q \in Operations : q = head[o].previous
      BY <3>2, Fields
    <3>4. q # o /\ head[q].state # "none" /\ head[q].writer = head[o].writer /\ head[q].draft = head[o].draft
      BY <3>2, <3>3 DEF KinInv, Kin
    <3>5. head'[q].state # "none" /\ head'[q].writer = head[q].writer
      BY <3>4, HeadMoves DEF Grows
    <3>6. head[o].draft # None
      <4>1. Right(PlanOf, o, head[o], job[o])
        BY Known
      <4>2. head[o].kind \in Following
        BY <3>2, <4>1 DEF Right
      <4>3. QED
        BY <4>1, <4>2 DEF Right
    <3>7. head'[q].draft = head[q].draft /\ head'[o].draft = head[o].draft
      BY <3>4, <3>6, HeadMoves DEF Grows
    <3>8. QED
      BY <3>1, <3>3, <3>4, <3>5, <3>7
  <2>2. CASE head[o].state = "none"
    <3>1. CASE head'[o] = head[o]
      BY <2>2, <3>1, Begun, NoHeadFields DEF Kin
    <3>2. CASE Prepare(o)
      BY <3>2, BornFields DEF Kin
    <3>3. CASE PrepareNext(o)
      <4>1. PICK p \in Operations :
                /\ head'[o].previous = p /\ head'[o].writer = head[p].writer /\ head'[o].draft = head[p].draft
                /\ p # o /\ head[p].state # "none" /\ \A r \in Operations : r # o => head'[r] = head[r]
        BY <3>3, BornFields
      <4>2. head'[p] = head[p]
        BY <4>1
      <4>3. QED
        BY <4>1, <4>2 DEF Kin
    <3>4. QED
      BY <2>2, <3>1, <3>2, <3>3, HeadMoves
  <2>3. QED
    BY <2>1, <2>2
<1>2. ASSUME NEW o \in Operations, NEW p \in Operations, o # p, PrepareNext(o), head'[o].previous = head'[p].previous
      PROVE  head'[p].state \in GivenUp
  <2>1. PICK q \in Operations :
                /\ head'[o].previous = q /\ q # o /\ q \in Tips(head[q].writer)
                /\ \A r \in Operations : r # o => head'[r] = head[r]
    BY <1>2, BornFields
  <2>2. head[p].previous = q /\ head'[p] = head[p]
    BY <1>2, <2>1
  <2>3. head[p].writer = head[q].writer
    BY <2>2, MailAssumption DEF KinInv, Kin, Drafts
  <2>4. p \notin Lineage(head[q].writer)
    BY <2>1, <2>2 DEF Tips
  <2>5. QED
    BY <2>2, <2>3, <2>4 DEF Lineage
<1>3. ASSUME NEW o \in Operations, NEW p \in Operations,
             o # p, head'[o].previous # None, head'[o].previous = head'[p].previous
      PROVE  head'[o].state \in GivenUp \/ head'[p].state \in GivenUp
  <2>1. ASSUME NEW r \in Operations, ~PrepareNext(r), head'[r].previous # None
        PROVE  head'[r].previous = head[r].previous
    <3>1. CASE head[r].state # "none"
      BY <3>1, HeadMoves DEF Grows
    <3>2. CASE head[r].state = "none"
      BY <2>1, <3>2, HeadMoves, BornFields
    <3>3. QED
      BY <3>1, <3>2
  <2>2. CASE PrepareNext(o)
    BY <1>2, <1>3, <2>2
  <2>3. CASE PrepareNext(p)
    BY <1>2, <1>3, <2>3
  <2>4. CASE ~PrepareNext(o) /\ ~PrepareNext(p)
    <3>1. head'[o].previous = head[o].previous /\ head'[p].previous = head[p].previous
      BY <1>3, <2>1, <2>4
    <3>2. head[o].state \in GivenUp \/ head[p].state \in GivenUp
      BY <1>3, <3>1 DEF KinInv, OneNextVersion
    <3>3. QED
      BY <3>2, HeadMoves DEF Grows
  <2>5. QED
    BY <2>2, <2>3, <2>4
<1>4. OneNextVersion'
  BY <1>3 DEF OneNextVersion
<1> QED
  BY <1>1, <1>4 DEF KinInv

\* A record and the one it revises are of one writer, its draft is that of its
\* versions, and no record has two next versions.
LEMMA MailKin == Spec => []KinInv
<1>1. Init => KinInv
  BY NoHeadFields DEF Init, KinInv, Kin, OneNextVersion
<1>2. Inv /\ KinInv /\ [Next]_vars => KinInv'
  BY KinNext
<1> QED
  BY <1>1, <1>2, MailInv, PTL DEF Spec

\* Two saved operations are never the next version of the same one: the check that
\* nothing else revises it and the insert of the revision are one step, whatever
\* the other requests do between.
THEOREM MailOneNextVersion == Spec => []OneNextVersion
<1>1. KinInv => OneNextVersion
  BY DEF KinInv
<1> QED
  BY <1>1, MailKin, PTL

-----------------------------------------------------------------------------
(* Each stage implements DurableEffect.                                    *)

Shown == INSTANCE DurableEffectProofs WITH Effects <- Operations \X (1 .. MaxStages), effect <- Abstract

Flies(c, o, i) == c.op = o /\ c.stage = i
Wires(o, i) == IF \E c \in Pending : Flies(c, o, i) THEN 1 ELSE 0

\* What a step does to one stage.
StageMoves(o, i) ==
  LET from(x, y) == Claim(o, i) = x /\ Claim(o, i)' = y
      quiet == Wires(o, i) = 0 /\ Wires(o, i)' = 0 /\ landed'[o][i] = landed[o][i] IN
  \/ /\ Claim(o, i)' = Claim(o, i)
     /\ Wires(o, i)' = Wires(o, i) /\ landed'[o][i] = landed[o][i]
  \/ /\ Claim(o, i)' = Claim(o, i)
     /\ Wires(o, i) = 1 /\ Wires(o, i)' = 0 /\ landed'[o][i] \in {landed[o][i], landed[o][i] + 1}
  \/ /\ from("pending", "maybe") /\ Wires(o, i) = 0 /\ Wires(o, i)' = 1
     /\ landed'[o][i] = landed[o][i]
  \/ from("unsent", "pending") /\ quiet
  \/ from("pending", "unsent") /\ quiet
  \/ from("maybe", "unsent") /\ quiet /\ landed[o][i] = 0
  \/ from("maybe", "known") /\ quiet /\ landed[o][i] = 1

\* Inv and what follows from it of the requests, before and after a step.
Pictured ==
  \A o \in Operations, i \in 1 .. MaxStages :
    /\ landed[o][i] \in Nat
    /\ Cardinality({n \in DOMAIN wire : wire[n].op = o /\ wire[n].stage = i}) = Wires(o, i)

\* What a durable effect shows of each stage.
LEMMA PicturedNow == Inv => Pictured
<1> SUFFICES ASSUME Inv, NEW o \in Operations, NEW i \in 1 .. MaxStages
             PROVE  /\ landed[o][i] \in Nat
                    /\ Cardinality({n \in DOMAIN wire : wire[n].op = o /\ wire[n].stage = i}) = Wires(o, i)
  BY DEF Pictured
<1>1. landed[o][i] \in Nat /\ wire \in Seq(Call)
  BY DEF Inv, TypeOK
<1>2. Len(wire) \in Nat /\ DOMAIN wire = 1 .. Len(wire)
  BY <1>1
<1>3. \A n, k \in 1 .. Len(wire) : wire[n].op = wire[k].op => n = k
  BY DEF Inv, Wired
<1> DEFINE N == {n \in DOMAIN wire : wire[n].op = o /\ wire[n].stage = i}
<1>4. CASE \E c \in Pending : Flies(c, o, i)
  <2>1. PICK n \in 1 .. Len(wire) : wire[n].op = o /\ wire[n].stage = i
    BY <1>4 DEF Flies, Pending
  <2>2. N = {n}
    BY <1>2, <1>3, <2>1
  <2> HIDE DEF N
  <2>3. Cardinality(N) = 1
    BY <2>2, FS_Singleton
  <2>4. QED
    BY <1>1, <1>4, <2>3 DEF N, Wires
<1>5. CASE ~\E c \in Pending : Flies(c, o, i)
  <2>1. N = {}
    BY <1>2, <1>5 DEF Flies, Pending
  <2> HIDE DEF N
  <2>2. Cardinality(N) = 0
    BY <2>1, FS_EmptySet
  <2>3. QED
    BY <1>1, <1>5, <2>2 DEF N, Wires
<1>6. QED
  BY <1>4, <1>5

\* These moves of a stage are moves of a durable effect.
LEMMA StageMoveIsMove ==
  ASSUME Pictured, Pictured', NEW o \in Operations, NEW i \in 1 .. MaxStages, StageMoves(o, i)
  PROVE  LET e == <<o, i>> IN
         Abstract'[e] = Abstract[e] \/ Promise!Move(Abstract[e], Abstract'[e])
<1> DEFINE e == <<o, i>>
<1>1. /\ Abstract[e] = Shown!E(Claim(o, i), Wires(o, i), landed[o][i])
      /\ Abstract'[e] = Shown!E(Claim(o, i)', Wires(o, i)', landed'[o][i])
  BY DEF Abstract, Shown!E, Pictured
<1>2. \A x, y : Shown!Move(x, y) <=> Promise!Move(x, y)
  BY DEF Promise!Move, Promise!Ask, Promise!Dispatch, Promise!Withdraw, Promise!Doubt, Promise!Refuse,
         Promise!Learn, Promise!Land, Promise!Lose, Shown!Move, Shown!Ask, Shown!Dispatch,
         Shown!Withdraw, Shown!Doubt, Shown!Refuse, Shown!Learn, Shown!Land, Shown!Lose
<1>3. \A n \in Nat :
        /\ Shown!Move(Shown!E("unsent", 0, n), Shown!E("pending", 0, n))
        /\ Shown!Move(Shown!E("pending", 0, n), Shown!E("maybe", 1, n))
        /\ Shown!Move(Shown!E("pending", 0, n), Shown!E("unsent", 0, n))
        /\ Shown!Move(Shown!E("maybe", 0, 0), Shown!E("unsent", 0, 0))
        /\ Shown!Move(Shown!E("maybe", 0, 1), Shown!E("known", 0, 1))
        /\ \A x : /\ Shown!Move(Shown!E(x, 1, n), Shown!E(x, 0, n + 1))
                  /\ Shown!Move(Shown!E(x, 1, n), Shown!E(x, 0, n))
  BY Shown!Moves
<1>4. landed[o][i] \in Nat
  BY DEF Pictured
<1>5. QED
  BY <1>1, <1>2, <1>3, <1>4 DEF StageMoves

\* The claims of an operation's stages, by its record.
LEMMA Claims ==
  ASSUME Inv, NEW o \in Operations, NEW i \in 1 .. MaxStages
  PROVE  /\ i <= head[o].done => Claim(o, i) = "known"
         /\ i = head[o].done + 1 /\ head[o].attempted => Claim(o, i) = "maybe"
         /\ i = head[o].done + 1 /\ ~head[o].attempted => Claim(o, i) \in {"unsent", "pending"}
         /\ i > head[o].done + 1 => Claim(o, i) = "unsent"
         /\ head[o].done \in Nat /\ Covered(o) /\ landed[o][i] \in {0, 1}
         /\ Wires(o, i) \in {0, 1}
         /\ Wires(o, i) = 1 => i = head[o].done + 1 /\ head[o].attempted
<1>1. head[o].done \in Nat /\ Covered(o)
  BY Known
<1>2. Wires(o, i) = 1 => i = head[o].done + 1 /\ head[o].attempted
  BY AwaitedStage DEF Wires, Flies
<1>3. QED
  BY <1>1, <1>2 DEF Claim, Covered, Wires

\* No call is made or answered, and the record keeps its stages.
LEMMA QuietMoves ==
  ASSUME Inv, Inv', NEW o \in Operations, NEW i \in 1 .. MaxStages,
         head'[o].done = head[o].done, head'[o].attempted = head[o].attempted,
         wire' = wire, landed' = landed
  PROVE  StageMoves(o, i)
<1>1. Pending' = Pending /\ Wires(o, i)' = Wires(o, i)
  BY DEF Pending, Wires
<1>2. head[o].done \in Nat
  BY Known
<1>3. CASE i = head[o].done + 1 /\ ~head[o].attempted
  <2>1. Wires(o, i) = 0 /\ Claim(o, i) \in {"unsent", "pending"}
    BY <1>3, Claims
  <2>2. Claim(o, i)' \in {"unsent", "pending"}
    BY <1>2, <1>3 DEF Claim
  <2>3. QED
    BY <1>1, <2>1, <2>2 DEF StageMoves
<1>4. CASE ~(i = head[o].done + 1 /\ ~head[o].attempted)
  <2>1. Claim(o, i)' = Claim(o, i)
    BY <1>2, <1>4 DEF Claim
  <2>2. QED
    BY <1>1, <2>1 DEF StageMoves
<1>5. QED
  BY <1>3, <1>4

\* An answer or evidence closes the stage attempted.
LEMMA CloseMoves ==
  ASSUME Inv, NEW o \in Operations, NEW i \in 1 .. MaxStages, NEW h, NEW j,
         Step(o, h, j), Closes(o, h, j)
  PROVE  StageMoves(o, i)
<1>1. /\ Pending' = Pending /\ Wires(o, i)' = Wires(o, i) /\ landed' = landed
      /\ head'[o] = h /\ h.done \in Nat /\ head[o].done \in Nat /\ head[o].done <= h.done
  <2>1. wire' = wire /\ landed' = landed
    BY DEF Step
  <2>2. Pending' = Pending /\ Wires(o, i)' = Wires(o, i)
    BY <2>1 DEF Pending, Wires
  <2>3. h \in Record /\ head[o].done <= h.done
    BY DEF Step, Right, Grows
  <2>4. h.done \in Nat
    BY <2>3 DEF Record
  <2>5. QED
    BY <2>1, <2>2, <2>3, <2>4, StepTypes, Known
<1>2. Wires(o, i) = 0
  BY PendingAwaited DEF Wires, Flies, Closes
<1>3. ~h.attempted /\ (landed[o][i] = 1 <=> i <= h.done)
  BY DEF Closes
<1>4. CASE i <= head[o].done
  <2>1. Claim(o, i) = "known" /\ Claim(o, i)' = "known"
    BY <1>1, <1>4 DEF Claim
  <2>2. QED
    BY <1>1, <2>1 DEF StageMoves
<1>5. CASE head[o].done < i /\ i <= h.done
  <2>1. landed[o][i] = 1
    BY <1>3, <1>5
  <2>2. i = head[o].done + 1 /\ head[o].attempted
    BY <1>1, <1>5, <2>1, Claims DEF Covered
  <2>3. Claim(o, i) = "maybe" /\ Claim(o, i)' = "known"
    BY <1>1, <1>5, <2>2, Claims DEF Claim
  <2>4. QED
    BY <1>1, <1>2, <2>1, <2>3 DEF StageMoves
<1>6. CASE h.done < i
  <2>1. Claim(o, i)' \in {"unsent", "pending"} /\ (Claim(o, i)' = "pending" => h.state = "running" /\ i = h.done + 1)
    BY <1>1, <1>3, <1>6 DEF Claim
  <2>2. landed[o][i] = 0
    BY <1>1, <1>3, <1>6, Claims
  <2>3. CASE i = head[o].done + 1 /\ head[o].attempted
    <3>1. h.done = head[o].done
      BY <1>1, <1>6, <2>3
    <3>2. Claim(o, i)' = "unsent"
      BY <2>1, <2>3, <3>1 DEF Closes
    <3>3. Claim(o, i) = "maybe"
      BY <2>3, Claims
    <3>4. QED
      BY <1>1, <1>2, <2>2, <3>2, <3>3 DEF StageMoves
  <2>4. CASE ~(i = head[o].done + 1 /\ head[o].attempted)
    <3>1. Claim(o, i) \in {"unsent", "pending"}
      BY <1>1, <1>6, <2>4, Claims
    <3>2. QED
      BY <1>1, <1>2, <2>1, <3>1 DEF StageMoves
  <2>5. QED
    BY <2>3, <2>4
<1>7. QED
  BY <1>1, <1>4, <1>5, <1>6

\* Dispatch is a move of the stage it dispatches and of no other.
LEMMA DispatchMoves ==
  ASSUME Inv, NEW p \in Operations, Dispatch(p), NEW o \in Operations, NEW i \in 1 .. MaxStages
  PROVE  StageMoves(o, i)
<1> DEFINE c == [op |-> p, stage |-> head[p].done + 1, tag |-> job[p].tag]
<1>1. /\ head[p].state = "running" /\ job[p].pc = "ready"
      /\ head' = [head EXCEPT ![p] = [head[p] EXCEPT !.attempted = TRUE]]
      /\ wire' = Append(wire, c) /\ landed' = landed /\ scenario' = scenario
  BY DEF Dispatch, Become, world
<1>2. head[p].attempted = FALSE /\ Left(p) /\ head[p].done \in Nat
  BY <1>1, Known, Fields DEF Right
<1>3. c \in Call /\ c.op = p /\ c.stage = head[p].done + 1
  BY <1>2, Known, Fields DEF Call
<1>4. ~InWire(p)
  BY <1>2, LandedIsOver
<1> HIDE DEF c
<1>5. Pending' = Pending \cup {c}
  BY <1>1, <1>3, <1>4, Adding
<1>6. CASE o # p
  <2>1. head'[o] = head[o]
    BY <1>1, <1>6 DEF Inv, TypeOK
  <2>2. Claim(o, i)' = Claim(o, i)
    BY <1>1, <2>1, PlanStays DEF Claim, Left, Stages, Plan, Gmail
  <2>3. Wires(o, i)' = Wires(o, i)
    BY <1>3, <1>5, <1>6 DEF Wires, Flies
  <2>4. QED
    BY <1>1, <2>2, <2>3 DEF StageMoves
<1>7. CASE o = p
  <2>1. head'[o].done = head[o].done /\ head'[o].attempted
    BY <1>1, <1>7, Known DEF Inv, TypeOK, Record
  <2>2. CASE i = head[o].done + 1
    <3>1. Claim(o, i) = "pending"
      BY <1>1, <1>2, <1>7, <2>2 DEF Claim
    <3>2. Claim(o, i)' = "maybe"
      BY <1>2, <1>7, <2>1, <2>2 DEF Claim
    <3>3. Wires(o, i) = 0
      BY <1>4, <1>7, PendingAwaited DEF Wires, Flies
    <3>4. Wires(o, i)' = 1
      BY <1>3, <1>5, <1>7, <2>2 DEF Wires, Flies
    <3>5. QED
      BY <1>1, <3>1, <3>2, <3>3, <3>4 DEF StageMoves
  <2>3. CASE i # head[o].done + 1
    <3>1. Claim(o, i)' = Claim(o, i)
      BY <1>2, <1>7, <2>1, <2>3 DEF Claim
    <3>2. Wires(o, i)' = Wires(o, i)
      BY <1>3, <1>5, <1>7, <2>3 DEF Wires, Flies
    <3>3. QED
      BY <1>1, <3>1, <3>2 DEF StageMoves
  <2>4. QED
    BY <2>2, <2>3
<1>8. QED
  BY <1>6, <1>7

\* The provider takes a request or refuses it.
LEMMA OverMoves ==
  ASSUME Inv, NEW k \in 1 .. Len(wire), Land(k) \/ Refuse(k), NEW o \in Operations, NEW i \in 1 .. MaxStages
  PROVE  StageMoves(o, i)
<1>0. PICK c : c = wire[k]
  OBVIOUS
<1>1. c \in Pending /\ c.op \in Operations /\ c.stage \in 1 .. MaxStages /\ Awaited(c)
  BY <1>0, WireTypes, PendingAwaited DEF Pending, Inv
<1>2. /\ Taken(k) /\ head' = head /\ scenario' = scenario
      /\ landed' = landed \/ landed' = [landed EXCEPT ![c.op][c.stage] = @ + 1]
  BY <1>0 DEF Land, Refuse, world
<1>a. /\ landed[c.op][c.stage] = 0 /\ landed'[c.op][c.stage] \in {0, 1}
      /\ \A p \in Operations : \A n \in 1 .. MaxStages : p # c.op \/ n # c.stage => landed'[p][n] = landed[p][n]
  <2>1. PICK p \in Operations, n \in 1 .. MaxStages : p = c.op /\ n = c.stage
    BY <1>1
  <2>2. landed[p][n] = 0 /\ (landed' = landed \/ landed' = [landed EXCEPT ![p][n] = @ + 1])
    BY <1>1, <1>2, <2>1 DEF Awaited
  <2>3. QED
    BY <2>1, <2>2, LandedUp
<1>3. Pending' = Pending \ {c}
  BY <1>0, <1>2, Taking
<1>4. Claim(o, i)' = Claim(o, i)
  BY <1>2 DEF Claim, Left, Stages, Plan, Gmail
<1>5. CASE o = c.op /\ i = c.stage
  <2>1. Wires(o, i) = 1
    BY <1>1, <1>5 DEF Wires, Flies
  <2>2. Wires(o, i)' = 0
    BY <1>1, <1>3, <1>5, PendingAwaited DEF Wires, Flies
  <2>3. landed'[o][i] \in {landed[o][i], landed[o][i] + 1}
    BY <1>5, <1>a
  <2>4. QED
    BY <1>4, <2>1, <2>2, <2>3 DEF StageMoves
<1>6. CASE ~(o = c.op /\ i = c.stage)
  <2>1. Wires(o, i)' = Wires(o, i)
    BY <1>3, <1>6 DEF Wires, Flies
  <2>2. landed'[o][i] = landed[o][i]
    BY <1>6, <1>a
  <2>3. QED
    BY <1>4, <2>1, <2>2 DEF StageMoves
<1>7. QED
  BY <1>5, <1>6

\* Every step moves each stage so or leaves it.
LEMMA AllMove ==
  ASSUME Inv, Inv', [Next]_vars, NEW o \in Operations, NEW i \in 1 .. MaxStages
  PROVE  StageMoves(o, i)
<1>1. CASE \E p \in Operations : Request(p) \/ Work(p)
  <2>1. PICK p \in Operations : Request(p) \/ Work(p)
    BY <1>1
  <2>2. CASE ~Dispatch(p)
    <3>1. PICK h, j : Step(p, h, j) /\ (Still(p, h, j) \/ Closes(p, h, j))
      BY <2>1, <2>2, Turns DEF Turn
    <3>2. wire' = wire /\ landed' = landed
      BY <3>1 DEF Step
    <3>3. CASE o # p
      <4>1. head'[o] = head[o]
        BY <3>1, <3>3, StepTypes
      <4>2. QED
        BY <3>2, <4>1, QuietMoves
    <3>4. CASE o = p /\ Still(p, h, j)
      <4>1. head'[o].done = head[o].done /\ head'[o].attempted = head[o].attempted
        BY <3>1, <3>4, StepTypes DEF Still
      <4>2. QED
        BY <3>2, <4>1, QuietMoves
    <3>5. CASE o = p /\ Closes(p, h, j)
      BY <3>1, <3>5, CloseMoves
    <3>6. QED
      BY <3>1, <3>3, <3>4, <3>5
  <2>3. QED
    BY <2>2, DispatchMoves
<1>2. CASE \E k \in 1 .. Len(wire) : Land(k) \/ Refuse(k)
  BY <1>2, OverMoves
<1>3. CASE Restart
  <2>1. head'[o] = Recovered(head[o]) /\ wire' = wire /\ landed' = landed /\ head[o] \in Record
    BY <1>3, Known DEF Restart, provider
  <2>2. head'[o].done = head[o].done /\ head'[o].attempted = head[o].attempted
    BY <2>1 DEF Recovered, Record
  <2>3. QED
    BY <2>1, <2>2, QuietMoves
<1>4. CASE (\E d \in Drafts : Edit(d)) \/ Close \/ Hold \/ Connect \/ UNCHANGED vars
  <2>1. UNCHANGED <<head, wire, landed>>
    BY <1>4 DEF Edit, Close, Hold, Connect, vars, provider
  <2>2. QED
    BY <2>1, QuietMoves
<1>5. QED
  BY <1>1, <1>2, <1>3, <1>4 DEF Next

\* Each stage of each mail operation implements DurableEffect: attempted is saved
\* before its request is made, no second request is made while it is in doubt, and
\* it completes only when it took place.
THEOREM StagesAreDurable == Spec => EachStageIsDurable
<1>1. Init => Promise!Init
  <2>1. ASSUME Init, NEW o \in Operations, NEW i \in 1 .. MaxStages
        PROVE  Abstract[<<o, i>>] = Promise!Untouched
    <3>1. Inv /\ Pictured
      BY <2>1, InitInv, MailAssumption, PicturedNow
    <3>2. head[o] = NoHead /\ wire = <<>> /\ landed[o][i] = 0
      BY <2>1 DEF Init
    <3>3. Claim(o, i) = "unsent"
      BY <3>1, <3>2, NoHeadFields DEF Claim
    <3>4. Wires(o, i) = 0
      BY <3>2 DEF Wires, Pending
    <3>5. QED
      BY <3>1, <3>2, <3>3, <3>4 DEF Abstract, Pictured, Promise!Untouched
  <2>2. Abstract = [e \in Operations \X (1 .. MaxStages) |-> Abstract[e]]
    BY DEF Abstract
  <2>3. \A e \in Operations \X (1 .. MaxStages) : \E o \in Operations, i \in 1 .. MaxStages : e = <<o, i>>
    OBVIOUS
  <2> HIDE DEF Abstract
  <2>4. QED
    BY <2>1, <2>2, <2>3 DEF Promise!Init
<1>2. Inv /\ Inv' /\ Pictured /\ Pictured' /\ [Next]_vars => [Promise!Next]_Abstract
  <2> SUFFICES ASSUME Inv, Inv', Pictured, Pictured', [Next]_vars PROVE Promise!Next
    OBVIOUS
  <2>1. \A o \in Operations, i \in 1 .. MaxStages :
          LET e == <<o, i>> IN
          Abstract'[e] = Abstract[e] \/ Promise!Move(Abstract[e], Abstract'[e])
    BY AllMove, StageMoveIsMove
  <2>2. \A e \in Operations \X (1 .. MaxStages) : \E o \in Operations, i \in 1 .. MaxStages : e = <<o, i>>
    OBVIOUS
  <2>3. Abstract' = [e \in Operations \X (1 .. MaxStages) |-> Abstract'[e]]
    BY DEF Abstract
  <2> HIDE DEF Abstract
  <2>4. QED
    BY <2>1, <2>2, <2>3 DEF Promise!Next
<1>3. QED
  BY <1>1, <1>2, MailInv, PicturedNow, PTL DEF Spec, EachStageIsDurable, Promise!Spec

=============================================================================
