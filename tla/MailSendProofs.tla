--------------------------- MODULE MailSendProofs ---------------------------
(***************************************************************************)
(* What MailDelivery sends and whose hands a draft is in, proved from the  *)
(* invariant of MailProofs. VersionInv follows the versions of the drafts: *)
(* what was sent is what was reviewed. OwnedInv says which operation a     *)
(* draft belongs to: only its owner has a request about it. SendInv joins  *)
(* both with the family of the operations of one writing, of which at most *)
(* one is alive, and bounds the sends of a writing by one.                 *)
(***************************************************************************)
EXTENDS MailProofs

-----------------------------------------------------------------------------
(* Versions of drafts.                                                     *)

\* A draft an operation creates is there once its first stage took place.
Made(d) == d \in Operations => landed[d][1] = 1

\* The version of a draft grows until it is sent, and nothing brings it back.
VersionMoves(d) ==
  \/ version'[d] = version[d] /\ content'[d] = content[d]
  \/ version'[d] = 0
  \/ version[d] > 0 /\ version'[d] = version[d] + 1
  \/ d \in Operations /\ landed[d][1] = 0 /\ landed'[d][1] = 1 /\ version'[d] = 1

\* What a request that takes effect does to its draft and its operation.
LandingStage(c, o, s) ==
  /\ c \in Pending /\ head' = head /\ owner' = owner /\ Pending' = Pending \ {c}
  /\ landed[o][c.stage] = 0 /\ landed'[o][c.stage] = 1
  /\ \A p \in Operations : \A k \in 1 .. MaxStages : p # o \/ k # c.stage => landed'[p][k] = landed[p][k]
  /\ \A p \in Operations : p # o => job'[p] = job[p] /\ sent'[p] = sent[p]
  /\ job'[o].pc = job[o].pc
  /\ s \in Creating => version'[o] = 1 /\ c.stage = 1
LandingDraft(c, o, s, d) ==
  /\ Reads(s) => /\ d \in Drafts /\ version[d] > 0 /\ job'[o].tag \in {job[o].tag, version'[d]}
                 /\ version'[d] = IF s = "send-draft" THEN 0 ELSE version[d] + 1
  /\ \A e \in Drafts : (s \in Creating => e # o) /\ (Reads(s) => e # d)
       => version'[e] = version[e] /\ content'[e] = content[e]
  /\ s = "update-draft" => content'[d] = o
  /\ sent'[o] = sent[o] \/ sent'[o] = o
       \/ (s = "send-draft" /\ ~Gmail /\ version[d] = c.tag /\ sent'[o] = content[d])
Landing(c, o, s, d) == /\ o = c.op /\ s = Stage(o) /\ d = head[o].draft
                       /\ LandingStage(c, o, s) /\ LandingDraft(c, o, s, d)

\* Land is a landing of a pending request.
LEMMA LandIs == ASSUME Inv, NEW i \in 1 .. Len(wire), Land(i) PROVE \E c \in Pending : \E o, s, d : c = wire[i] /\ Landing(c, o, s, d)
<1>0. PICK c : c = wire[i]
  OBVIOUS
<1>1. PICK o : o = c.op
  OBVIOUS
<1>2. PICK s, d : s = Stage(o) /\ d = Target(o, s)
  OBVIOUS
<1> DEFINE v == CASE s \in {"create", "create-reply"} -> 1
                  [] s \in {"send", "send-draft"}     -> 0
                  [] OTHER -> version[d] + 1
<1>3. c \in Pending /\ o \in Operations
  BY <1>0, <1>1, WireTypes DEF Pending, Inv
<1>4. Plan(head[o].kind)[c.stage] = s
  BY <1>1, <1>2, <1>3, AwaitedStage
<1>5. /\ Taken(i) /\ head' = head /\ owner' = owner
      /\ Reads(s) => version[d] > 0
      /\ Conditional(s) => version[d] = c.tag
      /\ landed' = [landed EXCEPT ![o][c.stage] = @ + 1]
      /\ version' = IF s = "send" THEN version ELSE [version EXCEPT ![d] = v]
      /\ IF s \in {"create", "update-reply", "update-draft"}
         THEN content' = [content EXCEPT ![d] = o] ELSE content' = content
      /\ sent' = CASE s = "send" \/ (s = "send-draft" /\ Gmail) -> [sent EXCEPT ![o] = o]
                   [] s = "send-draft" /\ ~Gmail -> [sent EXCEPT ![o] = content[d]]
                   [] OTHER -> sent
      /\ job' = IF job[o].pc = "call" THEN [job EXCEPT ![o].tag = v] ELSE job
  BY <1>0, <1>1, <1>2, <1>4 DEF Land
<1>6. /\ c.stage = head[o].done + 1 /\ c.stage \in 1 .. MaxStages
      /\ c.stage \in 1 .. Len(PlanOf[head[o].kind]) /\ s = PlanOf[head[o].kind][c.stage]
      /\ s \in StageNames /\ landed[o][c.stage] = 0 /\ (Reads(s) => head[o].draft \in Drafts)
      /\ head[o].kind \in AllKinds
  BY <1>1, <1>2, <1>3, AwaitedStage, Known
<1>7. /\ Reads(s) => d = head[o].draft /\ d \in Drafts /\ s \notin Creating /\ s # "send"
      /\ s \in Creating => d = o /\ d \in Drafts /\ ~Reads(s)
      /\ s \in Creating \/ Reads(s) \/ s = "send"
  BY <1>2, <1>3, <1>6 DEF Target, Reads, Creating, StageNames, Drafts
<1>8. s \in Creating => c.stage = 1
  BY <1>6, PlanFacts DEF Planned
<1>9. Pending' = Pending \ {c}
  BY <1>0, <1>5, Taking
<1>10. /\ landed'[o][c.stage] = 1
       /\ \A p \in Operations : \A k \in 1 .. MaxStages : p # o \/ k # c.stage => landed'[p][k] = landed[p][k]
  <2>1. PICK n \in 1 .. MaxStages : n = c.stage
    BY <1>6
  <2>2. landed[o][n] = 0 /\ landed' = [landed EXCEPT ![o][n] = @ + 1]
    BY <1>5, <1>6, <2>1
  <2>3. landed'[o][n] = 1
    BY <1>3, <2>2, LandedUp
  <2>4. \A p \in Operations : \A k \in 1 .. MaxStages : p # o \/ k # n => landed'[p][k] = landed[p][k]
    BY <1>3, <2>2, LandedUp
  <2>5. QED
    BY <2>1, <2>3, <2>4
<1>11. /\ s \in Creating => v = 1
       /\ Reads(s) => v = IF s = "send-draft" THEN 0 ELSE version[d] + 1
  BY <1>7 DEF Creating
<1> HIDE DEF v
<1>12. /\ s \in Creating => version'[o] = 1
       /\ Reads(s) => version'[d] = v
       /\ \A e \in Drafts : (s \in Creating => e # o) /\ (Reads(s) => e # d)
            => version'[e] = version[e] /\ content'[e] = content[e]
  <2>1. version \in [Drafts -> Nat] /\ content \in [Drafts -> Drafts]
    BY DEF Inv, TypeOK
  <2>2. s # "send" => version' = [version EXCEPT ![d] = v]
    BY <1>5
  <2>3. \A e \in Drafts : e # d => version'[e] = version[e] /\ content'[e] = content[e]
    BY <1>5, <2>1
  <2>4. s = "send" => version' = version /\ content' = content
    BY <1>5
  <2>5. (s \in Creating \/ Reads(s)) => s # "send" /\ version'[d] = v
    BY <1>7, <2>1, <2>2 DEF Creating, Reads
  <2>6. QED
    BY <1>7, <1>11, <2>3, <2>4, <2>5
<1>13. s = "update-draft" => content'[d] = o
  BY <1>5, <1>7 DEF Reads, Inv, TypeOK
<1>14. /\ \A p \in Operations : p # o => job'[p] = job[p] /\ sent'[p] = sent[p]
       /\ job'[o].pc = job[o].pc /\ job'[o].tag \in {job[o].tag, v}
  <2>1. job \in [Operations -> Job] /\ sent \in [Operations -> Drafts \cup {"nothing"}]
    BY DEF Inv, TypeOK
  <2>2. job' = job \/ job' = [job EXCEPT ![o] = [job[o] EXCEPT !.tag = v]]
    BY <1>3, <1>5, <2>1
  <2>3. \A p \in Operations : p # o => job'[p] = job[p]
    BY <2>1, <2>2
  <2>4. [job[o] EXCEPT !.tag = v].pc = job[o].pc /\ [job[o] EXCEPT !.tag = v].tag = v
    BY <1>3, <2>1 DEF Job
  <2>5. job'[o].pc = job[o].pc /\ job'[o].tag \in {job[o].tag, v}
    BY <1>3, <2>1, <2>2, <2>4
  <2>6. \A p \in Operations : p # o => sent'[p] = sent[p]
    BY <1>5, <2>1
  <2>7. QED
    BY <2>3, <2>5, <2>6
<1>15. sent'[o] = sent[o] \/ sent'[o] = o
       \/ (s = "send-draft" /\ ~Gmail /\ version[d] = c.tag /\ sent'[o] = content[d])
  BY <1>3, <1>5 DEF Conditional, Inv, TypeOK
<1>16. s = "send-draft" => Reads(s)
  BY DEF Reads
<1>17. s = "update-draft" => Reads(s)
  BY DEF Reads
<1>18. PICK r : r = head[o].draft
  OBVIOUS
<1>19. /\ Reads(s) => /\ r \in Drafts /\ version[r] > 0 /\ job'[o].tag \in {job[o].tag, version'[r]}
                      /\ version'[r] = IF s = "send-draft" THEN 0 ELSE version[r] + 1
       /\ \A e \in Drafts : (s \in Creating => e # o) /\ (Reads(s) => e # r)
            => version'[e] = version[e] /\ content'[e] = content[e]
       /\ s = "update-draft" => content'[r] = o
       /\ sent'[o] = sent[o] \/ sent'[o] = o
            \/ (s = "send-draft" /\ ~Gmail /\ version[r] = c.tag /\ sent'[o] = content[r])
  BY <1>5, <1>7, <1>11, <1>12, <1>13, <1>14, <1>15, <1>16, <1>17, <1>18
<1>20. LandingStage(c, o, s)
  BY <1>3, <1>5, <1>6, <1>8, <1>9, <1>10, <1>12, <1>14 DEF LandingStage
<1>21. LandingDraft(c, o, s, r)
  BY <1>19 DEF LandingDraft
<1> QED
  BY <1>0, <1>1, <1>2, <1>3, <1>18, <1>20, <1>21 DEF Landing

\* Every step moves the version of each draft so, and nothing that took place is
\* undone.
LEMMA AnyVersionMoves ==
  ASSUME Inv, [Next]_vars
  PROVE  /\ \A d \in Drafts : VersionMoves(d)
         /\ \A o \in Operations : \A k \in 1 .. MaxStages : landed[o][k] = 1 => landed'[o][k] = 1
<1>1. CASE \E i \in 1 .. Len(wire) : Land(i)
  <2>1. PICK c \in Pending : \E o, s, d : Landing(c, o, s, d)
    BY <1>1, LandIs
  <2>a. PICK o, s, r : Landing(c, o, s, r)
    BY <2>1
  <2>2. ASSUME NEW p \in Operations, NEW k \in 1 .. MaxStages, landed[p][k] = 1 PROVE landed'[p][k] = 1
    BY <2>a, <2>2 DEF Landing, LandingStage
  <2>3. ASSUME NEW d \in Drafts PROVE VersionMoves(d)
    <3>1. CASE s \in Creating /\ d = o
      <4>1. version'[o] = 1 /\ landed[o][1] = 0 /\ landed'[o][1] = 1 /\ o \in Operations
        BY <2>a, <3>1, PendingTypes DEF Landing, LandingStage, Inv
      <4>2. QED
        BY <3>1, <4>1 DEF VersionMoves
    <3>2. CASE Reads(s) /\ d = r
      BY <2>a, <3>2 DEF Landing, LandingDraft, VersionMoves
    <3>3. CASE ~(s \in Creating /\ d = o) /\ ~(Reads(s) /\ d = r)
      BY <2>a, <3>3 DEF Landing, LandingDraft, VersionMoves
    <3>4. QED
      BY <3>1, <3>2, <3>3
  <2>4. QED
    BY <2>2, <2>3
<1>2. CASE \E e \in Drafts : Edit(e)
  BY <1>2 DEF Edit, VersionMoves, Inv, TypeOK
<1>3. CASE UNCHANGED <<version, content, landed>>
  BY <1>3 DEF VersionMoves
<1>4. (\E o \in Operations : Request(o) \/ Work(o)) => UNCHANGED <<version, content, landed>>
  <2>1. ASSUME NEW o \in Operations, Request(o) \/ Work(o) PROVE UNCHANGED <<version, content, landed>>
    <3>1. CASE Dispatch(o)
      BY <3>1 DEF Dispatch
    <3>2. CASE ~Dispatch(o)
      BY <2>1, <3>2, Turns DEF Turn, Step
    <3>3. QED
      BY <3>1, <3>2
  <2>2. QED
    BY <2>1
<1>5. QED
  <2>1. (\E i \in 1 .. Len(wire) : Refuse(i)) \/ Close \/ Restart \/ Hold \/ Connect \/ UNCHANGED vars
          => UNCHANGED <<version, content, landed>>
    BY DEF Refuse, Close, Restart, Hold, Connect, vars, provider
  <2>2. QED
    BY <1>1, <1>2, <1>3, <1>4, <2>1 DEF Next

\* A version is of a draft that was made, and so is what a record or a function keeps.
MadeInv ==
  /\ \A d \in Drafts : version[d] > 0 => Made(d)
  /\ \A o \in Operations :
       /\ head[o].draft # None => Made(head[o].draft)
       /\ job[o].draft # None => Made(job[o].draft)

\* A turn of one operation leaves the records and functions of the others.
LEMMA OnlyMine ==
  ASSUME Inv, NEW p \in Operations, Request(p) \/ Work(p), NEW o \in Operations, o # p
  PROVE  head'[o] = head[o] /\ job'[o] = job[o]
<1>1. CASE Dispatch(p)
  <2>1. head' = [head EXCEPT ![p] = [head[p] EXCEPT !.attempted = TRUE]] /\ job' = [job EXCEPT ![p].pc = "call"]
    BY <1>1 DEF Dispatch, Become, Go
  <2>2. QED
    BY <2>1 DEF Inv, TypeOK
<1>2. CASE ~Dispatch(p)
  <2>1. PICK h, j : Step(p, h, j)
    BY <1>2, Turns DEF Turn
  <2>2. QED
    BY <2>1, StepTypes
<1>3. QED
  BY <1>1, <1>2

\* What the answer to a request makes of a record.
LEMMA AnsweredFields ==
  ASSUME Inv, NEW o \in Operations, Answered(o)
  PROVE  /\ job[o].pc = "call" /\ head[o].done + 1 \in 1 .. Len(PlanOf[head[o].kind])
         /\ head[o].done + 1 \in 1 .. MaxStages
         /\ Stage(o) = PlanOf[head[o].kind][head[o].done + 1] /\ landed[o][head[o].done + 1] = 1
         /\ head'[o].done = head[o].done + 1 /\ head'[o].key = job[o].tag
         /\ head'[o].draft = IF Stage(o) \in Creating THEN o ELSE head[o].draft
         /\ Stage(o) \in Creating => head[o].done = 0
         /\ head[o].state = "running" /\ head'[o].state = "running" /\ head'[o].attempted = FALSE
         /\ job'[o].pc \in {"reading", "finish"} /\ job'[o].tag = job[o].tag /\ job'[o].draft = job[o].draft
         /\ owner' = Remembered(o, head'[o].draft)
         /\ ~InWire(o)
<1> DEFINE d == IF Stage(o) \in Creating THEN o ELSE head[o].draft
           pc == IF head[o].done + 1 < Len(Stages(o)) THEN "reading" ELSE "finish"
<1>1. Right(PlanOf, o, head[o], job[o]) /\ head[o] \in Record /\ job[o] \in Job /\ head[o].done \in Nat
      /\ head[o].kind \in AllKinds
  BY Known
<1>2. /\ job[o].pc = "call" /\ landed[o][head[o].done + 1] > 0
      /\ head' = [head EXCEPT ![o] = [head[o] EXCEPT !.attempted = FALSE, !.done = @ + 1, !.draft = d, !.key = job[o].tag]]
      /\ job' = [job EXCEPT ![o] = [job[o] EXCEPT !.pc = pc]]
      /\ owner' = Remembered(o, d)
  BY DEF Answered, Become, Go, Inv, TypeOK, Creating
<1>3. head[o].state = "running" /\ head[o].attempted /\ Left(o)
  BY <1>1, <1>2, Known DEF Right, Record, States
<1>4. /\ head[o].done + 1 \in 1 .. Len(PlanOf[head[o].kind]) /\ head[o].done + 1 \in 1 .. MaxStages
      /\ Stage(o) = PlanOf[head[o].kind][head[o].done + 1]
  BY <1>1, <1>3, Known
<1>5. landed[o][head[o].done + 1] = 1
  BY <1>2, <1>4, Known DEF Covered
<1>6. Stage(o) \in Creating => head[o].done + 1 = 1
  BY <1>1, <1>4, PlanFacts DEF Planned
<1>7. Stage(o) \in Creating => head[o].done = 0
  BY <1>1, <1>6
<1> HIDE DEF d, pc
<1>8. /\ head'[o].done = head[o].done + 1 /\ head'[o].key = job[o].tag /\ head'[o].draft = d
      /\ head'[o].state = head[o].state /\ head'[o].attempted = FALSE
  BY <1>1, <1>2 DEF Inv, TypeOK, Record
<1>9. job'[o].pc = pc /\ job'[o].tag = job[o].tag /\ job'[o].draft = job[o].draft
  BY <1>1, <1>2 DEF Inv, TypeOK, Job
<1>10. pc \in {"reading", "finish"}
  BY DEF pc
<1> QED
  BY <1>2, <1>3, <1>4, <1>5, <1>7, <1>8, <1>9, <1>10, LandedIsOver DEF d

\* What evidence makes of a record.
LEMMA FoundFields ==
  ASSUME Inv, NEW o \in Operations, Found(o)
  PROVE  /\ job[o].pc = "checking" /\ job'[o] = Idle /\ head'[o].attempted = FALSE
         /\ head[o].state \in {"uncertain", "interrupted"} /\ ~closed /\ connected
         /\ \/ /\ FileFound(o) /\ head[o].attempted /\ Stage(o) = "update-file" /\ owner' = owner
               /\ head'[o].done = head[o].done + 1 /\ head'[o].key = version[head[o].draft]
               /\ head'[o].draft = head[o].draft /\ head'[o].state = "interrupted"
            \/ /\ DraftFound(o) /\ owner' = Remembered(o, SavedAs(o))
               /\ head'[o].done = Saves(PlanOf, head[o].kind) /\ head'[o].key = version[SavedAs(o)]
               /\ head'[o].draft = SavedAs(o) /\ head'[o].state \in {"interrupted", "saved"}
            \/ /\ SendFound(o) /\ owner' = Remembered(o, head[o].draft)
               /\ head'[o].done = Len(PlanOf[head[o].kind]) /\ head'[o].key = head[o].key
               /\ head'[o].draft = head[o].draft /\ head'[o].state = "accepted"
<1>1. Right(PlanOf, o, head[o], job[o]) /\ head[o] \in Record /\ head[o].kind \in AllKinds
      /\ Stages(o) = PlanOf[head[o].kind]
  BY Known
<1>2. job[o].pc = "checking" /\ job'[o] = Idle /\ ~closed /\ connected
  BY DEF Found, End, Inv, TypeOK
<1>3. head[o].state \in {"uncertain", "interrupted"}
  BY <1>1, <1>2 DEF Right, Record, States
<1>4. ASSUME FileFound(o)
      PROVE  /\ head[o].attempted /\ Stage(o) = "update-file" /\ owner' = owner
             /\ head'[o].done = head[o].done + 1 /\ head'[o].key = version[head[o].draft]
             /\ head'[o].draft = head[o].draft /\ head'[o].state = "interrupted" /\ head'[o].attempted = FALSE
  <2>1. /\ head[o].attempted /\ Stage(o) = "update-file" /\ owner' = owner
        /\ version[head[o].draft] = head[o].key + 1
        /\ head' = [head EXCEPT ![o] = [head[o] EXCEPT !.state = "interrupted", !.attempted = FALSE,
                               !.done = @ + 1, !.key = @ + 1]]
    BY <1>4 DEF FileFound, Become
  <2>2. QED
    BY <1>1, <2>1 DEF Inv, TypeOK, Record
<1>5. ASSUME DraftFound(o)
      PROVE  /\ owner' = Remembered(o, SavedAs(o))
             /\ head'[o].done = Saves(PlanOf, head[o].kind) /\ head'[o].key = version[SavedAs(o)]
             /\ head'[o].draft = SavedAs(o) /\ head'[o].state \in {"interrupted", "saved"} /\ head'[o].attempted = FALSE
  <2>1. /\ owner' = Remembered(o, SavedAs(o))
        /\ head' = [head EXCEPT ![o] = [head[o] EXCEPT !.attempted = FALSE, !.done = Cardinality(Saving(o)),
                     !.draft = SavedAs(o), !.key = version[SavedAs(o)],
                     !.state = IF head[o].kind \in Sends THEN "interrupted" ELSE "saved"]]
    BY <1>5 DEF DraftFound, Become
  <2>2. Cardinality(Saving(o)) = Saves(PlanOf, head[o].kind)
    BY SavingStages
  <2>3. QED
    BY <1>1, <2>1, <2>2 DEF Inv, TypeOK, Record
<1>6. ASSUME SendFound(o)
      PROVE  /\ owner' = Remembered(o, head[o].draft)
             /\ head'[o].done = Len(PlanOf[head[o].kind]) /\ head'[o].key = head[o].key
             /\ head'[o].draft = head[o].draft /\ head'[o].state = "accepted" /\ head'[o].attempted = FALSE
  <2>1. /\ owner' = Remembered(o, head[o].draft)
        /\ head' = [head EXCEPT ![o] = [head[o] EXCEPT !.attempted = FALSE, !.done = Len(Stages(o)), !.state = "accepted"]]
    BY <1>6 DEF SendFound, Become
  <2>2. QED
    BY <1>1, <2>1 DEF Inv, TypeOK, Record
<1> QED
  BY <1>2, <1>3, <1>4, <1>5, <1>6 DEF Found

\* Every other turn keeps the record's stages, its draft but for an opened one,
\* and its version but for a review.
LEMMA OtherFields ==
  ASSUME Inv, NEW o \in Operations, Request(o) \/ Work(o),
         ~Prepare(o), ~PrepareNext(o), ~Dispatch(o), ~Answered(o), ~Found(o)
  PROVE  /\ head'[o].done = head[o].done
         /\ head'[o].draft = head[o].draft
            \/ (head[o].kind = "open" /\ head[o].state = "preparing" /\ Opened(o)
                /\ job[o].draft \in Drafts /\ head'[o].draft = job[o].draft)
         /\ head'[o].key = head[o].key
            \/ (head[o].state = "preparing" /\ head'[o].key = job[o].tag)
         /\ job'[o].pc = "call" => job[o].pc = "call" /\ job' = job
         /\ \/ job'[o].draft \in {None, job[o].draft} /\ job'[o].tag \in {0, job[o].tag}
            \/ ReadDraft(o) /\ job'[o].draft \in Drafts /\ version[job'[o].draft] > 0
               /\ job'[o].tag = version[job'[o].draft]
               /\ (head[o].kind # "open" => job'[o].draft = head[o].draft)
            \/ Read(o) /\ job'[o].draft = job[o].draft
               /\ job'[o].tag = (IF Reads(Stage(o)) THEN version[head[o].draft] ELSE 0)
<1>1. Right(PlanOf, o, head[o], job[o]) /\ head[o] \in Record /\ job[o] \in Job
  BY Known
<1>2. Idle.draft = None /\ Idle.tag = 0 /\ Idle.pc = "idle"
  BY DEF Idle
<1>3. head \in [Operations -> Record] /\ job \in [Operations -> Job]
  BY DEF Inv, TypeOK
<1>4. CASE ReadDraft(o)
  <2>1. PICK d \in IF head[o].kind = "open" THEN Drafts ELSE {head[o].draft} :
          /\ d # None => version[d] > 0
          /\ job' = [job EXCEPT ![o] = IF d = None THEN [Idle EXCEPT !.pc = "ready"]
               ELSE [pc |-> "ready", draft |-> d, tag |-> version[d], marker |-> marker[d]]]
    BY <1>4 DEF ReadDraft
  <2>2. head' = head /\ d \in Drafts \cup {None}
    BY <1>4, <2>1, Fields DEF ReadDraft
  <2>3. CASE d = None
    <3>1. job'[o] = [Idle EXCEPT !.pc = "ready"]
      BY <1>3, <2>1, <2>3
    <3>2. job'[o].draft = None /\ job'[o].tag = 0 /\ job'[o].pc = "ready"
      BY <3>1 DEF Idle
    <3>3. QED
      BY <2>2, <3>2
  <2>4. CASE d # None
    <3>1. job'[o] = [pc |-> "ready", draft |-> d, tag |-> version[d], marker |-> marker[d]]
      BY <1>3, <2>1, <2>4
    <3>2. job'[o].draft = d /\ job'[o].tag = version[d] /\ job'[o].pc = "ready"
      BY <3>1
    <3>3. QED
      BY <1>4, <2>1, <2>2, <2>4, <3>2
  <2>5. QED
    BY <2>3, <2>4
<1>5. CASE Opened(o)
  <2>1. /\ head[o].state = "preparing" /\ head[o].kind = "open" /\ job[o].pc = "ready" /\ job'[o] = Idle
        /\ head'[o] = [head[o] EXCEPT !.state = "saved", !.draft = job[o].draft, !.key = job[o].tag]
    BY <1>3, <1>5 DEF Opened, Become, End
  <2>2. head'[o].done = head[o].done /\ head'[o].draft = job[o].draft /\ head'[o].key = job[o].tag
    BY <1>1, <2>1 DEF Record
  <2>3. job[o].draft \in Drafts
    BY <1>1, <2>1 DEF Right, Job
  <2>4. QED
    BY <1>2, <1>5, <2>1, <2>2, <2>3
<1>6. CASE Prepared(o)
  <2>1. /\ head[o].state = "preparing" /\ job'[o] = Idle
        /\ head'[o] = [head[o] EXCEPT !.state = "prepared", !.key = job[o].tag]
    BY <1>3, <1>6 DEF Prepared, Become, End
  <2>2. head'[o].done = head[o].done /\ head'[o].draft = head[o].draft /\ head'[o].key = job[o].tag
    BY <1>1, <2>1 DEF Record
  <2>3. QED
    BY <1>2, <2>1, <2>2
<1>7. CASE Read(o)
  <2>1. /\ head' = head
        /\ job'[o] = [job[o] EXCEPT !.pc = "ready", !.tag = IF Reads(Stage(o)) THEN version[head[o].draft] ELSE 0]
    BY <1>3, <1>7 DEF Read
  <2>2. /\ job'[o].draft = job[o].draft /\ job'[o].pc = "ready"
        /\ job'[o].tag = IF Reads(Stage(o)) THEN version[head[o].draft] ELSE 0
    BY <1>1, <2>1 DEF Job
  <2>3. QED
    BY <1>7, <2>1, <2>2
<1>8. CASE Cancel(o)
  <2>1. head'[o] = [head[o] EXCEPT !.state = "cancelled"] /\ job' = job
    BY <1>3, <1>8 DEF Cancel, Become, service
  <2>2. head'[o].done = head[o].done /\ head'[o].draft = head[o].draft /\ head'[o].key = head[o].key
    BY <1>1, <2>1 DEF Record
  <2>3. QED
    BY <2>1, <2>2
<1>9. CASE Confirm(o)
  <2>1. head'[o] = [head[o] EXCEPT !.state = "running"] /\ job'[o] = [job[o] EXCEPT !.pc = "reading"]
    BY <1>3, <1>9 DEF Confirm, Become, Go
  <2>2. head'[o].done = head[o].done /\ head'[o].draft = head[o].draft /\ head'[o].key = head[o].key
    BY <1>1, <2>1 DEF Record
  <2>3. job'[o].pc = "reading" /\ job'[o].draft = job[o].draft /\ job'[o].tag = job[o].tag
    BY <1>1, <2>1 DEF Job
  <2>4. QED
    BY <2>2, <2>3
<1>10. CASE Check(o)
  <2>1. head' = head /\ job'[o] = [job[o] EXCEPT !.pc = "checking"]
    BY <1>3, <1>10 DEF Check, Go
  <2>2. job'[o].pc = "checking" /\ job'[o].draft = job[o].draft /\ job'[o].tag = job[o].tag
    BY <1>1, <2>1 DEF Job
  <2>3. QED
    BY <2>1, <2>2
<1>11. CASE NotPrepared(o) \/ Finish(o) \/ Fail(o) \/ NotFound(o)
  <2>1. job'[o] = Idle
    BY <1>3, <1>11 DEF NotPrepared, Finish, Fail, NotFound, End
  <2>2. \/ head' = head
        \/ \E s : head'[o] = [head[o] EXCEPT !.state = s]
        \/ \E s : head'[o] = [head[o] EXCEPT !.state = s, !.attempted = FALSE]
    BY <1>3, <1>11 DEF NotPrepared, Finish, Fail, NotFound, Become
  <2>3. head'[o].done = head[o].done /\ head'[o].draft = head[o].draft /\ head'[o].key = head[o].key
    BY <1>1, <2>2 DEF Record
  <2>4. QED
    BY <1>2, <2>1, <2>3
<1>12. QED
  BY <1>4, <1>5, <1>6, <1>7, <1>8, <1>9, <1>10, <1>11 DEF Request, Work

\* The function that prepares a record begins with it.
LEMMA BornJob ==
  ASSUME Inv, NEW o \in Operations, Prepare(o) \/ PrepareNext(o)
  PROVE  /\ job[o] = Idle /\ head[o].state = "none" /\ job'[o].draft = None /\ job'[o].tag = 0
         /\ job'[o].pc = "reading" /\ head'[o].done = 0 /\ head'[o].attempted = FALSE /\ head'[o].key = 0
<1>1. head[o] = NoHead
  BY DEF Prepare, PrepareNext
<1>2. head[o].state = "none" /\ job[o].pc = "idle" /\ job[o] = Idle
  BY <1>1, Known, NoHeadFields DEF Right
<1>3. job' = [job EXCEPT ![o].pc = "reading"] /\ job \in [Operations -> Job]
  BY DEF Prepare, PrepareNext, Go, Inv, TypeOK
<1>4. job'[o] = [Idle EXCEPT !.pc = "reading"]
  BY <1>2, <1>3
<1>5. job'[o].draft = None /\ job'[o].tag = 0 /\ job'[o].pc = "reading"
  BY <1>4 DEF Idle
<1>6. head'[o].done = 0 /\ head'[o].attempted = FALSE /\ head'[o].key = 0
  <2>1. CASE Prepare(o)
    <3>1. PICK k, w : head' = [head EXCEPT ![o] = [NoHead EXCEPT !.state = "preparing", !.kind = k, !.writer = w]]
      BY <2>1 DEF Prepare, Become
    <3>2. QED
      BY <3>1 DEF Inv, TypeOK, NoHead
  <2>2. CASE PrepareNext(o)
    <3>1. PICK k \in Following, p \in Operations :
             head' = [head EXCEPT ![o] = [NoHead EXCEPT !.state = "preparing", !.kind = k, !.previous = p,
                       !.writer = head[p].writer, !.draft = head[p].draft]]
      BY <2>2 DEF PrepareNext, Become
    <3>2. QED
      BY <3>1 DEF Inv, TypeOK, NoHead
  <2>3. QED
    BY <2>1, <2>2
<1> QED
  BY <1>2, <1>5, <1>6

\* The steps of the world and of the service keep what the records and functions hold.
LEMMA WorldFields ==
  ASSUME Inv, [Next]_vars, ~(\E p \in Operations : Request(p) \/ Work(p)), NEW o \in Operations
  PROVE  /\ head'[o].draft = head[o].draft /\ head'[o].done = head[o].done /\ head'[o].key = head[o].key
         /\ head'[o].attempted = head[o].attempted /\ head'[o].kind = head[o].kind
         /\ head'[o].previous = head[o].previous /\ owner' = owner
         /\ job'[o].draft \in {None, job[o].draft}
         /\ job'[o].pc = "call" => job[o].pc = "call"
         /\ \/ job'[o].tag \in {0, job[o].tag}
            \/ \E c \in Pending : \E s, d : c.op = o /\ Landing(c, o, s, d)
<1>1. Idle.draft = None /\ Idle.tag = 0 /\ Idle.pc = "idle" /\ job \in [Operations -> Job] /\ job[o] \in Job
  BY DEF Idle, Inv, TypeOK
<1>2. CASE \E i \in 1 .. Len(wire) : Land(i)
  <2>1. PICK i \in 1 .. Len(wire) : Land(i)
    BY <1>2
  <2>2. PICK c, p, s, d : c \in Pending /\ c = wire[i] /\ Landing(c, p, s, d)
    <3>1. \E c \in Pending : \E p, s, d : c = wire[i] /\ Landing(c, p, s, d)
      BY <2>1, LandIs
    <3>2. QED
      BY <3>1
  <2>3. head' = head /\ owner' = owner
    BY <2>2 DEF Landing, LandingStage
  <2>4. /\ job'[o].draft = job[o].draft /\ job'[o].pc = job[o].pc
    BY <1>1, <2>1 DEF Land, Job
  <2>5. job'[o].tag = job[o].tag \/ p = o
    BY <2>2 DEF Landing, LandingStage
  <2>6. QED
    BY <2>2, <2>3, <2>4, <2>5 DEF Landing
<1>3. CASE \E i \in 1 .. Len(wire) : Refuse(i)
  <2>1. PICK i \in 1 .. Len(wire) : Refuse(i)
    BY <1>3
  <2>2. head' = head /\ owner' = owner
    BY <2>1 DEF Refuse
  <2>3. job' = job \/ job' = [job EXCEPT ![wire[i].op].pc = "refused"]
    BY <2>1 DEF Refuse
  <2>4. job'[o].draft = job[o].draft /\ job'[o].pc \in {job[o].pc, "refused"} /\ job'[o].tag = job[o].tag
    BY <1>1, <2>3 DEF Job
  <2>5. QED
    BY <2>2, <2>4
<1>4. CASE Restart
  <2>1. head'[o] = Recovered(head[o]) /\ owner' = owner /\ job'[o] = Idle /\ head[o] \in Record
    BY <1>4, Known DEF Restart
  <2>2. /\ head'[o].draft = head[o].draft /\ head'[o].done = head[o].done /\ head'[o].key = head[o].key
        /\ head'[o].attempted = head[o].attempted /\ head'[o].kind = head[o].kind
        /\ head'[o].previous = head[o].previous
    BY <2>1 DEF Recovered, Record
  <2>3. QED
    BY <1>1, <2>1, <2>2
<1>5. CASE (\E d \in Drafts : Edit(d)) \/ Close \/ Hold \/ Connect \/ UNCHANGED vars
  <2>1. UNCHANGED <<head, owner, job>>
    BY <1>5 DEF Edit, Close, Hold, Connect, vars, service
  <2>2. QED
    BY <2>1
<1>6. QED
  BY <1>2, <1>3, <1>4, <1>5 DEF Next

\* Every step keeps it.
LEMMA MadeNext == ASSUME Inv, MadeInv, [Next]_vars PROVE MadeInv'
<1>1. \A d : Made(d) => (d \in Operations => landed'[d][1] = 1)
  <2>1. 1 \in 1 .. MaxStages
    BY DEF MaxStages
  <2>2. QED
    BY <2>1, AnyVersionMoves DEF Made
<1>2. ASSUME NEW d \in Drafts, version'[d] > 0 PROVE d \in Operations => landed'[d][1] = 1
  <2>1. VersionMoves(d)
    BY AnyVersionMoves
  <2>2. CASE version[d] > 0
    BY <1>1, <2>2 DEF MadeInv
  <2>3. CASE ~(version[d] > 0)
    BY <1>2, <2>1, <2>3 DEF VersionMoves, Made
  <2>4. QED
    BY <2>2, <2>3
<1>3. ASSUME NEW o \in Operations
      PROVE  /\ head'[o].draft # None => Made(head'[o].draft)
             /\ job'[o].draft # None => Made(job'[o].draft)
  <2>1. /\ head[o].draft # None => Made(head[o].draft)
        /\ job[o].draft # None => Made(job[o].draft)
    BY DEF MadeInv
  <2>2. CASE \E p \in Operations : Request(p) \/ Work(p)
    <3>1. PICK p \in Operations : Request(p) \/ Work(p)
      BY <2>2
    <3>2. CASE p # o
      BY <2>1, <3>1, <3>2, OnlyMine
    <3>3. CASE p = o /\ Prepare(o)
      BY <3>3, BornFields, BornJob
    <3>4. CASE p = o /\ PrepareNext(o)
      <4>1. PICK q \in Operations : head'[o].draft = head[q].draft
        BY <3>4, BornFields
      <4>2. QED
        BY <3>4, <4>1, BornJob DEF MadeInv
    <3>5. CASE p = o /\ Dispatch(o)
      <4>1. /\ head' = [head EXCEPT ![o] = [head[o] EXCEPT !.attempted = TRUE]]
            /\ job' = [job EXCEPT ![o].pc = "call"]
        BY <3>5 DEF Dispatch, Become, Go
      <4>2. head'[o].draft = head[o].draft /\ job'[o].draft = job[o].draft
        BY <4>1, Known DEF Inv, TypeOK, Record, Job
      <4>3. QED
        BY <2>1, <4>2
    <3>6. CASE p = o /\ Answered(o)
      <4>a. landed[o][head[o].done + 1] = 1 /\ (Stage(o) \in Creating => head[o].done = 0)
        BY <3>6, AnsweredFields
      <4>1. Stage(o) \in Creating => landed[o][1] = 1
        BY <4>a
      <4>2. QED
        BY <2>1, <3>6, <4>1, AnsweredFields DEF Made
    <3>7. CASE p = o /\ Found(o)
      <4>a. job'[o] = Idle /\ Idle.draft = None
        BY <3>7, FoundFields DEF Idle
      <4>1. job'[o].draft = None
        BY <4>a
      <4>2. head'[o].draft = head[o].draft \/ (DraftFound(o) /\ head'[o].draft = SavedAs(o))
        BY <3>7, FoundFields
      <4>3. DraftFound(o) => version[SavedAs(o)] > 0 /\ SavedAs(o) \in Drafts
        BY Fields DEF DraftFound, DraftShown, SavedAs, Drafts
      <4>4. QED
        BY <2>1, <4>1, <4>2, <4>3 DEF MadeInv
    <3>8. CASE p = o /\ ~Prepare(o) /\ ~PrepareNext(o) /\ ~Dispatch(o) /\ ~Answered(o) /\ ~Found(o)
      <4>1. head'[o].draft \in {head[o].draft, job[o].draft} \/ head'[o].draft = head[o].draft
        BY <3>1, <3>8, OtherFields
      <4>2. \/ job'[o].draft \in {None, job[o].draft}
            \/ job'[o].draft \in Drafts /\ version[job'[o].draft] > 0
        BY <3>1, <3>8, OtherFields
      <4>3. head'[o].draft # None => Made(head'[o].draft)
        BY <2>1, <4>1
      <4>4. job'[o].draft # None => Made(job'[o].draft)
        BY <2>1, <4>2 DEF MadeInv
      <4>5. QED
        BY <4>3, <4>4
    <3>9. QED
      BY <3>1, <3>2, <3>3, <3>4, <3>5, <3>6, <3>7, <3>8
  <2>3. CASE ~(\E p \in Operations : Request(p) \/ Work(p))
    BY <2>1, <2>3, WorldFields
  <2>4. QED
    BY <2>2, <2>3
<1>4. ASSUME NEW o \in Operations
      PROVE  /\ head'[o].draft # None => (head'[o].draft \in Operations => landed'[head'[o].draft][1] = 1)
             /\ job'[o].draft # None => (job'[o].draft \in Operations => landed'[job'[o].draft][1] = 1)
  BY <1>1, <1>3
<1>5. QED
  BY <1>2, <1>4 DEF MadeInv, Made

-----------------------------------------------------------------------------
(* What is sent is what was reviewed.                                      *)

Posting == {"post", "post-files"}

\* The plan of an operation that posts a draft: on Outlook its last save
\* updates the draft.
LEMMA PostPlan ==
  ASSUME NEW k \in Posting
  PROVE  /\ k \in AllKinds /\ k \in Following /\ k \in Sends
         /\ Len(PlanOf[k]) \in 1 .. MaxStages /\ Saves(PlanOf, k) = Len(PlanOf[k]) - 1
         /\ PlanOf[k][Len(PlanOf[k])] = "send-draft"
         /\ ~Gmail => Saves(PlanOf, k) > 0 /\ PlanOf[k][Saves(PlanOf, k)] = "update-draft"
<1>1. PlanOf[k] = Plan(k) /\ k \in Sends /\ k \in Following /\ k \in AllKinds
  BY DEF Posting, PlanOf, AllKinds, Kinds, Following, Sends
<1>2. CASE k = "post" /\ Gmail
  <2>1. PlanOf[k] = <<"send-draft">>
    BY <1>1, <1>2 DEF Plan
  <2>2. Len(PlanOf[k]) = 1 /\ PlanOf[k][1] = "send-draft"
    BY <2>1
  <2>3. Saves(PlanOf, k) = 0 /\ Len(PlanOf[k]) \in 1 .. MaxStages
    BY <1>1, <2>2 DEF Saves, MaxStages
  <2>4. QED
    BY <1>1, <1>2, <2>2, <2>3
<1>3. CASE k = "post" /\ ~Gmail
  <2>1. PlanOf[k] = <<"update-draft", "send-draft">>
    BY <1>1, <1>3 DEF Plan
  <2>2. Len(PlanOf[k]) = 2 /\ PlanOf[k][2] = "send-draft" /\ PlanOf[k][1] = "update-draft"
    BY <2>1
  <2>3. Saves(PlanOf, k) = 1 /\ Len(PlanOf[k]) \in 1 .. MaxStages
    BY <1>1, <2>2 DEF Saves, MaxStages
  <2>4. PICK m : m = Saves(PlanOf, k)
    OBVIOUS
  <2>5. m > 0 /\ PlanOf[k][m] = "update-draft" /\ m = Len(PlanOf[k]) - 1
    BY <2>2, <2>3, <2>4
  <2>6. PICK n : n = Len(PlanOf[k])
    OBVIOUS
  <2>7. n \in 1 .. MaxStages /\ m = n - 1 /\ PlanOf[k][n] = "send-draft"
    BY <2>2, <2>3, <2>4, <2>6
  <2>8. QED
    BY <1>1, <2>4, <2>5, <2>6, <2>7
<1>4. CASE k = "post-files"
  <2>1. PlanOf[k] = <<"update-file", "update-draft", "send-draft">>
    BY <1>1, <1>4 DEF Plan
  <2>2. Len(PlanOf[k]) = 3 /\ PlanOf[k][3] = "send-draft" /\ PlanOf[k][2] = "update-draft"
    BY <2>1
  <2>3. Saves(PlanOf, k) = 2 /\ Len(PlanOf[k]) \in 1 .. MaxStages
    BY <1>1, <2>2 DEF Saves, MaxStages
  <2>4. PICK m : m = Saves(PlanOf, k)
    OBVIOUS
  <2>5. m > 0 /\ PlanOf[k][m] = "update-draft" /\ m = Len(PlanOf[k]) - 1
    BY <2>2, <2>3, <2>4
  <2>6. PICK n : n = Len(PlanOf[k])
    OBVIOUS
  <2>7. n \in 1 .. MaxStages /\ m = n - 1 /\ PlanOf[k][n] = "send-draft"
    BY <2>2, <2>3, <2>4, <2>6
  <2>8. QED
    BY <1>1, <2>4, <2>5, <2>6, <2>7
<1>5. QED
  BY <1>2, <1>3, <1>4 DEF Posting

\* A version retained or read is not newer than the draft.
Newest(o) ==
  LET d == head[o].draft IN
  head[o].kind \in Following /\ version[d] > 0 => head[o].key <= version[d] /\ job[o].tag <= version[d]

\* A draft is gone once sent.
Gone(o) ==
  head[o].kind \in Posting /\ landed[o][Len(PlanOf[head[o].kind])] = 1 => version[head[o].draft] = 0

\* The version retained for the message to be sent, or answered by the change
\* before, is the one this operation wrote.
Reviewed(o) ==
  LET d == head[o].draft
      n == Saves(PlanOf, head[o].kind) IN
  head[o].kind \in Posting /\ ~Gmail /\ version[d] > 0 =>
    /\ head[o].done >= n /\ version[d] = head[o].key => content[d] = o
    /\ job[o].pc = "call" /\ head[o].done + 1 = n /\ landed[o][n] = 1 /\ version[d] = job[o].tag
         => content[d] = o

VersionInv ==
  /\ MadeInv /\ ReviewedIsSent
  /\ \A o \in Operations : Newest(o) /\ Gone(o) /\ Reviewed(o)

\* An operation that follows a draft keeps its kind and its draft.
LEMMA KindStays ==
  ASSUME Inv, [Next]_vars, NEW o \in Operations, head[o].kind \in Following
  PROVE  /\ head[o].state # "none" /\ head'[o].kind = head[o].kind
         /\ head[o].draft \in Drafts /\ head'[o].draft = head[o].draft
<1>1. head[o].state # "none"
  BY Begun, NoHeadFields DEF Following, None
<1>2. head[o].draft # None /\ head[o].draft \in Drafts
  BY Known, Fields DEF Right
<1>3. QED
  BY <1>1, <1>2, HeadMoves DEF Grows

\* The scenario is chosen once.
LEMMA ScenarioStays == [Next]_vars => scenario' = scenario /\ PlanOf' = PlanOf /\ (Gmail' <=> Gmail)
<1>1. [Next]_vars => scenario' = scenario
  BY DEF Next, Request, Work, Prepare, PrepareNext, Confirm, Cancel, Check, ReadDraft, Prepared,
         Opened, NotPrepared, Read, Dispatch, Answered, Finish, Fail, Found, NotFound, Land, Refuse,
         Edit, Close, Restart, Hold, Connect, vars, world
<1>2. QED
  BY <1>1, PlanStays DEF Gmail

\* Nothing takes place but by Land.
LEMMA Unlanded ==
  ASSUME Inv, [Next]_vars, ~(\E i \in 1 .. Len(wire) : Land(i))
  PROVE  landed' = landed /\ sent' = sent
<1>1. ASSUME NEW o \in Operations, Request(o) \/ Work(o) PROVE landed' = landed /\ sent' = sent
  <2>1. CASE Dispatch(o)
    BY <2>1 DEF Dispatch
  <2>2. CASE ~Dispatch(o)
    BY <1>1, <2>2, Turns DEF Turn, Step
  <2>3. QED
    BY <2>1, <2>2
<1>2. QED
  BY <1>1 DEF Next, Refuse, Edit, Close, Restart, Hold, Connect, vars, provider

\* A stage takes place, and something is sent, by a request that lands.
LEMMA LandedBy ==
  ASSUME Inv, [Next]_vars, NEW o \in Operations
  PROVE  /\ \A k \in 1 .. MaxStages : landed[o][k] = 0 /\ landed'[o][k] = 1 =>
              \E c, s, d : c \in Pending /\ c.op = o /\ c.stage = k /\ Landing(c, o, s, d)
         /\ sent'[o] # sent[o] => \E c, s, d : c \in Pending /\ c.op = o /\ Landing(c, o, s, d)
<1>1. CASE \E i \in 1 .. Len(wire) : Land(i)
  <2>1. PICK c, p, s, d : c \in Pending /\ Landing(c, p, s, d)
    <3>1. \E c \in Pending : \E p, s, d : Landing(c, p, s, d)
      BY <1>1, LandIs
    <3>2. QED
      BY <3>1
  <2>2. p = c.op
    BY <2>1 DEF Landing
  <2>3. \A k \in 1 .. MaxStages : landed[o][k] = 0 /\ landed'[o][k] = 1 => p = o /\ c.stage = k
    BY <2>1 DEF Landing, LandingStage
  <2>4. sent'[o] # sent[o] => p = o
    BY <2>1 DEF Landing, LandingStage
  <2>5. QED
    BY <2>1, <2>2, <2>3, <2>4
<1>2. CASE ~(\E i \in 1 .. Len(wire) : Land(i))
  BY <1>2, Unlanded
<1>3. QED
  BY <1>1, <1>2

\* Where a record's version and what its function read come from.
LEMMA KeyMoves ==
  ASSUME Inv, [Next]_vars, NEW o \in Operations, head[o].kind \in Following
  PROVE  LET d == head[o].draft
             n == Saves(PlanOf, head[o].kind) IN
         /\ \/ head'[o].key = head[o].key /\ head'[o].done = head[o].done
            \/ head'[o].key = job[o].tag /\ head[o].done = 0 /\ head'[o].done = 0
            \/ /\ head'[o].key = job[o].tag /\ job[o].pc = "call" /\ head'[o].done = head[o].done + 1
               /\ landed[o][head[o].done + 1] = 1 /\ head[o].done + 1 <= Len(PlanOf[head[o].kind])
            \/ /\ head'[o].key = version[d] /\ head'[o].done = head[o].done + 1
               /\ head[o].attempted /\ Stage(o) = "update-file"
            \/ head'[o].key = version[d] /\ DraftFound(o)
            \/ head'[o].key = head[o].key /\ sent[o] = o
         /\ \/ job'[o].tag \in {0, job[o].tag, version[d]}
               /\ (job'[o].pc = "call" => \/ job'[o].tag \in {0, job[o].tag} /\ job[o].pc = "call"
                                          \/ landed'[o][head'[o].done + 1] = 0)
            \/ \E c, s : c \in Pending /\ c.op = o /\ Landing(c, o, s, d) /\ head' = head
<1> DEFINE d == head[o].draft
<1>1. Right(PlanOf, o, head[o], job[o]) /\ head[o].done \in Nat /\ Covered(o)
  BY Known
<1>2. CASE \E p \in Operations : Request(p) \/ Work(p)
  <2>1. PICK p \in Operations : Request(p) \/ Work(p)
    BY <1>2
  <2>2. CASE p # o
    BY <2>1, <2>2, OnlyMine
  <2>3. CASE p = o /\ (Prepare(o) \/ PrepareNext(o))
    BY <2>3, KindStays, BornJob
  <2>4. CASE p = o /\ Dispatch(o)
    <3>1. /\ head' = [head EXCEPT ![o] = [head[o] EXCEPT !.attempted = TRUE]] /\ head[o].state = "running"
          /\ job' = [job EXCEPT ![o].pc = "call"] /\ job[o].pc = "ready" /\ landed' = landed
      BY <2>4 DEF Dispatch, Become, Go
    <3>2. head'[o].key = head[o].key /\ head'[o].done = head[o].done /\ job'[o].tag = job[o].tag
      BY <3>1, Known DEF Inv, TypeOK, Record, Job
    <3>3. landed[o][head[o].done + 1] = 0
      <4>1. ~head[o].attempted /\ Left(o)
        BY <1>1, <3>1, Known DEF Right
      <4>2. head[o].done + 1 \in 1 .. MaxStages /\ ~(head[o].done + 1 <= head[o].done)
        BY <1>1, <4>1, Known
      <4>3. QED
        BY <1>1, <4>1, <4>2 DEF Covered
    <3>4. QED
      BY <3>1, <3>2, <3>3
  <2>5. CASE p = o /\ Answered(o)
    <3>1. head[o].done + 1 <= Len(PlanOf[head[o].kind])
      <4>1. head[o].done + 1 \in 1 .. Len(PlanOf[head[o].kind])
        BY <2>5, AnsweredFields
      <4>2. Len(PlanOf[head[o].kind]) \in 0 .. MaxStages
        BY Known, PlanFacts DEF Planned
      <4>3. QED
        BY <4>1, <4>2 DEF MaxStages
    <3>2. /\ head'[o].key = job[o].tag /\ job[o].pc = "call" /\ head'[o].done = head[o].done + 1
          /\ landed[o][head[o].done + 1] = 1 /\ job'[o].tag = job[o].tag /\ job'[o].pc \in {"reading", "finish"}
      BY <2>5, AnsweredFields
    <3>3. QED
      BY <3>1, <3>2
  <2>6. CASE p = o /\ Found(o)
    <3>1. job'[o].tag = 0 /\ job'[o].pc = "idle"
      <4>1. job'[o] = Idle
        BY <2>6, FoundFields
      <4>2. QED
        BY <4>1 DEF Idle
    <3>2. d # None
      BY KindStays, MailAssumption
    <3>3. SavedAs(o) = d
      BY <3>2 DEF SavedAs
    <3>4. SendFound(o) => sent[o] = o
      BY DEF SendFound
    <3>5. \/ head'[o].key = version[d] /\ head'[o].done = head[o].done + 1 /\ head[o].attempted /\ Stage(o) = "update-file"
          \/ head'[o].key = version[d] /\ DraftFound(o)
          \/ head'[o].key = head[o].key /\ sent[o] = o
      BY <2>6, <3>3, <3>4, FoundFields
    <3>6. QED
      BY <3>1, <3>5
  <2>7. CASE p = o /\ ~Prepare(o) /\ ~PrepareNext(o) /\ ~Dispatch(o) /\ ~Answered(o) /\ ~Found(o)
    <3>1. /\ head'[o].done = head[o].done
          /\ head'[o].key = head[o].key \/ (head[o].state = "preparing" /\ head'[o].key = job[o].tag)
          /\ job'[o].pc = "call" => job[o].pc = "call" /\ job' = job
      BY <2>1, <2>7, OtherFields
    <3>2. job'[o].tag \in {0, job[o].tag, version[d]}
      <4>1. head[o].kind # "open"
        BY DEF Following
      <4>2. \/ job'[o].tag \in {0, job[o].tag}
            \/ job'[o].tag = version[job'[o].draft] /\ job'[o].draft = d
            \/ job'[o].tag = (IF Reads(Stage(o)) THEN version[d] ELSE 0)
        BY <2>1, <2>7, <4>1, OtherFields
      <4>3. QED
        BY <4>2
    <3>3. head[o].state = "preparing" => head[o].done = 0
      BY <1>1 DEF Right
    <3>4. QED
      BY <3>1, <3>2, <3>3
  <2>8. QED
    BY <2>1, <2>2, <2>3, <2>4, <2>5, <2>6, <2>7
<1>3. CASE ~(\E p \in Operations : Request(p) \/ Work(p))
  <2>1. /\ head'[o].done = head[o].done /\ head'[o].key = head[o].key
        /\ job'[o].pc = "call" => job[o].pc = "call"
    BY <1>3, WorldFields
  <2>2. job'[o].tag \in {0, job[o].tag} \/ \E c \in Pending : \E s, e : c.op = o /\ Landing(c, o, s, e)
    BY <1>3, WorldFields
  <2>3. \A c, s, e : Landing(c, o, s, e) => e = d /\ head' = head
    BY DEF Landing, LandingStage
  <2>4. QED
    BY <2>1, <2>2, <2>3
<1>4. QED
  BY <1>2, <1>3

\* A record that has just become a next version holds nothing yet.
LEMMA NewFollowing ==
  ASSUME Inv, [Next]_vars, NEW o \in Operations, head'[o].kind \in Following, head[o].kind \notin Following
  PROVE  /\ head'[o].key = 0 /\ job'[o].tag = 0 /\ job'[o].pc = "reading"
         /\ \A k \in 1 .. MaxStages : landed'[o][k] = 0
<1>1. head[o].state = "none"
  BY HeadMoves DEF Grows
<1>2. head[o] = NoHead /\ head[o].kind = None /\ head[o].done = 0 /\ head[o].attempted = FALSE
  BY <1>1, Begun, NoHeadFields
<1>3. Prepare(o) \/ PrepareNext(o)
  BY <1>1, HeadMoves
<1>4. landed' = landed
  BY <1>3 DEF Prepare, PrepareNext, provider
<1>5. \A k \in 1 .. MaxStages : landed[o][k] = 0
  <2>1. Covered(o)
    BY Known
  <2>2. PICK S : S = 1 .. MaxStages
    OBVIOUS
  <2>3. \A k \in S : landed[o][k] \in {0, 1} /\ (landed[o][k] = 1 => k <= 0)
    BY <1>2, <2>1, <2>2 DEF Covered
  <2>4. \A k \in S : ~(k <= 0)
    BY <2>2
  <2>5. QED
    BY <2>2, <2>3, <2>4
<1>6. QED
  BY <1>3, <1>4, <1>5, BornJob

\* The draft of a next version is not made again.
LEMMA DraftMoves ==
  ASSUME Inv, MadeInv, [Next]_vars, NEW o \in Operations, head[o].kind \in Following,
         NEW d, d = head[o].draft
  PROVE  \/ version'[d] = version[d] /\ content'[d] = content[d]
         \/ version'[d] = 0
         \/ version[d] > 0 /\ version'[d] = version[d] + 1
<1>1. d \in Drafts /\ d # None /\ version[d] \in Nat
  BY KindStays, MailAssumption DEF Inv, TypeOK
<1>2. Made(d)
  BY <1>1 DEF MadeInv
<1>3. VersionMoves(d)
  BY <1>1, AnyVersionMoves
<1>4. QED
  BY <1>2, <1>3 DEF VersionMoves, Made

\* What a request of a next version does when it lands.
LEMMA FollowingLands ==
  ASSUME Inv, NEW o \in Operations, head[o].kind \in Following,
         NEW c \in Pending, NEW s, NEW d, c.op = o, Landing(c, o, s, d)
  PROVE  /\ d = head[o].draft /\ s = PlanOf[head[o].kind][c.stage] /\ c.stage = head[o].done + 1
         /\ c.stage \in 1 .. Len(PlanOf[head[o].kind]) /\ c.stage \in 1 .. MaxStages
         /\ head' = head /\ job'[o].tag \in {job[o].tag, version'[d]}
         /\ version'[d] = IF s = "send-draft" THEN 0 ELSE version[d] + 1
         /\ s = "update-draft" => content'[d] = o
         /\ c.tag = head[o].key /\ c.tag > 0 /\ version[d] > 0
<1>1. s = Stage(o) /\ d = head[o].draft /\ LandingStage(c, o, s) /\ LandingDraft(c, o, s, d)
  BY DEF Landing
<1>2. /\ c.stage \in 1 .. Len(PlanOf[head[o].kind]) /\ s = PlanOf[head[o].kind][c.stage]
      /\ c.stage = head[o].done + 1 /\ c.stage \in 1 .. MaxStages
      /\ (Reads(s) => c.tag = head[o].key /\ c.tag > 0)
  BY <1>1, AwaitedStage
<1>3. Reads(s)
  BY <1>2, Known, PlanFacts DEF Planned
<1>4. QED
  BY <1>1, <1>2, <1>3 DEF LandingStage, LandingDraft

\* Every step keeps Newest.
LEMMA NewestNext ==
  ASSUME Inv, VersionInv, [Next]_vars, NEW o \in Operations
  PROVE  Newest(o)'
<1>1. CASE head[o].kind \in Following
  <2>1. PICK d : d = head[o].draft
    OBVIOUS
  <2>2. head'[o].draft = d /\ head'[o].kind = head[o].kind /\ d \in Drafts
    BY <1>1, <2>1, KindStays
  <2>3. SUFFICES ASSUME version'[d] > 0 PROVE head'[o].key <= version'[d] /\ job'[o].tag <= version'[d]
    BY <2>2 DEF Newest
  <2>4. /\ version[d] \in Nat /\ head[o].key \in Nat /\ job[o].tag \in Nat
        /\ version[d] > 0 /\ version'[d] \in {version[d], version[d] + 1}
    <3>1. version[d] \in Nat /\ head[o].key \in Nat /\ job[o].tag \in Nat
      BY <2>2, Fields DEF Inv, TypeOK
    <3>2. QED
      BY <1>1, <2>1, <2>3, <3>1, DraftMoves DEF VersionInv
  <2>5. head[o].key <= version[d] /\ job[o].tag <= version[d]
    BY <1>1, <2>1, <2>4 DEF VersionInv, Newest
  <2>6. head'[o].key \in {head[o].key, job[o].tag, version[d]}
    BY <1>1, <2>1, KeyMoves
  <2>7. job'[o].tag \in {0, job[o].tag, version[d], version'[d]}
    <3>1. CASE \E c, s : c \in Pending /\ c.op = o /\ Landing(c, o, s, d)
      BY <1>1, <3>1, FollowingLands
    <3>2. CASE job'[o].tag \in {0, job[o].tag, version[d]}
      BY <3>2
    <3>3. QED
      BY <1>1, <2>1, <3>1, <3>2, KeyMoves
  <2>8. QED
    BY <2>4, <2>5, <2>6, <2>7
<1>2. CASE head[o].kind \notin Following
  <2>1. CASE head'[o].kind \in Following
    <3>1. head'[o].key = 0 /\ job'[o].tag = 0
      BY <1>2, <2>1, NewFollowing
    <3>2. version'[head'[o].draft] \in Nat
      <4>1. TypeOK' /\ Right(PlanOf', o, head'[o], job'[o])
        BY NextInv DEF Inv, Local
      <4>2. head'[o].draft # None /\ head'[o].draft \in Drafts \cup {None}
        BY <2>1, <4>1 DEF Right, TypeOK, Record
      <4>3. QED
        BY <4>1, <4>2 DEF TypeOK
    <3>3. QED
      BY <3>1, <3>2 DEF Newest
  <2>2. CASE head'[o].kind \notin Following
    BY <2>2 DEF Newest
  <2>3. QED
    BY <2>1, <2>2
<1>3. QED
  BY <1>1, <1>2

\* Every step keeps Gone.
LEMMA GoneNext ==
  ASSUME Inv, VersionInv, [Next]_vars, NEW o \in Operations
  PROVE  Gone(o)'
<1>1. SUFFICES ASSUME head'[o].kind \in Posting, landed'[o][Len(PlanOf'[head'[o].kind])] = 1
               PROVE  version'[head'[o].draft] = 0
  BY DEF Gone
<1>2. PICK k \in Posting : k = head'[o].kind
  BY <1>1
<1>3. PICK N \in 1 .. MaxStages : N = Len(PlanOf[k])
  BY <1>2, PostPlan
<1>4. k \in Following /\ PlanOf[k][N] = "send-draft" /\ landed'[o][N] = 1
  BY <1>1, <1>2, <1>3, PostPlan, ScenarioStays
<1>5. head[o].kind \in Following
  BY <1>2, <1>3, <1>4, NewFollowing
<1>6. PICK d : d = head[o].draft
  OBVIOUS
<1>7. head'[o].draft = d /\ head[o].kind = k /\ d \in Drafts
  BY <1>2, <1>5, <1>6, KindStays
<1>8. CASE landed[o][N] = 1
  <2>1. version[d] = 0
    BY <1>3, <1>6, <1>7, <1>8 DEF VersionInv, Gone
  <2>2. version'[d] = 0
    BY <1>5, <1>6, <2>1, DraftMoves DEF VersionInv
  <2>3. QED
    BY <1>7, <2>2
<1>9. CASE landed[o][N] # 1
  <2>1. landed[o][N] = 0
    BY <1>3, <1>9, Known DEF Covered
  <2>2. PICK c, s, e : c \in Pending /\ c.op = o /\ c.stage = N /\ Landing(c, o, s, e)
    BY <1>3, <1>4, <2>1, LandedBy
  <2>3. e = d /\ s = "send-draft" /\ version'[e] = 0
    BY <1>4, <1>5, <1>6, <1>7, <2>2, FollowingLands
  <2>4. QED
    BY <1>7, <2>3
<1>10. QED
  BY <1>8, <1>9

\* Every step keeps Reviewed.
LEMMA ReviewedNext ==
  ASSUME Inv, VersionInv, [Next]_vars, NEW o \in Operations
  PROVE  Reviewed(o)'
<1>1. SUFFICES ASSUME head'[o].kind \in Posting, ~Gmail, version'[head'[o].draft] > 0
               PROVE  LET d == head'[o].draft
                          n == Saves(PlanOf, head'[o].kind) IN
                      /\ head'[o].done >= n /\ version'[d] = head'[o].key => content'[d] = o
                      /\ job'[o].pc = "call" /\ head'[o].done + 1 = n /\ landed'[o][n] = 1 /\ version'[d] = job'[o].tag
                           => content'[d] = o
  BY ScenarioStays DEF Reviewed
<1>2. PICK k \in Posting : k = head'[o].kind
  BY <1>1
<1>3. \E n, N \in 1 .. MaxStages : n = Saves(PlanOf, k) /\ N = Len(PlanOf[k])
  <2>1. PICK N \in 1 .. MaxStages : N = Len(PlanOf[k])
    BY <1>2, PostPlan
  <2>2. PICK n : n = Saves(PlanOf, k)
    OBVIOUS
  <2>3. n = N - 1 /\ n > 0
    BY <1>1, <1>2, <2>1, <2>2, PostPlan
  <2>4. n \in 1 .. MaxStages
    <3>1. N \in 1 .. 3
      BY <2>1 DEF MaxStages
    <3>2. n \in 1 .. 3
      BY <2>3, <3>1
    <3>3. QED
      BY <3>2 DEF MaxStages
  <2>5. QED
    BY <2>1, <2>2, <2>4
<1>a. PICK n, N \in 1 .. MaxStages : n = Saves(PlanOf, k) /\ N = Len(PlanOf[k])
  BY <1>3
<1>4. k \in Following /\ PlanOf[k][N] = "send-draft" /\ N = n + 1 /\ n > 0 /\ PlanOf[k][n] = "update-draft"
      /\ n \in 1 .. MaxStages
  <2>1. k \in Following /\ PlanOf[k][N] = "send-draft" /\ n = N - 1 /\ n > 0 /\ PlanOf[k][n] = "update-draft"
    BY <1>1, <1>a, PostPlan
  <2>2. QED
    BY <1>a, <2>1 DEF MaxStages
<1>5. CASE head[o].kind \notin Following
  BY <1>1, <1>2, <1>4, <1>5, NewFollowing
<1>6. CASE head[o].kind \in Following
  <2>1. PICK d : d = head[o].draft
    OBVIOUS
  <2>2. head'[o].draft = d /\ head[o].kind = k /\ d \in Drafts
    BY <1>2, <1>6, <2>1, KindStays
  <2>3. /\ version'[d] > 0 /\ version[d] \in Nat /\ head[o].key \in Nat /\ job[o].tag \in Nat
        /\ version[d] > 0 /\ head[o].done \in Nat
    <3>1. version'[d] > 0 /\ version[d] \in Nat /\ head[o].key \in Nat /\ job[o].tag \in Nat /\ head[o].done \in Nat
      BY <1>1, <2>2, Fields, Known DEF Inv, TypeOK
    <3>2. QED
      BY <1>6, <2>1, <3>1, DraftMoves DEF VersionInv
  <2>4. landed[o][N] = 0
    <3>1. landed[o][N] # 1
      BY <1>a, <2>1, <2>2, <2>3 DEF VersionInv, Gone
    <3>2. QED
      BY <1>a, <3>1, Known DEF Covered
  <2>5. /\ head[o].done >= n /\ version[d] = head[o].key => content[d] = o
        /\ job[o].pc = "call" /\ head[o].done + 1 = n /\ landed[o][n] = 1 /\ version[d] = job[o].tag => content[d] = o
    BY <1>1, <1>a, <2>1, <2>2, <2>3 DEF VersionInv, Reviewed
  <2>6. SUFFICES /\ head'[o].done >= n /\ version'[d] = head'[o].key => content'[d] = o
                 /\ job'[o].pc = "call" /\ head'[o].done + 1 = n /\ landed'[o][n] = 1 /\ version'[d] = job'[o].tag
                      => content'[d] = o
    BY <1>2, <1>a, <2>2
  <2>7. CASE version'[d] = version[d] /\ content'[d] = content[d]
    <3>1. ASSUME head'[o].done >= n, version'[d] = head'[o].key PROVE content[d] = o
      <4>1. CASE head'[o].key = head[o].key /\ head'[o].done = head[o].done
        BY <2>5, <2>7, <3>1, <4>1
      <4>2. CASE head[o].done = 0 /\ head'[o].done = 0
        BY <1>4, <3>1, <4>2
      <4>3. CASE /\ head'[o].key = job[o].tag /\ job[o].pc = "call" /\ head'[o].done = head[o].done + 1
                 /\ landed[o][head[o].done + 1] = 1 /\ head[o].done + 1 <= Len(PlanOf[head[o].kind])
        <5>1. head[o].done + 1 \in {n, N}
          <6>1. head[o].done + 1 >= n /\ head[o].done + 1 <= N
            BY <1>a, <2>2, <3>1, <4>3
          <6>2. n \in Int /\ N \in Int /\ N = n + 1 /\ head[o].done \in Nat
            BY <1>a, <1>4, <2>3
          <6>3. QED
            BY <6>1, <6>2
        <5>2. head[o].done + 1 = n
          BY <2>4, <4>3, <5>1
        <5>3. QED
          BY <2>5, <2>7, <3>1, <4>3, <5>2
      <4>4. CASE head'[o].done = head[o].done + 1 /\ head[o].attempted /\ Stage(o) = "update-file"
        <5>1. Left(o)
          BY <4>4, Known DEF Right
        <5>2. head[o].done + 1 < n
          BY <1>a, <2>2, <4>4, <5>1, Known, PlanFacts DEF Planned
        <5>3. QED
          BY <1>4, <2>3, <3>1, <4>4, <5>2
      <4>5. CASE DraftFound(o)
        <5>1. SavedAs(o) = d
          BY <2>1, <2>2, MailAssumption DEF SavedAs
        <5>2. Cardinality(Saving(o)) = n
          BY <1>a, <2>2, SavingStages
        <5>3. content[d] = o \/ (version[d] = head[o].key /\ head[o].done >= n)
          BY <1>1, <4>5, <5>1, <5>2 DEF DraftFound, DraftShown
        <5>4. QED
          BY <2>5, <5>3
      <4>6. CASE sent[o] = o
        <5>1. o # "nothing"
          BY MailAssumption DEF Drafts
        <5>2. landed[o][N] = 1
          BY <1>a, <2>2, <4>6, <5>1 DEF Inv, Posted
        <5>3. QED
          BY <2>4, <5>2
      <4>7. QED
        BY <1>6, <2>1, <4>1, <4>2, <4>3, <4>4, <4>5, <4>6, KeyMoves
    <3>2. ASSUME job'[o].pc = "call", head'[o].done + 1 = n, landed'[o][n] = 1, version'[d] = job'[o].tag PROVE content[d] = o
      <4>1. landed[o][n] = 1
        <5>1. SUFFICES ASSUME landed[o][n] # 1 PROVE FALSE
          OBVIOUS
        <5>2. landed[o][n] = 0
          BY <1>4, <5>1, Known DEF Covered
        <5>3. PICK c, s, e : c \in Pending /\ c.op = o /\ c.stage = n /\ Landing(c, o, s, e)
          BY <1>4, <3>2, <5>2, LandedBy
        <5>4. e = d /\ s = "update-draft" /\ version'[e] = version[e] + 1
          BY <1>4, <1>6, <2>1, <2>2, <5>3, FollowingLands
        <5>5. QED
          BY <2>3, <2>7, <5>4
      <4>2. head'[o].done \in Nat /\ head[o].done <= head'[o].done
        <5>1. head[o].done <= head'[o].done
          BY HeadMoves DEF Grows
        <5>2. TypeOK'
          BY NextInv DEF Inv
        <5>3. head'[o].done \in 0 .. MaxStages
          BY <5>2 DEF TypeOK, Record
        <5>4. QED
          BY <5>1, <5>3
      <4>3. n <= head[o].done \/ n = head[o].done + 1
        BY <1>4, <4>1, Known DEF Covered
      <4>4. head[o].done + 1 = n
        BY <1>4, <2>3, <3>2, <4>2, <4>3
      <4>5. head'[o].done = head[o].done
        BY <2>3, <3>2, <4>2, <4>4
      <4>6. ~(\E c, s : c \in Pending /\ c.op = o /\ Landing(c, o, s, d) /\ head' = head)
        <5>1. SUFFICES ASSUME NEW c \in Pending, NEW s, c.op = o, Landing(c, o, s, d) PROVE FALSE
          OBVIOUS
        <5>2. version'[d] \in {0, version[d] + 1}
          BY <1>6, <5>1, FollowingLands
        <5>3. QED
          BY <2>3, <2>7, <5>2
      <4>7. \/ job'[o].tag \in {0, job[o].tag} /\ job[o].pc = "call"
            \/ landed'[o][head'[o].done + 1] = 0
        BY <1>6, <2>1, <3>2, <4>6, KeyMoves
      <4>8. job'[o].tag = job[o].tag /\ job[o].pc = "call"
        BY <2>3, <3>2, <4>7
      <4>9. QED
        BY <2>5, <2>7, <3>2, <4>1, <4>4, <4>8
    <3>3. QED
      BY <2>7, <3>1, <3>2
  <2>8. CASE version'[d] = version[d] + 1
    <3>1. head[o].key <= version[d] /\ job[o].tag <= version[d]
      BY <1>6, <2>1, <2>3 DEF VersionInv, Newest
    <3>2. head'[o].key \in {head[o].key, job[o].tag, version[d]}
      BY <1>6, <2>1, KeyMoves
    <3>3. version'[d] # head'[o].key
      BY <2>3, <2>8, <3>1, <3>2
    <3>4. ASSUME job'[o].pc = "call", head'[o].done + 1 = n, landed'[o][n] = 1, version'[d] = job'[o].tag PROVE content'[d] = o
      <4>1. job'[o].tag \notin {0, job[o].tag, version[d]}
        BY <2>3, <2>8, <3>1, <3>4
      <4>2. PICK c, s : c \in Pending /\ c.op = o /\ Landing(c, o, s, d) /\ head' = head
        BY <1>6, <2>1, <4>1, KeyMoves
      <4>3. c.stage = head[o].done + 1 /\ s = PlanOf[k][c.stage] /\ (s = "update-draft" => content'[d] = o)
        BY <1>6, <2>2, <4>2, FollowingLands
      <4>4. c.stage = n
        BY <3>4, <4>2, <4>3
      <4>5. QED
        BY <1>4, <4>3, <4>4
    <3>5. QED
      BY <3>3, <3>4
  <2>9. QED
    BY <1>6, <2>1, <2>3, <2>7, <2>8, DraftMoves DEF VersionInv
<1>7. QED
  BY <1>5, <1>6

\* Only the last stage of a next version sends a saved draft.
LEMMA OnlyPosts ==
  ASSUME Inv, NEW o \in Operations, NEW i \in 1 .. Len(PlanOf[head[o].kind]),
         PlanOf[head[o].kind][i] = "send-draft"
  PROVE  head[o].kind \in Posting /\ i > Saves(PlanOf, head[o].kind)
<1>1. PICK k \in AllKinds : k = head[o].kind
  BY Known
<1>2. i > Saves(PlanOf, k) /\ Len(PlanOf[k]) \in 0 .. MaxStages /\ k # "send"
  BY <1>1, PlanFacts DEF Planned
<1>3. k \in Sends
  BY <1>1, <1>2 DEF Saves, MaxStages
<1>4. QED
  BY <1>1, <1>2, <1>3 DEF Sends, Posting

\* What was sent is what was reviewed, after every step.
LEMMA SentNext == ASSUME Inv, VersionInv, [Next]_vars PROVE ReviewedIsSent'
<1>1. SUFFICES ASSUME NEW o \in Operations PROVE sent'[o] \in {"nothing", o}
  BY DEF ReviewedIsSent
<1>2. CASE sent'[o] = sent[o]
  BY <1>2 DEF VersionInv, ReviewedIsSent
<1>3. CASE sent'[o] # sent[o]
  <2>1. PICK c, s, d : c \in Pending /\ c.op = o /\ Landing(c, o, s, d)
    BY <1>3, LandedBy
  <2>2. s = Stage(o) /\ d = head[o].draft /\ LandingDraft(c, o, s, d)
    BY <2>1 DEF Landing
  <2>3. CASE s = "send-draft" /\ ~Gmail /\ version[d] = c.tag /\ sent'[o] = content[d]
    <3>1. /\ c.stage \in 1 .. Len(PlanOf[head[o].kind]) /\ PlanOf[head[o].kind][c.stage] = "send-draft"
          /\ c.stage = head[o].done + 1 /\ c.tag = head[o].key /\ c.tag > 0 /\ head[o].done \in Nat
      <4>1. /\ c.stage \in 1 .. Len(PlanOf[head[o].kind]) /\ Stage(o) = PlanOf[head[o].kind][c.stage]
            /\ c.stage = head[o].done + 1 /\ head[o].done \in Nat
            /\ (Reads(Stage(o)) => c.tag = head[o].key /\ c.tag > 0)
        BY <2>1, AwaitedStage, Known
      <4>2. QED
        BY <2>2, <2>3, <4>1 DEF Reads
    <3>2. head[o].kind \in Posting /\ c.stage > Saves(PlanOf, head[o].kind)
      BY <3>1, OnlyPosts
    <3>3. PICK n : n = Saves(PlanOf, head[o].kind)
      OBVIOUS
    <3>4. n \in 0 .. MaxStages
      BY <3>3, SavingStages
    <3>5. head[o].done >= n
      BY <3>1, <3>2, <3>3, <3>4
    <3>6. content[d] = o
      BY <2>2, <2>3, <3>1, <3>2, <3>3, <3>5 DEF VersionInv, Reviewed
    <3>7. QED
      BY <2>3, <3>6
  <2>4. QED
    BY <1>3, <2>2, <2>3 DEF LandingDraft
<1>4. QED
  BY <1>2, <1>3

\* Every step keeps what is said of versions.
LEMMA VersionNext == ASSUME Inv, VersionInv, [Next]_vars PROVE VersionInv'
<1>1. MadeInv' /\ ReviewedIsSent'
  BY MadeNext, SentNext DEF VersionInv
<1>2. \A o \in Operations : Newest(o)' /\ Gone(o)' /\ Reviewed(o)'
  BY NewestNext, GoneNext, ReviewedNext
<1>3. QED
  BY <1>1, <1>2 DEF VersionInv

\* It holds in the initial states.
LEMMA InitVersions == ASSUME MailAssumption, Init PROVE VersionInv
<1>1. \A o \in Operations : head[o] = NoHead /\ job[o] = Idle /\ sent[o] = "nothing"
  BY DEF Init
<1>2. \A o \in Operations : head[o].kind \notin Following /\ head[o].draft = None /\ job[o].draft = None
  BY <1>1, NoHeadFields DEF Idle, Following, None
<1>3. \A o \in Operations : Newest(o) /\ Gone(o) /\ Reviewed(o)
  BY <1>2 DEF Newest, Gone, Reviewed, Posting, Following
<1>4. \A d \in Drafts : version[d] > 0 => d = Outside
  BY DEF Init
<1>5. MadeInv
  BY <1>2, <1>4, MailAssumption DEF MadeInv, Made
<1>6. QED
  BY <1>1, <1>3, <1>5 DEF VersionInv, ReviewedIsSent

\* It holds of every behaviour.
LEMMA MailVersions == Spec => []VersionInv
<1>1. Init => VersionInv
  BY InitVersions, MailAssumption
<1>2. Inv /\ VersionInv /\ [Next]_vars => VersionInv'
  BY VersionNext
<1>3. QED
  BY <1>1, <1>2, MailInv, PTL DEF Spec

\* What an operation sends is what its owner reviewed: the request that sends
\* a saved draft is for the version this operation wrote, and a version once
\* written keeps its content.
THEOREM MailReviewedIsSent == Spec => []ReviewedIsSent
<1>1. VersionInv => ReviewedIsSent
  BY DEF VersionInv
<1>2. QED
  BY <1>1, MailVersions, PTL

-----------------------------------------------------------------------------
(* Who a draft belongs to.                                                 *)

\* Going back from version to version ends.
Grounded == \A Z \in SUBSET Operations : Z # {} => \E x \in Z : head[x].previous \notin Z

\* Only PrepareNext changes what a record revises.
LEMMA PreviousMoves ==
  ASSUME Inv, [Next]_vars, ~(\E o \in Operations : PrepareNext(o)), NEW x \in Operations
  PROVE  head'[x].previous = head[x].previous
<1>1. CASE head[x].state # "none"
  BY <1>1, HeadMoves DEF Grows
<1>2. CASE head[x].state = "none"
  <2>1. head[x].previous = None
    BY <1>2, Begun, NoHeadFields
  <2>2. head'[x] = head[x] \/ Prepare(x)
    BY <1>2, HeadMoves
  <2>3. QED
    BY <2>1, <2>2, BornFields
<1>3. QED
  BY <1>1, <1>2

\* Every step keeps the records grounded.
LEMMA GroundedNext == ASSUME Inv, KinInv, Grounded, [Next]_vars PROVE Grounded'
<1>1. SUFFICES ASSUME NEW Z \in SUBSET Operations, Z # {} PROVE \E x \in Z : head'[x].previous \notin Z
  BY DEF Grounded
<1>2. CASE ~(\E o \in Operations : PrepareNext(o))
  <2>1. PICK x \in Z : head[x].previous \notin Z
    BY <1>1 DEF Grounded
  <2>2. QED
    BY <1>2, <2>1, PreviousMoves
<1>3. CASE \E o \in Operations : PrepareNext(o)
  <2>1. PICK o \in Operations : PrepareNext(o)
    BY <1>3
  <2>2. PICK p \in Operations : /\ head'[o].previous = p /\ p # o
                                /\ \A r \in Operations : r # o => head'[r] = head[r]
    BY <2>1, BornFields
  <2>3. \A r \in Operations : head[r].previous # o
    <3>1. head[o].state = "none"
      BY <2>1, NoHeadFields DEF PrepareNext
    <3>2. SUFFICES ASSUME NEW r \in Operations, head[r].previous = o PROVE FALSE
      OBVIOUS
    <3>3. o # None
      BY MailAssumption DEF Drafts
    <3>4. QED
      BY <3>1, <3>2, <3>3 DEF KinInv, Kin
  <2>4. CASE Z = {o}
    BY <2>2, <2>4
  <2>5. CASE Z # {o}
    <3>1. PICK Y \in SUBSET Operations : Y = Z \ {o}
      OBVIOUS
    <3>2. Y # {}
      BY <1>1, <2>5, <3>1
    <3>3. PICK x \in Y : head[x].previous \notin Y
      BY <3>2 DEF Grounded
    <3>4. x \in Z /\ x # o /\ head'[x].previous = head[x].previous /\ head[x].previous # o
      BY <2>2, <2>3, <3>1, <3>3
    <3>5. QED
      BY <3>1, <3>3, <3>4
  <2>6. QED
    BY <2>4, <2>5
<1>4. QED
  BY <1>2, <1>3

\* A draft goes back to the version before while versions are given up.
Unfolded == \A o \in Operations : Returned[o] = IF Back(o) THEN Returned[head[o].previous] ELSE o

\* Returned unfolds, in this state
LEMMA UnfoldedNow == Inv => Unfolded
<1>1. ASSUME Inv, NEW o \in Operations, Back(o) PROVE head[o].previous \in Operations
  BY <1>1, Fields DEF Back
<1> HIDE DEF Unfolded
<1>2. SUFFICES ASSUME Inv PROVE Unfolded
  OBVIOUS
<1>3. QED
  BY <1>1, <1>2, ReturnedUnfolds DEF Unfolded

\* and in the next.
LEMMA UnfoldedNext == (Inv => Unfolded)'
BY UnfoldedNow, PTL

\* What is returned to is an operation.
LEMMA ReturnedType ==
  ASSUME Inv, Grounded, NEW x \in Operations PROVE Returned[x] \in Operations
<1> DEFINE Z == {z \in Operations : Returned[z] \notin Operations}
<1>1. SUFFICES ASSUME Z # {} PROVE FALSE
  OBVIOUS
<1>2. PICK z \in Z : head[z].previous \notin Z
  BY <1>1 DEF Grounded
<1>3. Returned[z] = IF Back(z) THEN Returned[head[z].previous] ELSE z
  BY <1>2, UnfoldedNow DEF Unfolded
<1>4. Back(z) => head[z].previous \in Operations
  BY <1>2, Fields DEF Back
<1>5. QED
  BY <1>2, <1>3, <1>4

\* An operation a draft belongs to keeps it until it is given up.
LEMMA ReturnedStays ==
  ASSUME Inv, Inv', Grounded, [Next]_vars, NEW x \in Operations, NEW y \in Operations,
         Returned[x] = y, head'[y].state \notin GivenUp
  PROVE  Returned'[x] = y
<1> DEFINE Z == {z \in Operations : Returned[z] = y /\ Returned'[z] # y}
<1>1. SUFFICES ASSUME Z # {} PROVE FALSE
  OBVIOUS
<1>2. PICK z \in Z : head[z].previous \notin Z
  BY <1>1 DEF Grounded
<1>3. z \in Operations /\ Returned[z] = y /\ Returned'[z] # y
  BY <1>2
<1>4. /\ Returned[z] = IF Back(z) THEN Returned[head[z].previous] ELSE z
      /\ Back(y)' = FALSE
      /\ \A r \in Operations : Returned'[r] = IF Back(r)' THEN Returned'[head'[r].previous] ELSE r
  BY <1>3, UnfoldedNow, UnfoldedNext DEF Unfolded, Back
<1>5. CASE Back(z)
  <2>1. head[z].previous \in Operations
    BY <1>3, <1>5, Fields DEF Back
  <2>2. head'[z].previous = head[z].previous /\ Back(z)'
    <3>1. head[z].state \in GivenUp /\ head[z].state # "none" /\ head[z].previous # None
      BY <1>5 DEF Back, GivenUp
    <3>2. head'[z].state \in GivenUp /\ head'[z].previous = head[z].previous
      BY <1>3, <3>1, HeadMoves DEF Grows
    <3>3. QED
      BY <3>1, <3>2 DEF Back
  <2>3. Returned[head[z].previous] = y /\ Returned'[head[z].previous] # y
    BY <1>3, <1>4, <1>5, <2>2
  <2>4. QED
    BY <1>2, <2>1, <2>3
<1>6. CASE ~Back(z)
  BY <1>3, <1>4, <1>6
<1>7. QED
  BY <1>5, <1>6

\* Drafts change hands by the four steps that remember an owner.
LEMMA OwnerChanges ==
  ASSUME Inv, [Next]_vars
  PROVE  \/ owner' = owner
         \/ \E p \in Operations : \E e \in Drafts \cup {None} : owner' = Remembered(p, e)
         \/ \E q \in Operations : PrepareNext(q) \/ Opened(q)
<1>1. ASSUME NEW o \in Operations, Request(o) \/ Work(o), ~PrepareNext(o), ~Opened(o)
      PROVE  owner' = owner \/ \E e \in Drafts \cup {None} : owner' = Remembered(o, e)
  <2>1. CASE Answered(o)
    <3>1. owner' = Remembered(o, head'[o].draft) /\ head'[o].draft \in {o, head[o].draft}
      BY <2>1, AnsweredFields
    <3>2. head'[o].draft \in Drafts \cup {None}
      BY <3>1, Fields DEF Drafts
    <3>3. QED
      BY <3>1, <3>2
  <2>2. CASE Found(o)
    <3>1. head[o].draft \in Drafts \cup {None} /\ SavedAs(o) \in Drafts \cup {None}
      BY Fields DEF SavedAs, Drafts
    <3>2. QED
      BY <2>2, <3>1, FoundFields
  <2>3. CASE NotFound(o)
    BY <2>3, Fields DEF NotFound
  <2>4. CASE ~(Answered(o) \/ Found(o) \/ NotFound(o))
    BY <1>1, <2>4 DEF Request, Work, Prepare, Confirm, Cancel, Check, ReadDraft, Prepared, NotPrepared,
                Read, Dispatch, Finish, Fail
  <2>5. QED
    BY <2>1, <2>2, <2>3, <2>4
<1>2. CASE \E o \in Operations : Request(o) \/ Work(o)
  BY <1>1, <1>2
<1>3. CASE ~(\E o \in Operations : Request(o) \/ Work(o))
  <2>1. owner' = owner
    BY <1>3 DEF Next, Land, Refuse, Edit, Close, Restart, Hold, Connect, vars
  <2>2. QED
    BY <2>1
<1>4. QED
  BY <1>2, <1>3

\* A record comes to a draft by taking it over, and with no request under way.
LEMMA NewDraft ==
  ASSUME Inv, [Next]_vars, NEW o \in Operations, head[o].draft = None, head'[o].draft # None
  PROVE  /\ owner' = Remembered(o, head'[o].draft) \/ owner' = [owner EXCEPT ![head'[o].draft] = o]
         /\ ~InWire(o) /\ wire' = wire
<1>1. \E p \in Operations : Request(p) \/ Work(p)
  BY WorldFields
<1>2. PICK p \in Operations : Request(p) \/ Work(p)
  BY <1>1
<1>3. p = o
  BY <1>2, OnlyMine
<1>4. CASE Prepare(o)
  BY <1>4, BornFields
<1>5. CASE PrepareNext(o)
  <2>1. owner' = [owner EXCEPT ![head'[o].draft] = o]
    BY <1>5, BornFields
  <2>2. ~head[o].attempted /\ wire' = wire
    BY <1>5, NoHeadFields DEF PrepareNext, provider
  <2>3. QED
    BY <2>1, <2>2, LandedIsOver
<1>6. CASE Dispatch(o)
  <2>1. head' = [head EXCEPT ![o] = [head[o] EXCEPT !.attempted = TRUE]]
    BY <1>6 DEF Dispatch, Become
  <2>2. head'[o].draft = head[o].draft
    BY <2>1, Known DEF Inv, TypeOK, Record
  <2>3. QED
    BY <2>2
<1>7. CASE Answered(o)
  <2>1. wire' = wire
    BY <1>7 DEF Answered, provider
  <2>2. QED
    BY <1>7, <2>1, AnsweredFields
<1>8. CASE Found(o)
  <2>1. wire' = wire
    BY <1>8 DEF Found, provider
  <2>2. DraftFound(o) /\ owner' = Remembered(o, head'[o].draft)
    BY <1>8, FoundFields
  <2>3. ~InWire(o)
    <3>1. \/ ~head[o].attempted
          \/ landed[o][head[o].done + 1] > 0
      BY <2>2, ShownIsSaved
    <3>2. QED
      BY <3>1, LandedIsOver
  <2>4. QED
    BY <2>1, <2>2, <2>3
<1>9. CASE ~Prepare(o) /\ ~PrepareNext(o) /\ ~Dispatch(o) /\ ~Answered(o) /\ ~Found(o)
  <2>1. Opened(o) /\ head'[o].draft = job[o].draft
    BY <1>2, <1>3, <1>9, OtherFields
  <2>2. owner' = [owner EXCEPT ![job[o].draft] = o] /\ wire' = wire /\ head[o].state = "preparing"
    BY <2>1 DEF Opened, provider
  <2>3. ~head[o].attempted
    BY <2>2, Known DEF Right
  <2>4. QED
    BY <2>1, <2>2, <2>3, LandedIsOver
<1>10. QED
  BY <1>4, <1>5, <1>6, <1>7, <1>8, <1>9

\* Every draft of a record has an operation that took it.
Owned == \A o \in Operations : head[o].draft # None => owner[head[o].draft] # None

\* Every step keeps the drafts owned.
LEMMA OwnedNext == ASSUME Inv, Owned, [Next]_vars PROVE Owned'
<1>1. owner \in [Drafts -> Operations \cup {None}] /\ owner' \in [Drafts -> Operations \cup {None}]
  BY NextInv DEF Inv, TypeOK
<1>2. ASSUME NEW d \in Drafts, NEW p \in Operations, NEW e, owner[d] # None
      PROVE  Remembered(p, e)[d] # None /\ [owner EXCEPT ![e] = p][d] # None
  BY <1>1, <1>2, MailAssumption DEF Remembered, Drafts
<1>3. ASSUME NEW d \in Drafts, owner[d] # None PROVE owner'[d] # None
  <2>1. CASE owner' = owner
    BY <1>3, <2>1
  <2>2. CASE \E p \in Operations : \E e \in Drafts \cup {None} : owner' = Remembered(p, e)
    BY <1>2, <1>3, <2>2
  <2>3. CASE \E q \in Operations : PrepareNext(q) \/ Opened(q)
    <3>1. PICK q \in Operations : PrepareNext(q) \/ Opened(q)
      BY <2>3
    <3>2. \E e : owner' = [owner EXCEPT ![e] = q]
      BY <3>1 DEF PrepareNext, Opened
    <3>3. QED
      BY <1>2, <1>3, <3>2
  <2>4. QED
    BY <2>1, <2>2, <2>3, OwnerChanges
<1>4. ASSUME NEW d \in Drafts, NEW p \in Operations
      PROVE  Remembered(p, d)[d] # None /\ [owner EXCEPT ![d] = p][d] # None
  BY <1>1, MailAssumption DEF Remembered, DraftOwner, Drafts
<1>5. SUFFICES ASSUME NEW o \in Operations, head'[o].draft # None PROVE owner'[head'[o].draft] # None
  BY DEF Owned
<1>6. PICK d \in Drafts : d = head'[o].draft
  <2>1. TypeOK'
    BY NextInv DEF Inv
  <2>2. head'[o].draft \in Drafts \cup {None}
    BY <2>1 DEF TypeOK, Record
  <2>3. QED
    BY <1>5, <2>2
<1>7. CASE head[o].draft # None
  BY <1>3, <1>6, <1>7, HeadMoves DEF Grows, Owned
<1>8. CASE head[o].draft = None
  BY <1>4, <1>5, <1>6, <1>8, NewDraft
<1>9. QED
  BY <1>7, <1>8

\* An operation under way keeps the draft it owns.
LEMMA KeepsNext ==
  ASSUME Inv, Inv', Grounded, Owned, [Next]_vars, NEW o \in Operations,
         Working(o), Working(o)', head[o].draft # None, OwnsDraft(o)
  PROVE  OwnsDraft(o)'
<1>1. PICK d \in Drafts : d = head[o].draft
  BY Fields
<1>2. /\ head'[o].draft = d /\ head'[o].state \notin GivenUp /\ o # None /\ d # None
      /\ head[o].state \in {"running", "uncertain"}
  BY <1>1, HeadMoves, MailAssumption DEF Grows, Working, GivenUp, Drafts
<1>3. owner \in [Drafts -> Operations \cup {None}]
  BY DEF Inv, TypeOK
<1>4. PICK x \in Operations : x = owner[d]
  BY <1>1, <1>3 DEF Owned
<1>5. Returned[x] = o /\ DraftOwner(d) = o
  <2>1. Returned[x] # None /\ x # None
    BY ReturnedType, MailAssumption DEF Drafts
  <2>2. DraftOwner(d) = Returned[x]
    BY <1>4, <2>1 DEF DraftOwner
  <2>3. DraftOwner(d) \in {o, None}
    BY <1>1 DEF OwnsDraft
  <2>4. QED
    BY <2>1, <2>2, <2>3
<1>6. Returned'[x] = o
  BY <1>2, <1>5, ReturnedStays
<1>7. Returned'[o] = o
  <2>1. ~Back(o)'
    BY <1>2 DEF Back
  <2>2. QED
    BY <2>1, UnfoldedNext DEF Unfolded
<1>8. owner'[d] \in {x, o}
  <2>1. CASE owner' = owner
    BY <1>4, <2>1
  <2>2. CASE \E p \in Operations : \E e \in Drafts \cup {None} : owner' = Remembered(p, e)
    <3>1. PICK p \in Operations, e \in Drafts \cup {None} : owner' = Remembered(p, e)
      BY <2>2
    <3>2. owner' = owner \/ (DraftOwner(e) \in {None, p} /\ owner' = [owner EXCEPT ![e] = p])
      BY <3>1 DEF Remembered
    <3>3. e = d => p = o \/ owner' = owner
      BY <1>2, <1>5, <3>2
    <3>4. QED
      BY <1>3, <1>4, <3>2, <3>3
  <2>3. CASE \E q \in Operations : PrepareNext(q)
    <3>1. PICK q \in Operations : PrepareNext(q)
      BY <2>3
    <3>2. PICK p \in Operations : Editable(p) /\ OwnsDraft(p) /\ owner' = [owner EXCEPT ![head[p].draft] = q]
      BY <3>1, BornFields
    <3>3. head[p].draft # d
      <4>1. SUFFICES ASSUME head[p].draft = d PROVE FALSE
        OBVIOUS
      <4>2. p = o
        BY <1>2, <1>5, <3>2, <4>1 DEF OwnsDraft
      <4>3. QED
        BY <1>2, <3>2, <4>2 DEF Editable
    <3>4. QED
      BY <1>3, <1>4, <3>2, <3>3
  <2>4. CASE \E q \in Operations : Opened(q)
    <3>1. PICK q \in Operations : Opened(q)
      BY <2>4
    <3>2. /\ owner' = [owner EXCEPT ![job[q].draft] = q]
          /\ \A p \in {DraftOwner(job[q].draft), job[q].marker} \cap Operations : head[p].state \in Settled
      BY <3>1 DEF Opened
    <3>3. job[q].draft # d
      BY <1>2, <1>5, <3>2 DEF Settled
    <3>4. QED
      BY <1>3, <1>4, <3>2, <3>3
  <2>5. QED
    BY <2>1, <2>2, <2>3, <2>4, OwnerChanges
<1>9. OwnsDraft(o)' <=> (head'[o].draft # None =>
        (IF owner'[head'[o].draft] = None THEN None ELSE Returned'[owner'[head'[o].draft]]) \in {o, None})
  BY DEF OwnsDraft, DraftOwner
<1>10. QED
  BY <1>2, <1>6, <1>7, <1>8, <1>9

\* A request under way belongs to a working record, in this state
LEMMA WireWorks == Inv => \A o \in Operations : InWire(o) => Working(o)
<1>1. ASSUME Inv, NEW o \in Operations, InWire(o) PROVE Working(o)
  <2>1. PICK c \in Pending : c.op = o
    BY <1>1 DEF InWire, Pending
  <2>2. QED
    BY <1>1, <2>1, AwaitedStage DEF Working
<1>2. QED
  BY <1>1

\* and in the next.
LEMMA WireWorksNext == (Inv => \A o \in Operations : InWire(o) => Working(o))'
BY WireWorks, PTL

\* A new request is made by Dispatch.
LEMMA PendingGrows ==
  ASSUME Inv, [Next]_vars, NEW c \in Pending'
  PROVE  \/ c \in Pending
         \/ \E p \in Operations : Dispatch(p) /\ c.op = p /\ c.stage = head[p].done + 1
<1>1. CASE wire' = wire
  BY <1>1 DEF Pending
<1>2. CASE \E i \in 1 .. Len(wire) : Taken(i)
  <2>1. PICK i \in 1 .. Len(wire) : Taken(i)
    BY <1>2
  <2>2. Pending' = Pending \ {wire[i]}
    BY <2>1, Taking
  <2>3. QED
    BY <2>2
<1>3. ASSUME NEW p \in Operations, Request(p) \/ Work(p)
      PROVE  wire' = wire \/ c \in Pending \/ (Dispatch(p) /\ c.op = p /\ c.stage = head[p].done + 1)
  <2>1. CASE Dispatch(p)
    <3>1. PICK b : b.op = p /\ b.stage = head[p].done + 1 /\ wire' = Append(wire, b)
      <4>1. wire' = Append(wire, [op |-> p, stage |-> head[p].done + 1, tag |-> job[p].tag])
        BY <2>1 DEF Dispatch
      <4>2. QED
        BY <4>1
    <3>2. wire \in Seq(Call)
      BY DEF Inv, TypeOK
    <3>3. c \in Pending \/ c = b
      BY <3>1, <3>2 DEF Pending
    <3>4. QED
      BY <2>1, <3>1, <3>3
  <2>2. CASE ~Dispatch(p)
    BY <1>3, <2>2, Turns DEF Turn, Step
  <2>3. QED
    BY <2>1, <2>2
<1>4. QED
  BY <1>1, <1>2, <1>3 DEF Next, Land, Refuse, Edit, Close, Restart, Hold, Connect, vars, provider

\* Only Dispatch makes a request.
LEMMA WireGrows ==
  ASSUME Inv, [Next]_vars, NEW o \in Operations, InWire(o)' PROVE InWire(o) \/ Dispatch(o)
<1>1. PICK c \in Pending' : c.op = o
  BY DEF InWire, Pending
<1>2. QED
  BY <1>1, PendingGrows DEF InWire, Pending

\* Whoever has a request under way owns the draft it is for.
Hands == \A o \in Operations : InWire(o) => OwnsDraft(o)

\* Every step keeps the requests in the hands of the draft's owner.
LEMMA HandsNext == ASSUME Inv, Inv', Grounded, Owned, Hands, [Next]_vars PROVE Hands'
<1>1. SUFFICES ASSUME NEW o \in Operations, InWire(o)', head'[o].draft # None PROVE OwnsDraft(o)'
  BY DEF Hands, OwnsDraft
<1>2. Working(o)'
  BY <1>1, WireWorksNext
<1>3. CASE InWire(o)
  <2>1. head[o].draft # None
    BY <1>1, <1>3, NewDraft
  <2>2. Working(o) /\ OwnsDraft(o)
    BY <1>3, WireWorks DEF Hands
  <2>3. QED
    BY <1>2, <2>1, <2>2, KeepsNext
<1>4. CASE Dispatch(o)
  <2>1. Working(o) /\ OwnsDraft(o)
    BY <1>4 DEF Dispatch, MayCall, Working
  <2>2. head'[o].draft = head[o].draft
    <3>1. head' = [head EXCEPT ![o] = [head[o] EXCEPT !.attempted = TRUE]]
      BY <1>4 DEF Dispatch, Become
    <3>2. QED
      BY <3>1, Known DEF Inv, TypeOK, Record
  <2>3. QED
    BY <1>1, <1>2, <2>1, <2>2, KeepsNext
<1>5. QED
  BY <1>1, <1>3, <1>4, WireGrows

OwnedInv == Grounded /\ Owned /\ Hands

\* It holds of every behaviour.
LEMMA MailOwned == Spec => []OwnedInv
<1>1. Init => OwnedInv
  <2>1. SUFFICES ASSUME Init PROVE OwnedInv
    OBVIOUS
  <2>2. \A o \in Operations : head[o].previous = None /\ head[o].draft = None /\ ~InWire(o)
    BY <2>1, NoHeadFields DEF Init, InWire
  <2>3. None \notin Operations
    BY MailAssumption DEF Drafts
  <2>4. QED
    BY <2>2, <2>3 DEF OwnedInv, Grounded, Owned, Hands
<1>2. Inv /\ KinInv /\ OwnedInv /\ [Next]_vars => OwnedInv'
  BY GroundedNext, OwnedNext, HandsNext, NextInv DEF OwnedInv
<1>3. QED
  BY <1>1, <1>2, MailInv, MailKin, PTL DEF Spec

\* An operation under way or in doubt keeps the draft it owns.
THEOREM MailWorkKeepsItsDraft == Spec => WorkKeepsItsDraft
<1>1. Inv /\ OwnedInv /\ [Next]_vars =>
        \A o \in Operations :
          Working(o) /\ Working(o)' /\ head[o].draft # None /\ OwnsDraft(o) => OwnsDraft(o)'
  BY KeepsNext, NextInv DEF OwnedInv
<1>2. Inv /\ OwnedInv /\ [Next]_vars =>
        [\A o \in Operations :
          Working(o) /\ Working(o)' /\ head[o].draft # None /\ OwnsDraft(o) => OwnsDraft(o)']_vars
  BY <1>1
<1>3. QED
  BY <1>2, MailInv, MailOwned, PTL DEF Spec, WorkKeepsItsDraft

\* A draft belongs to one operation.
LEMMA OneOwner ==
  ASSUME Inv, OwnedInv, NEW o \in Operations, NEW p \in Operations, o # p,
         head[o].draft = head[p].draft, head[o].draft # None, OwnsDraft(o), OwnsDraft(p)
  PROVE  FALSE
<1>1. PICK d \in Drafts : d = head[o].draft /\ d = head[p].draft /\ d # None
  BY Fields
<1>2. DraftOwner(d) \in {o, None} /\ DraftOwner(d) \in {p, None}
  BY <1>1 DEF OwnsDraft
<1>3. owner[d] # None /\ owner[d] \in Operations
  BY <1>1 DEF OwnedInv, Owned, Inv, TypeOK
<1>4. DraftOwner(d) \in Operations
  BY <1>3, ReturnedType DEF DraftOwner, OwnedInv
<1>5. QED
  BY <1>2, <1>4, MailAssumption DEF Drafts

\* One owner at a time means one request at a time.
LEMMA OneHandNow == ASSUME Inv, MadeInv, OwnedInv PROVE OneHandPerDraft
<1>1. SUFFICES ASSUME NEW i \in DOMAIN wire, NEW j \in DOMAIN wire, i # j,
                      Target(wire[i].op, Plan(head[wire[i].op].kind)[wire[i].stage]) # None,
                      Target(wire[i].op, Plan(head[wire[i].op].kind)[wire[i].stage])
                        = Target(wire[j].op, Plan(head[wire[j].op].kind)[wire[j].stage])
               PROVE  FALSE
  BY DEF OneHandPerDraft
<1>2. i \in 1 .. Len(wire) /\ j \in 1 .. Len(wire)
  BY <1>1 DEF Inv, TypeOK
<1>3. PICK b, c : b \in Pending /\ c \in Pending /\ b = wire[i] /\ c = wire[j]
  BY <1>2 DEF Pending
<1>4. PICK o \in Operations, p \in Operations : o = b.op /\ p = c.op /\ o # p /\ InWire(o) /\ InWire(p)
  <2>1. b.op \in Operations /\ c.op \in Operations /\ InWire(b.op) /\ InWire(c.op)
    BY <1>2, <1>3, AwaitedStage DEF InWire
  <2>2. b.op # c.op
    BY <1>1, <1>2, <1>3 DEF Inv, Wired
  <2>3. QED
    BY <2>1, <2>2
<1>5. PICK d : d = Target(o, Stage(o)) /\ d = Target(p, Stage(p)) /\ d # None
  BY <1>1, <1>3, <1>4, AwaitedStage
<1>6. ASSUME NEW q \in Operations, InWire(q), Stage(q) \notin Creating
      PROVE  d = Target(q, Stage(q)) => d = head[q].draft /\ OwnsDraft(q)
  BY <1>6 DEF Target, Creating, OwnedInv, Hands
<1>7. ASSUME NEW q \in Operations, InWire(q), Stage(q) \in Creating
      PROVE  (d = Target(q, Stage(q)) => d = q) /\ landed[q][1] = 0
  <2>1. PICK e \in Pending : e.op = q
    BY <1>7 DEF InWire, Pending
  <2>2. landed[q][e.stage] = 0 /\ e.stage \in 1 .. Len(PlanOf[head[q].kind]) /\ Stage(q) = PlanOf[head[q].kind][e.stage]
    BY <2>1, AwaitedStage DEF PlanOf
  <2>3. e.stage = 1
    BY <1>7, <2>2, Known, PlanFacts DEF Planned
  <2>4. QED
    BY <1>7, <2>2, <2>3 DEF Target, Creating
<1>8. ASSUME NEW q \in Operations, NEW r \in Operations, InWire(q), InWire(r), q # r,
             Stage(q) \in Creating, d = Target(q, Stage(q)), d = Target(r, Stage(r))
      PROVE  FALSE
  <2>1. d = q /\ landed[q][1] = 0
    BY <1>7, <1>8
  <2>2. CASE Stage(r) \in Creating
    BY <1>7, <1>8, <2>1, <2>2
  <2>3. CASE Stage(r) \notin Creating
    <3>1. d = head[r].draft
      BY <1>6, <1>8, <2>3
    <3>2. Made(d)
      BY <1>5, <3>1 DEF MadeInv
    <3>3. QED
      BY <2>1, <3>2 DEF Made
  <2>4. QED
    BY <2>2, <2>3
<1>9. CASE Stage(o) \in Creating \/ Stage(p) \in Creating
  BY <1>4, <1>5, <1>8, <1>9
<1>10. CASE Stage(o) \notin Creating /\ Stage(p) \notin Creating
  <2>1. d = head[o].draft /\ d = head[p].draft /\ OwnsDraft(o) /\ OwnsDraft(p)
    BY <1>4, <1>5, <1>6, <1>10
  <2>2. QED
    BY <1>4, <1>5, <2>1, OneOwner
<1>11. QED
  BY <1>9, <1>10

\* Requests of two operations are never under way at one provider draft:
\* whoever makes one owns the draft, and a draft being made is nobody else's.
THEOREM MailOneHandPerDraft == Spec => []OneHandPerDraft
<1>1. Inv /\ VersionInv /\ OwnedInv => OneHandPerDraft
  BY OneHandNow DEF VersionInv
<1>2. QED
  BY <1>1, MailInv, MailVersions, MailOwned, PTL

-----------------------------------------------------------------------------
(* The operations of one writing.                                          *)

Alive(o) == head[o].state \notin GivenUp \cup {"none"}

\* A saved operation stays saved, and only Confirm sets one to work.
LEMMA StateMoves ==
  ASSUME Inv, [Next]_vars, NEW o \in Operations
  PROVE  /\ head[o].state = "saved" => head'[o].state = "saved"
         /\ Working(o)' /\ ~Working(o) => Confirm(o)
<1>1. head \in [Operations -> Record] /\ head[o] \in Record /\ Right(PlanOf, o, head[o], job[o])
  BY Known DEF Inv, TypeOK
<1> DEFINE Same == head'[o].state = head[o].state
           Away == head[o].state # "saved" /\ head'[o].state \notin {"running", "uncertain"}
           On   == head[o].state \in {"running", "uncertain"}
<1>2. SUFFICES Same \/ Away \/ On \/ Confirm(o)
  <2>1. Confirm(o) => head[o].state # "saved"
    BY DEF Confirm, Confirmable
  <2>2. QED
    BY <2>1 DEF Working
<1>3. CASE \E p \in Operations : Request(p) \/ Work(p)
  <2>1. PICK p \in Operations : Request(p) \/ Work(p)
    BY <1>3
  <2>2. CASE p # o
    BY <2>1, <2>2, OnlyMine
  <2>3. CASE Prepare(o) \/ PrepareNext(o)
    <3>1. head'[o].state = "preparing" /\ head[o].state = "none"
      BY <2>3, BornFields, BornJob
    <3>2. QED
      BY <3>1
  <2>4. CASE Check(o) \/ ReadDraft(o) \/ Read(o) \/ NotFound(o)
    BY <2>4 DEF Check, ReadDraft, Read, NotFound
  <2>5. CASE Cancel(o)
    <3>1. head' = [head EXCEPT ![o] = [head[o] EXCEPT !.state = "cancelled"]] /\ head[o].state # "saved"
      BY <2>5 DEF Cancel, Confirmable, Become
    <3>2. head'[o].state = "cancelled"
      BY <1>1, <3>1, StateFields DEF States
    <3>3. QED
      BY <3>1, <3>2
  <2>6. CASE Prepared(o)
    <3>1. head' = [head EXCEPT ![o] = [head[o] EXCEPT !.state = "prepared", !.key = job[o].tag]] /\ head[o].state # "saved"
      BY <2>6 DEF Prepared, Become
    <3>2. head'[o].state = "prepared"
      BY <1>1, <3>1 DEF Record
    <3>3. QED
      BY <3>1, <3>2
  <2>7. CASE Opened(o)
    <3>1. head' = [head EXCEPT ![o] = [head[o] EXCEPT !.state = "saved", !.draft = job[o].draft, !.key = job[o].tag]]
          /\ head[o].state # "saved"
      BY <2>7 DEF Opened, Become
    <3>2. head'[o].state = "saved"
      BY <1>1, <3>1 DEF Record
    <3>3. QED
      BY <3>1, <3>2
  <2>8. CASE NotPrepared(o)
    <3>1. head' = [head EXCEPT ![o] = [head[o] EXCEPT !.state = "failed"]] /\ head[o].state # "saved"
      BY <2>8 DEF NotPrepared, Become
    <3>2. head'[o].state = "failed"
      BY <1>1, <3>1, StateFields DEF States
    <3>3. QED
      BY <3>1, <3>2
  <2>9. CASE Finish(o) \/ Fail(o) \/ Dispatch(o) \/ Answered(o)
    BY <2>9, AnsweredFields DEF Finish, Fail, Dispatch
  <2>10. CASE Found(o)
    BY <2>10, FoundFields
  <2>11. QED
    BY <2>1, <2>2, <2>3, <2>4, <2>5, <2>6, <2>7, <2>8, <2>9, <2>10 DEF Request, Work
<1>4. CASE Restart
  <2>1. head'[o] = Recovered(head[o])
    BY <1>4 DEF Restart
  <2>2. CASE head[o].state = "preparing"
    <3>1. head'[o] = [head[o] EXCEPT !.state = "failed"]
      BY <2>1, <2>2 DEF Recovered
    <3>2. head'[o].state = "failed"
      BY <1>1, <3>1, StateFields DEF States
    <3>3. QED
      BY <2>2, <3>2
  <2>3. CASE head[o].state = "running"
    BY <2>3
  <2>4. CASE head[o].state \notin {"preparing", "running"}
    BY <2>1, <2>4 DEF Recovered
  <2>5. QED
    BY <2>2, <2>3, <2>4
<1>5. CASE UNCHANGED head
  BY <1>5
<1>6. QED
  <2>1. Close \/ Hold \/ Connect \/ UNCHANGED vars => UNCHANGED head
    BY DEF Close, Hold, Connect, vars
  <2>2. (\E i \in 1 .. Len(wire) : Land(i) \/ Refuse(i)) \/ (\E d \in Drafts : Edit(d)) => UNCHANGED head
    BY DEF Land, Refuse, Edit
  <2>3. QED
    BY <1>3, <1>4, <1>5, <2>1, <2>2 DEF Next

\* Going on from version to version ends.
Topped == \A Z \in SUBSET Operations : Z # {} => \E x \in Z : \A y \in Z : head[y].previous # x

\* Next versions go back to a saved draft.
Rooted ==
  \A p \in Operations : head[p].previous # None =>
    \E r \in Operations : /\ head[r].writer = head[p].writer
                          /\ head[r].state = "saved" /\ head[r].previous = None

\* A writing has one live operation that is not a next version.
OneRoot ==
  \A o, p \in Operations :
    /\ head[o].writer = head[p].writer /\ head[o].previous = None /\ head[p].previous = None
    /\ Alive(o) /\ Alive(p)
    => o = p

\* All operations of a writing that has a next version are for its draft.
OneDraft ==
  \A o, p \in Operations :
    head[o].writer = head[p].writer /\ Alive(o) /\ head[p].previous # None => head[o].draft = head[p].draft

FamilyInv == Topped /\ Rooted /\ OneRoot /\ OneDraft

\* A writing without a tip is given up.
LEMMA NoTips ==
  ASSUME Topped, NEW w, Tips(w) = {}, NEW o \in Operations, head[o].writer = w PROVE head[o].state \in GivenUp
<1>1. SUFFICES ASSUME head[o].state \notin GivenUp PROVE FALSE
  OBVIOUS
<1>2. Lineage(w) \in SUBSET Operations /\ Lineage(w) # {}
  BY <1>1 DEF Lineage
<1>3. PICK x \in Lineage(w) : \A y \in Lineage(w) : head[y].previous # x
  BY <1>2 DEF Topped
<1>4. x \in Tips(w)
  BY <1>3 DEF Tips
<1>5. QED
  BY <1>4

\* Every step keeps the family of a writing.
LEMMA FamilyNext == ASSUME Inv, KinInv, FamilyInv, [Next]_vars PROVE FamilyInv'
<1>1. CASE \E o \in Operations : Prepare(o)
  <2>1. PICK o \in Operations : Prepare(o)
    BY <1>1
  <2>2. PICK w \in Writers : Tips(w) = {} /\ head'[o].writer = w
    <3>1. PICK k \in First \cap scenario, w \in Writers : /\ Tips(w) = {}
                      /\ head' = [head EXCEPT ![o] = [NoHead EXCEPT !.state = "preparing", !.kind = k, !.writer = w]]
      BY <2>1 DEF Prepare, Become
    <3>2. head'[o].writer = w
      BY <3>1 DEF Inv, TypeOK, NoHead
    <3>3. QED
      BY <3>1, <3>2
  <2>3. /\ head'[o].previous = None /\ head[o].previous = None /\ head[o].state = "none"
        /\ \A p \in Operations : p # o => head'[p] = head[p]
    BY <2>1, BornFields, NoHeadFields DEF Prepare
  <2>4. \A p \in Operations : head[p].writer = w => head[p].state \in GivenUp
    BY <2>2, NoTips DEF FamilyInv
  <2>5. \A p \in Operations : head'[p].previous = head[p].previous
    BY <2>3
  <2>6. Topped'
    BY <2>5 DEF FamilyInv, Topped
  <2>7. Rooted'
    <3>1. SUFFICES ASSUME NEW p \in Operations, head'[p].previous # None
                   PROVE  \E r \in Operations : /\ head'[r].writer = head'[p].writer
                            /\ head'[r].state = "saved" /\ head'[r].previous = None
      BY DEF Rooted
    <3>2. p # o /\ head[p].previous # None /\ head'[p] = head[p]
      BY <2>3, <3>1
    <3>3. PICK r \in Operations : /\ head[r].writer = head[p].writer
                                  /\ head[r].state = "saved" /\ head[r].previous = None
      BY <3>2 DEF FamilyInv, Rooted
    <3>4. head'[r] = head[r]
      BY <2>3, <3>3
    <3>5. QED
      BY <3>2, <3>3, <3>4
  <2>8. OneRoot'
    <3>1. SUFFICES ASSUME NEW x \in Operations, NEW p \in Operations, x # p,
                          head'[x].writer = head'[p].writer, head'[x].previous = None, head'[p].previous = None,
                          Alive(x)', Alive(p)'
                   PROVE  FALSE
      BY DEF OneRoot
    <3>2. CASE x = o
      BY <2>2, <2>3, <2>4, <3>1, <3>2 DEF Alive
    <3>3. CASE p = o
      BY <2>2, <2>3, <2>4, <3>1, <3>3 DEF Alive
    <3>4. CASE x # o /\ p # o
      BY <2>3, <3>1, <3>4 DEF Alive, FamilyInv, OneRoot
    <3>5. QED
      BY <3>2, <3>3, <3>4
  <2>9. OneDraft'
    <3>1. SUFFICES ASSUME NEW x \in Operations, NEW p \in Operations,
                          head'[x].writer = head'[p].writer, Alive(x)', head'[p].previous # None
                   PROVE  head'[x].draft = head'[p].draft
      BY DEF OneDraft
    <3>2. p # o /\ head'[p] = head[p]
      BY <2>3, <3>1
    <3>3. CASE x = o
      <4>1. head[p].writer = w
        BY <2>2, <3>1, <3>2, <3>3
      <4>2. PICK r \in Operations : head[r].writer = w /\ head[r].state = "saved"
        BY <3>1, <3>2, <4>1 DEF FamilyInv, Rooted
      <4>3. QED
        BY <2>4, <4>2 DEF GivenUp
    <3>4. CASE x # o
      BY <2>3, <3>1, <3>2, <3>4 DEF Alive, FamilyInv, OneDraft
    <3>5. QED
      BY <3>3, <3>4
  <2>10. QED
    BY <2>6, <2>7, <2>8, <2>9 DEF FamilyInv
<1>2. CASE \E o \in Operations : PrepareNext(o)
  <2>1. PICK o \in Operations : PrepareNext(o)
    BY <1>2
  <2>2. PICK q \in Operations :
          /\ head'[o].previous = q /\ head'[o].writer = head[q].writer /\ head'[o].draft = head[q].draft
          /\ q # o /\ head[q].state # "none" /\ Editable(q) /\ q \in Tips(head[q].writer)
          /\ \A r \in Operations : r # o => head'[r] = head[r]
    BY <2>1, BornFields
  <2>3. Alive(q) /\ head[o].state = "none"
    BY <2>1, <2>2, NoHeadFields DEF Tips, Lineage, Alive, PrepareNext
  <2>4. \A r \in Operations : head[r].previous # o
    <3>1. SUFFICES ASSUME NEW r \in Operations, head[r].previous = o PROVE FALSE
      OBVIOUS
    <3>2. o # None
      BY MailAssumption DEF Drafts
    <3>3. QED
      BY <2>3, <3>1, <3>2 DEF KinInv, Kin
  <2>5. Topped'
    <3>1. SUFFICES ASSUME NEW Z \in SUBSET Operations, Z # {} PROVE \E x \in Z : \A y \in Z : head'[y].previous # x
      BY DEF Topped
    <3>2. CASE o \in Z
      <4>1. \A y \in Z : head'[y].previous # o
        BY <2>2, <2>4
      <4>2. QED
        BY <3>2, <4>1
    <3>3. CASE o \notin Z
      <4>1. PICK x \in Z : \A y \in Z : head[y].previous # x
        BY <3>1 DEF FamilyInv, Topped
      <4>2. \A y \in Z : head'[y] = head[y]
        BY <2>2, <3>3
      <4>3. QED
        BY <4>1, <4>2
    <3>4. QED
      BY <3>2, <3>3
  <2>6. \E r \in Operations : /\ head[r].writer = head[q].writer
                              /\ head[r].state = "saved" /\ head[r].previous = None
    <3>1. CASE head[q].previous # None
      BY <3>1 DEF FamilyInv, Rooted
    <3>2. CASE head[q].previous = None
      <4>1. head[q].kind \notin Following /\ head[q].kind \in AllKinds /\ Stages(q) = PlanOf[head[q].kind]
            /\ head[q].done \in Nat /\ head[q].done <= Len(PlanOf[head[q].kind])
        BY <3>2, Known DEF Right
      <4>2. Len(PlanOf[head[q].kind]) \in Nat
        <5>1. Len(PlanOf[head[q].kind]) \in 0 .. MaxStages
          BY <4>1, PlanFacts DEF Planned
        <5>2. QED
          BY <5>1 DEF MaxStages
      <4>3. \A i \in 1 .. head[q].done : Stages(q)[i] # "update-draft"
        <5>1. \A i \in 1 .. Len(PlanOf[head[q].kind]) : PlanOf[head[q].kind][i] # "update-draft"
          BY <4>1, PlanFacts DEF Planned
        <5>2. \A i \in 1 .. head[q].done : i \in 1 .. Len(PlanOf[head[q].kind])
          BY <4>1, <4>2
        <5>3. QED
          BY <4>1, <5>1, <5>2
      <4>4. head[q].state = "saved"
        BY <2>2, <4>3 DEF Editable
      <4>5. QED
        BY <3>2, <4>4
    <3>3. QED
      BY <3>1, <3>2
  <2>7. Rooted'
    <3>1. SUFFICES ASSUME NEW p \in Operations, head'[p].previous # None
                   PROVE  \E r \in Operations : /\ head'[r].writer = head'[p].writer
                            /\ head'[r].state = "saved" /\ head'[r].previous = None
      BY DEF Rooted
    <3>2. \E r \in Operations : /\ head[r].writer = head'[p].writer
                                /\ head[r].state = "saved" /\ head[r].previous = None
      <4>1. CASE p = o
        BY <2>2, <2>6, <4>1
      <4>2. CASE p # o
        BY <2>2, <3>1, <4>2 DEF FamilyInv, Rooted
      <4>3. QED
        BY <4>1, <4>2
    <3>3. PICK r \in Operations : /\ head[r].writer = head'[p].writer
                                  /\ head[r].state = "saved" /\ head[r].previous = None
      BY <3>2
    <3>4. head'[r] = head[r]
      BY <2>2, <2>3, <3>3
    <3>5. QED
      BY <3>3, <3>4
  <2>8. OneRoot'
    <3>1. SUFFICES ASSUME NEW x \in Operations, NEW p \in Operations, x # p,
                          head'[x].writer = head'[p].writer, head'[x].previous = None, head'[p].previous = None,
                          Alive(x)', Alive(p)'
                   PROVE  FALSE
      BY DEF OneRoot
    <3>2. x # o /\ p # o
      BY <2>2, <3>1, MailAssumption DEF Drafts
    <3>3. QED
      BY <2>2, <3>1, <3>2 DEF Alive, FamilyInv, OneRoot
  <2>9. OneDraft'
    <3>1. SUFFICES ASSUME NEW x \in Operations, NEW p \in Operations,
                          head'[x].writer = head'[p].writer, Alive(x)', head'[p].previous # None
                   PROVE  head'[x].draft = head'[p].draft
      BY DEF OneDraft
    <3>2. CASE x = o /\ p # o
      <4>1. head[q].writer = head[p].writer /\ head[p].previous # None /\ head'[p] = head[p]
        BY <2>2, <3>1, <3>2
      <4>2. head[q].draft = head[p].draft
        BY <2>3, <4>1 DEF FamilyInv, OneDraft
      <4>3. QED
        BY <2>2, <3>2, <4>1, <4>2
    <3>3. CASE x # o /\ p = o
      <4>1. head[x].writer = head[q].writer /\ Alive(x) /\ head'[x] = head[x]
        BY <2>2, <3>1, <3>3 DEF Alive
      <4>2. head[x].draft = head[q].draft
        <5>1. CASE head[q].previous # None
          BY <4>1, <5>1 DEF FamilyInv, OneDraft
        <5>2. CASE head[q].previous = None /\ head[x].previous = None
          BY <2>3, <4>1, <5>2 DEF FamilyInv, OneRoot
        <5>3. CASE head[x].previous # None
          BY <2>3, <4>1, <5>3 DEF FamilyInv, OneDraft
        <5>4. QED
          BY <5>1, <5>2, <5>3
      <4>3. QED
        BY <2>2, <3>3, <4>1, <4>2
    <3>4. CASE x # o /\ p # o
      BY <2>2, <3>1, <3>4 DEF Alive, FamilyInv, OneDraft
    <3>5. QED
      BY <3>2, <3>3, <3>4
  <2>10. QED
    BY <2>5, <2>7, <2>8, <2>9 DEF FamilyInv
<1>3. CASE ~(\E o \in Operations : Prepare(o) \/ PrepareNext(o))
  <2>1. ASSUME NEW x \in Operations
        PROVE  /\ head'[x].writer = head[x].writer /\ head'[x].previous = head[x].previous
               /\ (Alive(x)' => Alive(x)) /\ (head[x].state = "saved" => head'[x].state = "saved")
               /\ (head[x].draft # None => head'[x].draft = head[x].draft)
    <3>1. CASE head[x].state = "none"
      BY <1>3, <3>1, HeadMoves DEF Alive
    <3>2. CASE head[x].state # "none"
      BY <3>2, HeadMoves, StateMoves DEF Alive, Grows
    <3>3. QED
      BY <3>1, <3>2
  <2>2. Topped'
    BY <2>1 DEF FamilyInv, Topped
  <2>3. Rooted'
    BY <2>1 DEF FamilyInv, Rooted
  <2>4. OneRoot'
    BY <2>1 DEF FamilyInv, OneRoot
  <2>5. OneDraft'
    <3>1. SUFFICES ASSUME NEW x \in Operations, NEW p \in Operations,
                          head'[x].writer = head'[p].writer, Alive(x)', head'[p].previous # None
                   PROVE  head'[x].draft = head'[p].draft
      BY DEF OneDraft
    <3>2. head[x].draft = head[p].draft /\ head[p].previous # None
      BY <2>1, <3>1 DEF FamilyInv, OneDraft
    <3>3. head[p].draft # None
      BY <3>2, Known DEF Right
    <3>4. QED
      BY <2>1, <3>2, <3>3
  <2>6. QED
    BY <2>2, <2>3, <2>4, <2>5 DEF FamilyInv
<1>4. QED
  BY <1>1, <1>2, <1>3

-----------------------------------------------------------------------------
(* One send.                                                               *)

\* A next version at work owns its draft.
Runs == \A o \in Operations : head[o].kind \in Following /\ Working(o) => OwnsDraft(o)

\* Every step keeps it: a revision waits until nothing of its draft is working.
LEMMA RunsNext == ASSUME Inv, OwnedInv, Runs, [Next]_vars PROVE Runs'
<1>1. SUFFICES ASSUME NEW o \in Operations, head'[o].kind \in Following, Working(o)' PROVE OwnsDraft(o)'
  BY DEF Runs
<1>2. Inv' /\ Grounded /\ Owned
  BY NextInv DEF OwnedInv
<1>3. CASE Working(o)
  <2>1. head[o].state # "none"
    BY <1>3 DEF Working
  <2>2. head[o].kind \in Following
    BY <1>1, <2>1, HeadMoves DEF Grows
  <2>3. head[o].draft # None /\ OwnsDraft(o)
    BY <1>3, <2>2, KindStays, MailAssumption DEF Runs
  <2>4. QED
    BY <1>1, <1>2, <1>3, <2>3, KeepsNext
<1>4. CASE ~Working(o)
  <2>1. Confirm(o)
    BY <1>1, <1>4, StateMoves
  <2>2. /\ OwnsDraft(o) /\ owner' = owner /\ head[o].state # "none"
        /\ head' = [head EXCEPT ![o] = [head[o] EXCEPT !.state = "running"]]
    BY <2>1 DEF Confirm, Confirmable, Become
  <2>3. head'[o].state = "running" /\ head'[o].draft = head[o].draft
    BY <2>2, Known DEF Inv, TypeOK, Record
  <2>4. PICK d \in Drafts \cup {None} : d = head[o].draft
    BY Fields
  <2>5. CASE d = None
    BY <2>3, <2>4, <2>5 DEF OwnsDraft
  <2>6. CASE d # None
    <3>1. PICK x \in Operations : x = owner[d]
      BY <1>2, <2>4, <2>6 DEF Owned, Inv, TypeOK
    <3>2. Returned[x] = o
      <4>1. Returned[x] # None /\ x # None
        BY <1>2, ReturnedType, MailAssumption DEF Drafts
      <4>2. DraftOwner(d) = Returned[x] /\ DraftOwner(d) \in {o, None}
        BY <2>2, <2>4, <2>6, <3>1, <4>1 DEF OwnsDraft, DraftOwner
      <4>3. QED
        BY <4>1, <4>2
    <3>3. Returned'[x] = o
      BY <1>2, <2>3, <3>2, ReturnedStays DEF GivenUp
    <3>4. OwnsDraft(o)' <=> (head'[o].draft # None =>
            (IF owner'[head'[o].draft] = None THEN None ELSE Returned'[owner'[head'[o].draft]]) \in {o, None})
      BY DEF OwnsDraft, DraftOwner
    <3>5. QED
      BY <2>2, <2>3, <2>4, <3>1, <3>3, <3>4
  <2>7. QED
    BY <2>5, <2>6
<1>5. QED
  BY <1>3, <1>4

\* A next version that has read its draft again did so after whatever was sent of it.
Fresh ==
  \A o, p \in Operations :
    /\ o # p /\ head[o].kind \in Following /\ head[p].kind \in Posting
    /\ head[o].draft = head[p].draft
    /\ head[o].state = "running" /\ job[o].pc = "ready"
    /\ landed[p][Len(PlanOf[head[p].kind])] = 1
    => job[o].tag = 0

\* Only Read makes a function ready for its next request.
LEMMA ReadyMoves ==
  ASSUME Inv, [Next]_vars, NEW o \in Operations, head'[o].state = "running", job'[o].pc = "ready"
  PROVE  Read(o) \/ (head[o].state = "running" /\ job[o].pc = "ready" /\ job'[o].tag = job[o].tag)
<1>1. head \in [Operations -> Record] /\ head[o] \in Record /\ job \in [Operations -> Job] /\ job[o] \in Job
  BY Known DEF Inv, TypeOK
<1>2. Idle.pc = "idle"
  BY DEF Idle
<1>3. CASE \E p \in Operations : Request(p) \/ Work(p)
  <2>1. PICK p \in Operations : Request(p) \/ Work(p)
    BY <1>3
  <2>2. CASE p # o
    BY <2>1, <2>2, OnlyMine
  <2>3. CASE Prepare(o) \/ PrepareNext(o)
    BY <2>3, BornJob
  <2>4. CASE Answered(o)
    BY <2>4, AnsweredFields
  <2>5. CASE Check(o) \/ Confirm(o) \/ Dispatch(o)
    <3>1. job' = [job EXCEPT ![o].pc = "checking"] \/ job' = [job EXCEPT ![o].pc = "reading"]
          \/ job' = [job EXCEPT ![o].pc = "call"]
      BY <2>5 DEF Check, Confirm, Dispatch, Go
    <3>2. QED
      BY <1>1, <3>1 DEF Job
  <2>6. CASE ReadDraft(o)
    BY <2>6 DEF ReadDraft
  <2>7. CASE Read(o)
    BY <2>7
  <2>8. CASE Cancel(o)
    <3>1. head' = [head EXCEPT ![o] = [head[o] EXCEPT !.state = "cancelled"]]
      BY <2>8 DEF Cancel, Become
    <3>2. QED
      BY <1>1, <3>1, StateFields DEF States
  <2>9. CASE Prepared(o) \/ Opened(o) \/ NotPrepared(o) \/ Finish(o) \/ Fail(o) \/ Found(o) \/ NotFound(o)
    <3>1. job'[o] = Idle
      BY <1>1, <2>9 DEF Prepared, Opened, NotPrepared, Finish, Fail, Found, NotFound, End
    <3>2. QED
      BY <1>2, <3>1
  <2>10. QED
    BY <2>1, <2>2, <2>3, <2>4, <2>5, <2>6, <2>7, <2>8, <2>9 DEF Request, Work
<1>4. CASE \E i \in 1 .. Len(wire) : Land(i)
  <2>1. PICK c, p, s, d : c \in Pending /\ Landing(c, p, s, d)
    <3>1. \E c \in Pending : \E p, s, d : Landing(c, p, s, d)
      BY <1>4, LandIs
    <3>2. QED
      BY <3>1
  <2>2. p = c.op /\ head' = head /\ job'[p].pc = job[p].pc /\ \A r \in Operations : r # p => job'[r] = job[r]
    BY <2>1 DEF Landing, LandingStage
  <2>3. CASE p = o
    <3>1. head[o].attempted
      BY <2>1, <2>2, <2>3, AwaitedStage
    <3>2. head[o].state = "running" /\ job[o].pc = "ready"
      BY <2>2, <2>3
    <3>3. QED
      BY <3>1, <3>2, Known DEF Right
  <2>4. CASE p # o
    BY <2>2, <2>4
  <2>5. QED
    BY <2>3, <2>4
<1>5. CASE \E i \in 1 .. Len(wire) : Refuse(i)
  <2>1. PICK i \in 1 .. Len(wire) : Refuse(i)
    BY <1>5
  <2>2. head' = head /\ (job' = job \/ job' = [job EXCEPT ![wire[i].op].pc = "refused"])
    BY <2>1 DEF Refuse
  <2>3. job'[o] = job[o] \/ job'[o].pc = "refused"
    BY <1>1, <2>2 DEF Job
  <2>4. QED
    BY <2>2, <2>3
<1>6. CASE Restart
  <2>1. job'[o] = Idle
    BY <1>6 DEF Restart
  <2>2. QED
    BY <1>2, <2>1
<1>7. CASE (\E d \in Drafts : Edit(d)) \/ Close \/ Hold \/ Connect \/ UNCHANGED vars
  <2>1. UNCHANGED <<head, job>>
    BY <1>7 DEF Edit, Close, Hold, Connect, vars, service
  <2>2. QED
    BY <2>1
<1>8. QED
  BY <1>3, <1>4, <1>5, <1>6, <1>7 DEF Next

\* Every step keeps it.
LEMMA FreshNext == ASSUME Inv, VersionInv, OwnedInv, Runs, Fresh, [Next]_vars PROVE Fresh'
<1>1. SUFFICES ASSUME NEW o \in Operations, NEW p \in Operations,
                      o # p, head'[o].kind \in Following, head'[p].kind \in Posting,
                      head'[o].draft = head'[p].draft, head'[o].state = "running", job'[o].pc = "ready",
                      landed'[p][Len(PlanOf'[head'[p].kind])] = 1
               PROVE  job'[o].tag = 0
  BY DEF Fresh
<1>2. PICK k \in Posting : k = head'[p].kind
  BY <1>1
<1>3. PICK N \in 1 .. MaxStages : N = Len(PlanOf[k])
  BY <1>2, PostPlan
<1>4. k \in Following /\ landed'[p][N] = 1
  BY <1>1, <1>2, <1>3, PostPlan, ScenarioStays
<1>5. head[p].kind \in Following /\ head[o].kind \in Following
  BY <1>1, <1>2, <1>3, <1>4, NewFollowing
<1>6. PICK d \in Drafts : d = head[o].draft
  BY <1>5, KindStays
<1>7. head[p].draft = d /\ head[p].kind = k /\ d # None
  BY <1>1, <1>2, <1>5, <1>6, KindStays, MailAssumption
<1>8. CASE Read(o)
  <2>1. landed[p][N] = 1
    <3>1. landed' = landed
      BY <1>8 DEF Read, provider
    <3>2. QED
      BY <1>4, <3>1
  <2>2. version[d] = 0
    BY <1>2, <1>3, <1>7, <2>1 DEF VersionInv, Gone
  <2>3. job' = [job EXCEPT ![o] = [job[o] EXCEPT !.pc = "ready", !.tag = IF Reads(Stage(o)) THEN version[d] ELSE 0]]
    BY <1>6, <1>8 DEF Read, Inv, TypeOK
  <2>4. job'[o].tag = 0
    BY <2>2, <2>3, Known DEF Inv, TypeOK, Job
  <2>5. QED
    BY <2>4
<1>9. CASE head[o].state = "running" /\ job[o].pc = "ready" /\ job'[o].tag = job[o].tag
  <2>1. CASE landed[p][N] = 1
    BY <1>1, <1>2, <1>3, <1>5, <1>6, <1>7, <1>9, <2>1 DEF Fresh
  <2>2. CASE landed[p][N] # 1
    <3>1. landed[p][N] = 0
      BY <1>3, <2>2, Known DEF Covered
    <3>2. PICK c, s, e : c \in Pending /\ c.op = p /\ Landing(c, p, s, e)
      BY <1>3, <1>4, <3>1, LandedBy
    <3>3. InWire(p) /\ OwnsDraft(p)
      BY <3>2 DEF Pending, InWire, OwnedInv, Hands
    <3>4. OwnsDraft(o)
      BY <1>5, <1>9 DEF Runs, Working
    <3>5. QED
      BY <1>1, <1>6, <1>7, <3>3, <3>4, OneOwner
  <2>3. QED
    BY <2>1, <2>2
<1>10. QED
  BY <1>1, <1>8, <1>9, ReadyMoves

\* Its sending took place, or is under way.
Sent(o) ==
  /\ head[o].kind \in Sends
  /\ LET n == Len(PlanOf[head[o].kind]) IN
     landed[o][n] = 1 \/ \E c \in Pending : c.op = o /\ c.stage = n

\* One live operation of a writing sends.
Sole ==
  \A o, p \in Operations :
    o # p /\ head[o].writer = head[p].writer /\ Alive(o) /\ Alive(p) => ~Sent(o) \/ ~Sent(p)

\* What sends ends with it.
LEMMA SendPlan ==
  ASSUME NEW k \in AllKinds, k \in Sends
  PROVE  /\ Len(PlanOf[k]) \in 1 .. MaxStages /\ k \in Kinds
         /\ k = "send" \/ k \in Posting
         /\ k = "send" => k \notin Following
<1>1. k \in {"send", "post", "post-files"} /\ k \in Kinds
  BY DEF Sends, Kinds, First, Following
<1>2. Len(PlanOf[k]) # 0 /\ Len(PlanOf[k]) \in 0 .. MaxStages
  BY <1>1, PlanFacts DEF Planned, None
<1>3. Len(PlanOf[k]) \in 1 .. MaxStages
  BY <1>2 DEF MaxStages
<1>4. QED
  BY <1>1, <1>3 DEF Posting, Following

\* An operation comes to send by the request of its last stage.
LEMMA SentMoves ==
  ASSUME Inv, [Next]_vars, NEW o \in Operations, Sent(o)', ~Sent(o)
  PROVE  Dispatch(o) /\ head[o].kind \in Sends /\ head[o].done + 1 = Len(PlanOf[head[o].kind])
<1>1. PICK k : k = head'[o].kind
  OBVIOUS
<1>2. k \in Sends /\ k \in AllKinds
  BY <1>1 DEF Sent, Sends, AllKinds, Kinds, First, Following
<1>3. PICK N \in 1 .. MaxStages : N = Len(PlanOf[k])
  BY <1>2, SendPlan
<1>4. landed'[o][N] = 1 \/ \E c \in Pending' : c.op = o /\ c.stage = N
  BY <1>1, <1>3, ScenarioStays DEF Sent
<1>5. CASE head[o].state # "none"
  <2>1. head[o].kind = k
    BY <1>1, <1>5, HeadMoves DEF Grows
  <2>2. landed[o][N] # 1 /\ ~(\E c \in Pending : c.op = o /\ c.stage = N)
    BY <1>2, <1>3, <2>1 DEF Sent
  <2>3. landed'[o][N] # 1
    <3>1. SUFFICES ASSUME landed'[o][N] = 1 PROVE FALSE
      OBVIOUS
    <3>2. landed[o][N] = 0
      BY <1>3, <2>2, Known DEF Covered
    <3>3. QED
      BY <1>3, <2>2, <3>1, <3>2, LandedBy
  <2>4. PICK c \in Pending' : c.op = o /\ c.stage = N
    BY <1>4, <2>3
  <2>5. PICK p \in Operations : Dispatch(p) /\ c.op = p /\ c.stage = head[p].done + 1
    BY <2>2, <2>4, PendingGrows
  <2>6. QED
    BY <1>2, <1>3, <2>1, <2>4, <2>5
<1>6. CASE head[o].state = "none"
  <2>1. head[o].kind = None /\ head[o].done = 0 /\ head[o].attempted = FALSE
    BY <1>6, Begun, NoHeadFields
  <2>2. None \notin Sends
    BY DEF Sends, None
  <2>3. Prepare(o) \/ PrepareNext(o)
    BY <1>1, <1>2, <1>6, <2>1, <2>2, HeadMoves
  <2>4. landed' = landed /\ wire' = wire
    BY <2>3 DEF Prepare, PrepareNext, provider
  <2>5. landed[o][N] # 1
    <3>1. Covered(o)
      BY Known
    <3>2. landed[o][N] = 1 => N <= 0
      BY <1>3, <2>1, <3>1 DEF Covered
    <3>3. QED
      BY <1>3, <3>2
  <2>6. ~InWire(o)
    BY <2>1, LandedIsOver
  <2>7. QED
    BY <1>4, <2>4, <2>5, <2>6 DEF InWire, Pending
<1>7. QED
  BY <1>5, <1>6

SendInv == VersionInv /\ OwnedInv /\ FamilyInv /\ Runs /\ Fresh /\ Sole

\* Nothing of a writing is sent when another of its operations did, or may have.
LEMMA Alone ==
  ASSUME Inv, SendInv, NEW o \in Operations, Dispatch(o), head[o].kind \in Sends,
         NEW p \in Operations, o # p, head[o].writer = head[p].writer, Alive(p), Sent(p)
  PROVE  FALSE
<1>1. Alive(o) /\ head[o].state = "running" /\ job[o].pc = "ready" /\ OwnsDraft(o) /\ Left(o)
      /\ (Reads(Stage(o)) => job[o].tag > 0)
  BY Known DEF Dispatch, MayCall, Alive, GivenUp, Right
<1>2. head[o].kind \in AllKinds /\ head[p].kind \in AllKinds /\ head[p].kind \in Sends
  BY Known DEF Sent
<1>3. CASE head[o].kind = "send"
  <2>1. head[o].previous = None
    <3>1. head[o].kind \notin Following
      BY <1>2, <1>3, SendPlan
    <3>2. QED
      BY <3>1, Known DEF Right
  <2>2. CASE head[p].previous = None
    BY <1>1, <2>1, <2>2 DEF SendInv, FamilyInv, OneRoot
  <2>3. CASE head[p].previous # None
    <3>1. PICK r \in Operations : /\ head[r].writer = head[p].writer
                                  /\ head[r].state = "saved" /\ head[r].previous = None
      BY <2>3 DEF SendInv, FamilyInv, Rooted
    <3>2. Alive(r) /\ r # o
      BY <1>1, <3>1 DEF Alive, GivenUp
    <3>3. QED
      BY <1>1, <2>1, <3>1, <3>2 DEF SendInv, FamilyInv, OneRoot
  <2>4. QED
    BY <2>2, <2>3
<1>4. CASE head[o].kind # "send"
  <2>1. head[o].kind \in Posting /\ head[o].kind \in Following
    BY <1>2, <1>4, SendPlan, PostPlan
  <2>2. head[o].previous # None /\ head[o].draft # None
    BY <2>1, Known DEF Right
  <2>3. head[p].draft = head[o].draft
    BY <2>2 DEF SendInv, FamilyInv, OneDraft
  <2>4. head[p].kind # "send"
    BY <2>2, <2>3, Known DEF Right
  <2>5. head[p].kind \in Posting
    BY <1>2, <2>4, SendPlan
  <2>6. ~InWire(p)
    <3>1. SUFFICES ASSUME InWire(p) PROVE FALSE
      OBVIOUS
    <3>2. OwnsDraft(p)
      BY <3>1 DEF SendInv, OwnedInv, Hands
    <3>3. QED
      BY <1>1, <2>2, <2>3, <3>2, OneOwner DEF SendInv
  <2>7. landed[p][Len(PlanOf[head[p].kind])] = 1
    BY <2>6 DEF Sent, InWire, Pending
  <2>8. job[o].tag = 0
    BY <1>1, <2>1, <2>3, <2>5, <2>7 DEF SendInv, Fresh
  <2>9. Reads(Stage(o))
    <3>1. head[o].done + 1 \in 1 .. Len(PlanOf[head[o].kind]) /\ Stage(o) = PlanOf[head[o].kind][head[o].done + 1]
      BY <1>1, Known
    <3>2. QED
      BY <1>2, <2>1, <3>1, PlanFacts DEF Planned
  <2>10. QED
    BY <1>1, <2>8, <2>9
<1>5. QED
  BY <1>3, <1>4

\* Every step keeps it.
LEMMA SoleNext == ASSUME Inv, SendInv, [Next]_vars PROVE Sole'
<1>1. SUFFICES ASSUME NEW o \in Operations, NEW p \in Operations, o # p,
                      head'[o].writer = head'[p].writer, Alive(o)', Alive(p)', Sent(o)', Sent(p)'
               PROVE  FALSE
  BY DEF Sole
<1>2. ASSUME NEW q \in Operations, head[q].state # "none", Alive(q)'
      PROVE  Alive(q) /\ head'[q].writer = head[q].writer
  BY <1>2, HeadMoves DEF Alive, Grows
<1>3. ASSUME NEW q \in Operations, head[q].kind \in Sends PROVE head[q].state # "none"
  <2>1. SUFFICES ASSUME head[q].state = "none" PROVE FALSE
    OBVIOUS
  <2>2. head[q].kind = None
    BY <2>1, Begun, NoHeadFields
  <2>3. QED
    BY <1>3, <2>2 DEF Sends, None
<1>4. ASSUME NEW q \in Operations, Sent(q)' PROVE head[q].kind \in Sends /\ (Sent(q) \/ Dispatch(q))
  BY <1>4, SentMoves DEF Sent
<1>5. /\ Alive(o) /\ Alive(p) /\ head[o].writer = head[p].writer
      /\ head[o].kind \in Sends /\ head[p].kind \in Sends
  BY <1>1, <1>2, <1>3, <1>4
<1>6. CASE Sent(o) /\ Sent(p)
  BY <1>1, <1>5, <1>6 DEF SendInv, Sole
<1>7. CASE Sent(p) /\ Dispatch(o)
  BY <1>1, <1>5, <1>7, Alone
<1>8. CASE Sent(o) /\ Dispatch(p)
  BY <1>1, <1>5, <1>8, Alone
<1>9. CASE Dispatch(o) /\ Dispatch(p)
  <2>1. /\ head' = [head EXCEPT ![o] = [head[o] EXCEPT !.attempted = TRUE]]
        /\ head' = [head EXCEPT ![p] = [head[p] EXCEPT !.attempted = TRUE]]
        /\ head[p].state = "running" /\ job[p].pc = "ready"
    BY <1>9 DEF Dispatch, Become
  <2>2. head[p].attempted = FALSE
    BY <2>1, Known, Fields DEF Right
  <2>3. head'[p] = head[p]
    BY <1>1, <2>1 DEF Inv, TypeOK
  <2>4. head'[p].attempted = TRUE
    BY <2>1, Known DEF Inv, TypeOK, Record
  <2>5. QED
    BY <2>2, <2>3, <2>4
<1>10. QED
  BY <1>1, <1>4, <1>6, <1>7, <1>8, <1>9

\* What the one send rests on holds of every behaviour.
LEMMA MailSends == Spec => []SendInv
<1>1. Init => Topped /\ Rooted /\ OneRoot /\ OneDraft /\ Runs /\ Fresh /\ Sole
  <2>1. SUFFICES ASSUME Init PROVE Topped /\ Rooted /\ OneRoot /\ OneDraft /\ Runs /\ Fresh /\ Sole
    OBVIOUS
  <2>2. \A o \in Operations : head[o].previous = None /\ head[o].state = "none" /\ head[o].kind = None
    BY <2>1, NoHeadFields DEF Init
  <2>3. None \notin Operations /\ None \notin Following
    BY MailAssumption DEF Drafts, Following, None
  <2>4. QED
    BY <2>2, <2>3 DEF Topped, Rooted, OneRoot, OneDraft, Runs, Fresh, Sole, Alive
<1>2. Inv /\ KinInv /\ VersionInv /\ OwnedInv /\ FamilyInv /\ Runs /\ Fresh /\ Sole /\ [Next]_vars
        => FamilyInv' /\ Runs' /\ Fresh' /\ Sole'
  BY FamilyNext, RunsNext, FreshNext, SoleNext DEF SendInv
<1>3. Init => FamilyInv /\ Runs /\ Fresh /\ Sole
  BY <1>1 DEF FamilyInv
<1>4. VersionInv /\ OwnedInv /\ FamilyInv /\ Runs /\ Fresh /\ Sole => SendInv
  BY DEF SendInv
<1>5. QED
  BY <1>2, <1>3, <1>4, MailInv, MailKin, MailVersions, MailOwned, PTL DEF Spec

\* What an operation sends, as the property counts it.
LEMMA SendingIsSent ==
  ASSUME Inv, NEW o \in Operations, NEW x \in Sending(o), head[o].state = "cancelled" => Left(o)
  PROVE  Sent(o) /\ Alive(o) /\ x = <<o, Len(PlanOf[head[o].kind])>>
<1>1. PICK k \in AllKinds : k = head[o].kind /\ Stages(o) = PlanOf[k]
  BY Known
<1>2. PICK i : /\ x = <<o, i>> /\ i \in DOMAIN Stages(o) /\ Stages(o)[i] \in {"send", "send-draft"}
               /\ landed[o][i] > 0 \/ \E n \in DOMAIN wire : wire[n].op = o /\ wire[n].stage = i
  BY DEF Sending
<1>3. /\ PlanOf[k] \in Seq(StageNames) /\ Len(PlanOf[k]) \in 0 .. MaxStages
      /\ \A j \in 1 .. Len(PlanOf[k]) : PlanOf[k][j] \in {"send", "send-draft"} <=> j > Saves(PlanOf, k)
  BY PlanFacts DEF Planned
<1>4. i \in 1 .. Len(PlanOf[k]) /\ i > Saves(PlanOf, k)
  BY <1>1, <1>2, <1>3
<1>5. PICK N \in 0 .. MaxStages : N = Len(PlanOf[k])
  BY <1>3
<1>6. i \in 1 .. N /\ i > (IF k \in Sends THEN N - 1 ELSE N)
  BY <1>4, <1>5 DEF Saves
<1>7. k \in Sends /\ i = N /\ N \in 1 .. MaxStages
  <2>1. N \in 0 .. 3
    BY <1>5 DEF MaxStages
  <2>2. k \in Sends /\ i = N /\ N \in 1 .. 3
    BY <1>6, <2>1
  <2>3. QED
    BY <2>2 DEF MaxStages
<1>8. landed[o][N] = 1 \/ \E c \in Pending : c.op = o /\ c.stage = N
  <2>1. landed[o][N] \in {0, 1}
    BY <1>7, Known DEF Covered
  <2>2. DOMAIN wire = 1 .. Len(wire)
    BY DEF Inv, TypeOK
  <2>3. QED
    BY <1>2, <1>7, <2>1, <2>2 DEF Pending
<1>9. Sent(o)
  BY <1>1, <1>5, <1>7, <1>8 DEF Sent
<1>10. Alive(o)
  <2>1. head[o].attempted => head[o].state \in {"running", "uncertain"}
    BY Known DEF Right
  <2>2. SUFFICES ASSUME ~head[o].attempted, head[o].state \in {"none", "failed", "cancelled"} PROVE FALSE
    BY <2>1 DEF Alive, GivenUp
  <2>3. ~(\E c \in Pending : c.op = o)
    BY <2>2, AwaitedStage
  <2>4. N <= head[o].done
    BY <1>7, <1>8, <2>2, <2>3, Known DEF Covered
  <2>5. head[o].state \in {"none", "failed"} => head[o].done = 0
    BY Known, Begun DEF Right
  <2>6. head[o].state = "cancelled" => head[o].done < N
    BY <1>1, <1>5, Known
  <2>7. head[o].done \in Nat
    BY Known
  <2>8. QED
    BY <1>7, <2>2, <2>4, <2>5, <2>6, <2>7
<1>11. QED
  BY <1>1, <1>2, <1>5, <1>7, <1>9, <1>10

\* One send for all operations of a writing is one send of the writing.
LEMMA OneSendNow == ASSUME Inv, Sole PROVE OneSendPerWriting
<1>1. SUFFICES ASSUME NEW w \in Writers
               PROVE  Cardinality(UNION {Sending(o) : o \in {p \in Operations :
                        head[p].writer = w /\ (head[p].state = "cancelled" => Left(p))}}) <= 1
  BY DEF OneSendPerWriting
<1> DEFINE U == UNION {Sending(o) : o \in {p \in Operations :
                  head[p].writer = w /\ (head[p].state = "cancelled" => Left(p))}}
<1>2. ASSUME NEW x \in U, NEW y \in U PROVE x = y
  <2>1. PICK o \in Operations : x \in Sending(o) /\ head[o].writer = w /\ (head[o].state = "cancelled" => Left(o))
    OBVIOUS
  <2>2. PICK p \in Operations : y \in Sending(p) /\ head[p].writer = w /\ (head[p].state = "cancelled" => Left(p))
    OBVIOUS
  <2> HIDE DEF U
  <2>3. /\ Sent(o) /\ Alive(o) /\ x = <<o, Len(PlanOf[head[o].kind])>>
        /\ Sent(p) /\ Alive(p) /\ y = <<p, Len(PlanOf[head[p].kind])>>
    BY <2>1, <2>2, SendingIsSent
  <2>4. o = p
    BY <2>1, <2>2, <2>3 DEF Sole
  <2>5. QED
    BY <2>3, <2>4
<1> HIDE DEF U
<1>3. CASE U = {}
  <2>1. Cardinality(U) = 0
    BY <1>3, FS_EmptySet
  <2>2. QED
    BY <2>1 DEF U
<1>4. CASE U # {}
  <2>1. PICK x \in U : U = {x}
    BY <1>2, <1>4
  <2>2. Cardinality(U) = 1
    BY <2>1, FS_Singleton
  <2>3. QED
    BY <2>2 DEF U
<1>5. QED
  BY <1>3, <1>4

\* One kept message is sent to its recipients at most once.
THEOREM MailOneSendPerWriting == Spec => []OneSendPerWriting
<1>1. Inv /\ SendInv => OneSendPerWriting
  BY OneSendNow DEF SendInv
<1>2. QED
  BY <1>1, MailInv, MailSends, PTL

=============================================================================
