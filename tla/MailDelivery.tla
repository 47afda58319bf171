----------------------------- MODULE MailDelivery -----------------------------
(***************************************************************************)
(* Saved mail operations: an owner prepares a review of a draft or of a    *)
(* message, confirms it, and the service carries it out at the provider in *)
(* stages. Each stage is marked as attempted before its one request and    *)
(* completed by its answer. A request may take effect although its answer  *)
(* is lost; the operation is then uncertain, and only evidence read back   *)
(* from the provider settles it. Drafts can be edited outside, opened by   *)
(* another message, and are owned by one operation at a time.              *)
(*                                                                         *)
(* One account is modelled; its reconnection is `connected`. The content   *)
(* of a draft is represented by the operation that wrote it, its change    *)
(* key, etag and fingerprint by a version. A draft an operation creates is *)
(* identified by that operation. Expiry of a review only forbids           *)
(* confirming it, which nothing here requires to happen.                   *)
(***************************************************************************)
EXTENDS Integers, Sequences, FiniteSets

CONSTANTS
  Operations,   \* identities of operations
  Writers,      \* kept messages of the owner's devices
  MaxEdits,     \* bound: edits of drafts from outside
  Scenarios,    \* what each kind of behaviour looked at consists of: a provider, the
                \* kinds of operations asked for, and what the world does around them
  Outside       \* a draft made elsewhere, and whoever writes there

VARIABLES
  head,      \* durable: the record of each operation
  owner,     \* durable: the operation that last took each provider draft
  job,       \* the running function of each operation
  closed,    \* the service is closing
  held,      \* software update hold
  connected, \* the account is the one the operations were prepared for
  scenario,  \* bound: what this behaviour consists of
  wire,      \* requests under way at the provider, in no order
  landed,    \* how often each stage of each operation took effect
  version,   \* version of each provider draft; 0 where there is none
  content,   \* who wrote the content of each draft
  marker,    \* the operation whose marker each draft carries
  sent,      \* what each operation sent to recipients
  edits      \* edits from outside so far

service  == <<job, closed>>
world    == <<held, connected, scenario>>
provider == <<wire, landed, version, content, marker, sent, edits>>
vars     == <<head, owner, service, world, provider>>

Gmail == "google" \in scenario

\* The stages of an operation, by what was asked. A file change of an Outlook
\* draft is a stage of its own: it is marked, called and read back like one.
Plan(kind) ==
  CASE kind = "send"  -> <<"send">>
    [] kind = "draft" -> <<"create">>
    [] kind = "reply" -> IF Gmail THEN <<"create">>
                         ELSE <<"create-reply", "update-reply">>
    [] kind = "edit"  -> <<"update-draft">>
    [] kind = "files" -> <<"update-file", "update-file", "update-draft">>
    [] kind = "post"  -> IF Gmail THEN <<"send-draft">>
                         ELSE <<"update-draft", "send-draft">>
    [] kind = "post-files" -> <<"update-file", "update-draft", "send-draft">>
    [] OTHER -> <<>>

MaxStages == 3
First     == {"open", "send", "draft", "reply"}  \* kinds without a previous operation
Following == {"edit", "files", "post", "post-files"}
Kinds     == First \cup Following
Sends     == {"send", "post", "post-files"}
Drafts    == Operations \cup {Outside}

None == "none"

ASSUME MailAssumption ==
  /\ Outside \notin Operations /\ MaxEdits \in Nat
  /\ None \notin Drafts /\ None \notin Writers /\ "nothing" \notin Drafts
  /\ \A s \in Scenarios :
       /\ s \subseteq Kinds \cup {"google", "microsoft", "hold", "connect", "close", "restart"}
       /\ "google" \in s => s \cap {"files", "post-files"} = {}

States == {"none", "preparing", "prepared", "running", "saved", "accepted",
           "uncertain", "interrupted", "failed", "cancelled"}
Record == [state : States, kind : Kinds \cup {None}, writer : Writers \cup {None},
           previous : Operations \cup {None}, draft : Drafts \cup {None},
           done : 0 .. MaxStages, attempted : BOOLEAN, key : Nat]
Steps == {"idle", "reading", "ready", "call", "refused", "finish", "checking"}

\* What a running function has read: a draft, its version and its marker.
Job  == [pc : Steps, draft : Drafts \cup {None}, tag : Nat, marker : Operations \cup {None}]
Call == [op : Operations, stage : 1 .. MaxStages, tag : Nat]

NoHead == [state |-> "none", kind |-> None, writer |-> None, previous |-> None,
           draft |-> None, done |-> 0, attempted |-> FALSE, key |-> 0]
Idle == [pc |-> "idle", draft |-> None, tag |-> 0, marker |-> None]

Init ==
  /\ head = [o \in Operations |-> NoHead]
  /\ owner = [d \in Drafts |-> None]
  /\ job = [o \in Operations |-> Idle]
  /\ closed = FALSE /\ held = FALSE /\ connected = TRUE /\ scenario \in Scenarios
  /\ wire = <<>>
  /\ landed = [o \in Operations |-> [i \in 1 .. MaxStages |-> 0]]
  /\ version = [d \in Drafts |-> IF d = Outside THEN 1 ELSE 0]
  /\ content = [d \in Drafts |-> Outside] /\ marker = [d \in Drafts |-> None]
  /\ sent = [o \in Operations |-> "nothing"]
  /\ edits = 0

-----------------------------------------------------------------------------

Stages(o) == Plan(head[o].kind)
Stage(o)  == Stages(o)[head[o].done + 1]
Left(o)   == head[o].done < Len(Stages(o))
Final(o)  == IF head[o].kind \in Sends THEN "accepted" ELSE "saved"

GivenUp == {"failed", "cancelled"}
Settled == {"saved", "accepted", "failed", "cancelled"}

\* The operation a draft belongs to: the last to take it, or the one before
\* if that was given up.
Returned[o \in Operations] ==
  IF head[o].state \in GivenUp /\ head[o].previous # None
  THEN Returned[head[o].previous] ELSE o

DraftOwner(d) == IF owner[d] = None THEN None ELSE Returned[owner[d]]

\* A draft is remembered as an operation's own unless it belongs to another.
Remembered(o, d) ==
  IF d # None /\ DraftOwner(d) \in {None, o} THEN [owner EXCEPT ![d] = o] ELSE owner

OwnsDraft(o) == head[o].draft # None => DraftOwner(head[o].draft) \in {o, None}

\* The live operations of one kept message, and those without a live successor;
\* the code takes the first it finds of these as the newest.
Lineage(w) == {o \in Operations : head[o].writer = w /\ head[o].state \notin GivenUp}
Tips(w)    == {o \in Lineage(w) : \A p \in Lineage(w) : head[p].previous # o}

Editable(o) ==
  /\ head[o].draft # None
  /\ \/ head[o].state = "saved"
     \/ /\ head[o].state = "interrupted" /\ ~head[o].attempted
        /\ \E i \in 1 .. head[o].done : Stages(o)[i] = "update-draft"

\* An operation's boundary with the provider, read again just before a request.
MayCall(o) == ~closed /\ connected /\ ~held /\ OwnsDraft(o)

Become(o, h)  == head' = [head EXCEPT ![o] = h]
Go(o, pc)     == job' = [job EXCEPT ![o].pc = pc]
End(o)        == job' = [job EXCEPT ![o] = Idle]

-----------------------------------------------------------------------------
(* The owner's requests.                                                   *)

\* prepare and openDraft of a writing that has no live operation yet; a draft
\* can only be opened by a writer that was never used.
Prepare(o) ==
  /\ ~closed /\ connected /\ head[o] = NoHead
  /\ \E k \in First \cap scenario, w \in Writers :
       /\ Tips(w) = {}
       /\ k = "open" => \A p \in Operations : head[p].writer # w
       /\ Become(o, [NoHead EXCEPT !.state = "preparing", !.kind = k, !.writer = w])
  /\ Go(o, "reading")
  /\ UNCHANGED <<owner, closed, world, provider>>

\* Fault: the admission trusts the reading made before it.
PrepareNextOld(o) ==
  /\ ~closed /\ connected /\ head[o] = NoHead
  /\ \E k \in Following \cap scenario, p \in Operations :
       /\ Editable(p)
       /\ Become(o, [NoHead EXCEPT !.state = "preparing", !.kind = k, !.previous = p,
                       !.writer = head[p].writer, !.draft = head[p].draft])
       /\ owner' = [owner EXCEPT ![head[p].draft] = o]
  /\ Go(o, "reading")
  /\ UNCHANGED <<closed, world, provider>>

\* prepare of a saved draft's next version; it takes the draft over.
PrepareNext(o) ==
  /\ ~closed /\ connected /\ head[o] = NoHead
  /\ \E k \in Following \cap scenario, p \in Operations :
       /\ Editable(p) /\ p \in Tips(head[p].writer) /\ OwnsDraft(p)
       /\ Become(o, [NoHead EXCEPT !.state = "preparing", !.kind = k, !.previous = p,
                       !.writer = head[p].writer, !.draft = head[p].draft])
       /\ owner' = [owner EXCEPT ![head[p].draft] = o]
  /\ Go(o, "reading")
  /\ UNCHANGED <<closed, world, provider>>

\* The draft to be reviewed or opened is read; the answer waits for its turn.
ReadDraft(o) ==
  /\ head[o].state = "preparing" /\ job[o].pc = "reading"
  /\ \E d \in IF head[o].kind = "open" THEN Drafts ELSE {head[o].draft} :
       /\ d # None => version[d] > 0
       /\ job' = [job EXCEPT ![o] =
            IF d = None THEN [Idle EXCEPT !.pc = "ready"]
            ELSE [pc |-> "ready", draft |-> d, tag |-> version[d], marker |-> marker[d]]]
  /\ UNCHANGED <<head, owner, closed, world, provider>>

\* The review is complete: it retains the draft as the provider showed it.
Prepared(o) ==
  /\ head[o].state = "preparing" /\ head[o].kind # "open"
  /\ job[o].pc = "ready" /\ ~closed /\ connected
  /\ Become(o, [head[o] EXCEPT !.state = "prepared", !.key = job[o].tag])
  /\ End(o)
  /\ UNCHANGED <<owner, closed, world, provider>>

\* Fault: only the marker of the draft is asked for its operation, not its owner.
OpenedUnowned(o) ==
  /\ head[o].state = "preparing" /\ head[o].kind = "open"
  /\ job[o].pc = "ready" /\ ~closed /\ connected
  /\ LET d == job[o].draft IN
     /\ \A p \in {job[o].marker} \cap Operations : head[p].state \in Settled
     /\ Become(o, [head[o] EXCEPT !.state = "saved", !.draft = d, !.key = job[o].tag])
     /\ owner' = [owner EXCEPT ![d] = o]
  /\ End(o)
  /\ UNCHANGED <<closed, world, provider>>

\* The draft is opened unless its owner, or the operation whose marker it
\* carries, is still unsettled.
Opened(o) ==
  /\ head[o].state = "preparing" /\ head[o].kind = "open"
  /\ job[o].pc = "ready" /\ ~closed /\ connected
  /\ LET d == job[o].draft IN
     /\ \A p \in {DraftOwner(d), job[o].marker} \cap Operations : head[p].state \in Settled
     /\ Become(o, [head[o] EXCEPT !.state = "saved", !.draft = d, !.key = job[o].tag])
     /\ owner' = [owner EXCEPT ![d] = o]
  /\ End(o)
  /\ UNCHANGED <<closed, world, provider>>

NotPrepared(o) ==
  /\ head[o].state = "preparing"
  /\ Become(o, [head[o] EXCEPT !.state = "failed"])
  /\ End(o)
  /\ UNCHANGED <<owner, closed, world, provider>>

Confirmable(o) == ~closed /\ job[o].pc = "idle" /\ head[o].state \in {"prepared", "interrupted"}

Confirm(o) ==
  /\ Confirmable(o) /\ OwnsDraft(o)
  /\ Become(o, [head[o] EXCEPT !.state = "running"])
  /\ Go(o, "reading")
  /\ UNCHANGED <<owner, closed, world, provider>>

Cancel(o) ==
  /\ Confirmable(o)
  /\ Become(o, [head[o] EXCEPT !.state = "cancelled"])
  /\ UNCHANGED <<owner, service, world, provider>>

\* Fault: only an interrupted operation can be checked.
CheckInterrupted(o) ==
  /\ ~closed /\ job[o].pc = "idle" /\ head[o].state = "interrupted"
  /\ Go(o, "checking")
  /\ UNCHANGED <<head, owner, closed, world, provider>>

\* reconcile: evidence is only ever read.
Check(o) ==
  /\ ~closed /\ job[o].pc = "idle" /\ head[o].state \in {"uncertain", "interrupted"}
  /\ Go(o, "checking")
  /\ UNCHANGED <<head, owner, closed, world, provider>>

-----------------------------------------------------------------------------
(* Carrying an operation out.                                              *)

\* The draft is read before a stage changes it.
Reads(s) == s \in {"update-draft", "send-draft", "update-reply", "update-file"}

Read(o) ==
  /\ head[o].state = "running" /\ job[o].pc = "reading" /\ Left(o)
  /\ job' = [job EXCEPT ![o].pc = "ready",
                         ![o].tag = IF Reads(Stage(o)) THEN version[head[o].draft] ELSE 0]
  /\ UNCHANGED <<head, owner, closed, world, provider>>

\* It must be the version reviewed, or left by the stage before. Then marker
\* and request follow without an await.
Dispatch(o) ==
  /\ head[o].state = "running" /\ job[o].pc = "ready" /\ MayCall(o)
  /\ Reads(Stage(o)) => job[o].tag > 0 /\ job[o].tag = head[o].key
  /\ Become(o, [head[o] EXCEPT !.attempted = TRUE])
  /\ wire' = Append(wire, [op |-> o, stage |-> head[o].done + 1, tag |-> job[o].tag])
  /\ Go(o, "call")
  /\ UNCHANGED <<owner, closed, world, landed, version, content, marker, sent, edits>>

\* An affirmative answer is retained even after a disconnection or close.
\* A draft just created has its operation's identity, and belongs to it.
Answered(o) ==
  /\ job[o].pc = "call" /\ landed[o][head[o].done + 1] > 0
  /\ LET d == IF Stage(o) \in {"create", "create-reply"} THEN o ELSE head[o].draft IN
     /\ Become(o, [head[o] EXCEPT !.attempted = FALSE, !.done = @ + 1, !.draft = d,
                                  !.key = job[o].tag])
     /\ owner' = Remembered(o, d)
  /\ Go(o, IF head[o].done + 1 < Len(Stages(o)) THEN "reading" ELSE "finish")
  /\ UNCHANGED <<closed, world, provider>>

Finish(o) ==
  /\ head[o].state = "running" /\ ~Left(o)
  /\ job[o].pc \in {"reading", "finish"}
  /\ Become(o, [head[o] EXCEPT !.state = Final(o)])
  /\ End(o)
  /\ UNCHANGED <<owner, closed, world, provider>>

\* The catch of execute. A known rejection took no effect; every other error
\* after the marker leaves the stage attempted.
Stopped(o) == IF head[o].done > 0 THEN "interrupted" ELSE "failed"

\* Fault: every error is taken for a rejection.
FailRejected(o) ==
  /\ head[o].state = "running"
  /\ job[o].pc \in {"reading", "ready", "call", "refused"}
  /\ Become(o, [head[o] EXCEPT !.state = Stopped(o), !.attempted = FALSE])
  /\ End(o)
  /\ UNCHANGED <<owner, closed, world, provider>>

Fail(o) ==
  /\ head[o].state = "running"
  /\ \/ /\ job[o].pc \in {"reading", "ready"}
        /\ Become(o, [head[o] EXCEPT !.state = Stopped(o)])
     \/ /\ job[o].pc = "refused"
        /\ Become(o, [head[o] EXCEPT !.state = Stopped(o), !.attempted = FALSE])
     \/ /\ job[o].pc \in {"call", "refused"}
        /\ Become(o, [head[o] EXCEPT !.state = "uncertain"])
  /\ End(o)
  /\ UNCHANGED <<owner, closed, world, provider>>

-----------------------------------------------------------------------------
(* Reconciliation.                                                         *)

\* A changed file is evident when it is the only change of the draft.
FileFound(o) ==
  /\ head[o].attempted /\ Stage(o) = "update-file"
  /\ landed[o][head[o].done + 1] > 0 /\ version[head[o].draft] = head[o].key + 1
  /\ Become(o, [head[o] EXCEPT !.state = "interrupted", !.attempted = FALSE,
                               !.done = @ + 1, !.key = @ + 1])
  /\ UNCHANGED owner

\* The stages that save a draft, and the draft they save.
Saving(o) == {i \in DOMAIN Stages(o) : Stages(o)[i] \notin {"send", "send-draft"}}
SavedAs(o) == IF head[o].draft = None THEN o ELSE head[o].draft

\* The provider shows a draft with the marker of this operation, and Outlook's
\* also with its content; or the very version Outlook confirmed.
DraftShown(o) ==
  LET d == SavedAs(o) IN
  /\ version[d] > 0
  /\ \/ marker[d] = o /\ (~Gmail => content[d] = o)
     \/ /\ ~Gmail /\ version[d] = head[o].key
        /\ head[o].done >= Cardinality(Saving(o))

\* Fault: the stages found are added to those already completed.
DraftFoundTwice(o) ==
  /\ ~(head[o].attempted /\ Stage(o) = "update-file")
  /\ Saving(o) # {} /\ head[o].done <= Cardinality(Saving(o))
  /\ head[o].attempted => Stage(o) # "send-draft"
  /\ DraftShown(o)
  /\ LET d == SavedAs(o) IN
     /\ Become(o, [head[o] EXCEPT !.attempted = FALSE, !.done = @ + Cardinality(Saving(o)),
                     !.draft = d, !.key = version[d],
                     !.state = IF head[o].kind \in Sends THEN "interrupted" ELSE "saved"])
     /\ owner' = Remembered(o, d)

DraftFound(o) ==
  /\ ~(head[o].attempted /\ Stage(o) = "update-file")
  /\ Saving(o) # {} /\ head[o].done <= Cardinality(Saving(o))
  /\ head[o].attempted => Stage(o) # "send-draft"
  /\ DraftShown(o)
  /\ LET d == SavedAs(o) IN
     /\ Become(o, [head[o] EXCEPT !.attempted = FALSE, !.done = Cardinality(Saving(o)),
                     !.draft = d, !.key = version[d],
                     !.state = IF head[o].kind \in Sends THEN "interrupted" ELSE "saved"])
     /\ owner' = Remembered(o, d)

\* The provider shows the exact message in Sent.
SendFound(o) ==
  /\ head[o].kind \in Sends
  /\ \/ ~Left(o)
     \/ head[o].attempted /\ Stage(o) \in {"send", "send-draft"}
  /\ sent[o] = o
  /\ Become(o, [head[o] EXCEPT !.attempted = FALSE, !.done = Len(Stages(o)), !.state = "accepted"])
  /\ owner' = Remembered(o, head[o].draft)

Found(o) ==
  /\ job[o].pc = "checking" /\ ~closed /\ connected
  /\ FileFound(o) \/ DraftFound(o) \/ SendFound(o)
  /\ End(o)
  /\ UNCHANGED <<closed, world, provider>>

\* Inconclusive evidence, or none: nothing but the draft's owner is written.
NotFound(o) ==
  /\ job[o].pc = "checking"
  /\ owner' \in {owner, Remembered(o, head[o].draft)}
  /\ End(o)
  /\ UNCHANGED <<head, closed, world, provider>>

-----------------------------------------------------------------------------
(* The service process.                                                    *)

\* close aborts every request; its jobs then fail one by one.
Close ==
  /\ "close" \in scenario /\ ~closed /\ closed' = TRUE
  /\ UNCHANGED <<head, owner, job, world, provider>>

\* Fault: a restart does not look at the marker.
RecoveredUnread(h) ==
  CASE h.state = "preparing" -> [h EXCEPT !.state = "failed"]
    [] h.state = "running"   -> [h EXCEPT !.state = "interrupted", !.attempted = FALSE]
    [] OTHER -> h

\* Fault: a restart finds only what was being prepared.
RecoveredPreparing(h) ==
  IF h.state = "preparing" THEN [h EXCEPT !.state = "failed"] ELSE h

\* What the constructor makes of an operation it finds under way.
Recovered(h) ==
  CASE h.state = "preparing" -> [h EXCEPT !.state = "failed"]
    [] h.state = "running"   -> [h EXCEPT !.state = IF h.attempted THEN "uncertain" ELSE "interrupted"]
    [] OTHER -> h

Restart ==
  /\ "restart" \in scenario \/ closed
  /\ head' = [o \in Operations |-> Recovered(head[o])]
  /\ job' = [o \in Operations |-> Idle]
  /\ closed' = FALSE
  /\ UNCHANGED <<owner, world, provider>>

Hold ==
  /\ "hold" \in scenario /\ held' = ~held
  /\ UNCHANGED <<head, owner, service, connected, scenario, provider>>

Connect ==
  /\ "connect" \in scenario /\ connected' = ~connected
  /\ UNCHANGED <<head, owner, service, held, scenario, provider>>

-----------------------------------------------------------------------------
(* The provider.                                                           *)

Taken(i) == wire' = SubSeq(wire, 1, i - 1) \o SubSeq(wire, i + 1, Len(wire))

\* Fault: the saved draft is sent without the version that was read.
ConditionalChange(s) == ~Gmail /\ s \in {"update-draft", "update-file"}

\* Outlook takes a change of a draft only under the version it was sent for.
Conditional(s) == ~Gmail /\ s \in {"update-draft", "send-draft", "update-file"}

\* The draft a stage acts on.
Target(o, s) == IF s \in {"create", "create-reply"} THEN o ELSE head[o].draft

Land(i) ==
  LET c == wire[i]
      o == c.op
      s == Plan(head[o].kind)[c.stage]
      d == Target(o, s)
      v == CASE s \in {"create", "create-reply"} -> 1
             [] s \in {"send", "send-draft"}     -> 0
             [] OTHER -> version[d] + 1 IN
  /\ Reads(s) => version[d] > 0
  /\ Conditional(s) => version[d] = c.tag
  /\ Taken(i)
  /\ landed' = [landed EXCEPT ![o][c.stage] = @ + 1]
  /\ version' = IF s = "send" THEN version ELSE [version EXCEPT ![d] = v]
  /\ IF s \in {"create", "update-reply", "update-draft"}
     THEN /\ content' = [content EXCEPT ![d] = o]
          /\ marker' = [marker EXCEPT ![d] = o]
     ELSE UNCHANGED <<content, marker>>
  /\ sent' = CASE s = "send" \/ (s = "send-draft" /\ Gmail) -> [sent EXCEPT ![o] = o]
               [] s = "send-draft" /\ ~Gmail -> [sent EXCEPT ![o] = content[d]]
               [] OTHER -> sent
  /\ job' = IF job[o].pc = "call" THEN [job EXCEPT ![o].tag = v] ELSE job
  /\ UNCHANGED <<head, owner, closed, world, edits>>

\* The provider refuses a request: the caller, if it still waits, will know.
Refuse(i) ==
  LET o == wire[i].op IN
  /\ Taken(i)
  /\ job' = IF job[o].pc = "call" THEN [job EXCEPT ![o].pc = "refused"] ELSE job
  /\ UNCHANGED <<head, owner, closed, world, landed, version, content, marker, sent, edits>>

\* Someone edits a draft in the provider's own program. An edit in Gmail may
\* drop the marker, a header; Outlook's is a property of the message.
Edit(d) ==
  /\ edits < MaxEdits /\ edits' = edits + 1 /\ version[d] > 0
  /\ version' = [version EXCEPT ![d] = @ + 1]
  /\ content' = [content EXCEPT ![d] = Outside]
  /\ \/ UNCHANGED marker
     \/ Gmail /\ marker' = [marker EXCEPT ![d] = None]
  /\ UNCHANGED <<head, owner, service, world, wire, landed, sent>>

-----------------------------------------------------------------------------

Request(o) == Prepare(o) \/ PrepareNext(o) \/ Confirm(o) \/ Cancel(o) \/ Check(o)
Work(o) ==
  \/ ReadDraft(o) \/ Prepared(o) \/ Opened(o) \/ NotPrepared(o)
  \/ Read(o) \/ Dispatch(o) \/ Answered(o) \/ Finish(o) \/ Fail(o)
  \/ Found(o) \/ NotFound(o)

Next ==
  \/ \E o \in Operations : Request(o) \/ Work(o)
  \/ \E i \in 1 .. Len(wire) : Land(i) \/ Refuse(i)
  \/ \E d \in Drafts : Edit(d)
  \/ Close \/ Restart \/ Hold \/ Connect

Spec == Init /\ [][Next]_vars

-----------------------------------------------------------------------------
(* Properties.                                                             *)

\* The shape of every variable.
TypeOK ==
  /\ head \in [Operations -> Record] /\ owner \in [Drafts -> Operations \cup {None}]
  /\ job \in [Operations -> Job]
  /\ closed \in BOOLEAN /\ held \in BOOLEAN /\ connected \in BOOLEAN
  /\ wire \in Seq(Call)
  /\ landed \in [Operations -> [1 .. MaxStages -> Nat]]
  /\ version \in [Drafts -> Nat] /\ content \in [Drafts -> Drafts]
  /\ marker \in [Drafts -> Operations \cup {None}]
  /\ sent \in [Operations -> Drafts \cup {"nothing"}] /\ edits \in 0 .. MaxEdits

\* One kept message is sent to its recipients at most once, whatever was
\* prepared again, retried, reconciled or restarted on the way. The exception
\* is an operation found complete but unfinished by a restart, which its owner
\* can still cancel and write again: see CancelledIsUnsent.
Sending(o) ==
  LET posts == {i \in DOMAIN Stages(o) : Stages(o)[i] \in {"send", "send-draft"}} IN
  {<<o, i>> : i \in {j \in posts : landed[o][j] > 0 \/ \E n \in DOMAIN wire :
                                     wire[n].op = o /\ wire[n].stage = j}}

OneSendPerWriting ==
  \A w \in Writers :
    Cardinality(UNION {Sending(o) : o \in {p \in Operations :
      head[p].writer = w /\ (head[p].state = "cancelled" => Left(p))}}) <= 1

\* A cancelled operation is one "stopped", with the "existing provider draft
\* and your writing" kept (the text its owner reads): it has sent nothing.
CancelledIsUnsent == \A o \in Operations : head[o].state = "cancelled" => sent[o] = "nothing"

\* What an operation sends is what its owner reviewed, although the draft may
\* be edited elsewhere between every two of its steps.
ReviewedIsSent == \A o \in Operations : sent[o] \in {"nothing", o}

\* Requests of two operations are never under way at one provider draft, also
\* when the caller of one is gone and its outcome in doubt.
OneHandPerDraft ==
  \A i, j \in DOMAIN wire :
    LET Touches(c) == Target(c.op, Plan(head[c.op].kind)[c.stage]) IN
    i # j /\ Touches(wire[i]) # None => Touches(wire[i]) # Touches(wire[j])

\* An operation under way or in doubt keeps the draft it owns: nobody opens it
\* in another message or prepares its next version meanwhile.
Working(o) == head[o].state \in {"running", "uncertain"}

WorkKeepsItsDraft ==
  [][\A o \in Operations :
       Working(o) /\ Working(o)' /\ head[o].draft # None /\ OwnsDraft(o) => OwnsDraft(o)']_vars

\* A saved draft never has two live next versions: two reviews that each may
\* be confirmed, of which the second would undo the first.
OneNextVersion ==
  \A o, p \in Operations :
    /\ o # p /\ head[o].previous # None /\ head[o].previous = head[p].previous
    => head[o].state \in GivenUp \/ head[p].state \in GivenUp
=============================================================================
