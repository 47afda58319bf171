------------------------------ MODULE MailTriage ------------------------------
(***************************************************************************)
(* Reviewed changes of many messages at once, and their undo and restore   *)
(* (MailTriageService over provider-mail-triage). A plan is prepared from  *)
(* the messages as they are, confirmed by the owner, and carried out by    *)
(* one function per plan, its job, whose items run side by side. Each step *)
(* of an item is marked in its record before its request leaves; a lock    *)
(* per message and a claim per deleted message keep other plans away.      *)
(*                                                                         *)
(* Three actions stand for all: archiving takes one step to do and one to  *)
(* undo, deleting at Gmail one to do and two to undo, and a restore takes  *)
(* two steps to do and has no undo. The folder of a message stands for     *)
(* what plans change; everything else about it is its attribute "other".   *)
(***************************************************************************)
EXTENDS Naturals, FiniteSets

CONSTANTS
  Plans,    \* reviews
  Messages, \* messages at the provider
  Nobody,   \* no plan
  MaxEdits, \* bound: changes made in other programs
  Scenarios \* what happens in each kind of behaviour looked at: some actions, and
            \* a subset of "rivals", "third", "disconnect", "hold", "edit", "lapse", "stop"

ASSUME TriageAssumption == Nobody \notin Plans /\ MaxEdits \in Nat

VARIABLES
  head,    \* durable: the record of each plan
  item,    \* durable: the record of each message in each plan
  lock,    \* durable: the plan that has an unresolved change of a message
  claim,   \* durable: the restore that takes a deleted message back
  job,     \* the running function of each plan
  hand,    \* where that function is with each of its items
  message, \* the messages at the provider
  wire,    \* requests under way
  landed,  \* how often each step took place
  connected, \* the account is the one the plans were made for
  held,    \* software update hold
  closed,  \* the service is closing
  edits,   \* changes made in other programs
  scenario \* bound: what happens in this behaviour

durable  == <<head, item, lock, claim>>
working  == <<job, hand>>
outside  == <<message, wire, landed>>
flags    == <<connected, held, closed, edits>>
vars     == <<durable, working, outside, flags, scenario>>

Actions == {"archive", "delete", "restore"}
Folders == {"inbox", "archive", "trash"}
Ways    == {"apply", "undo"}
Message == [folder : Folders, other : Nat]
Decisions == {"none", "apply", "undo", "continue", "acknowledge"}
Head == [state : {"none", "review", "cancelled", "approved"}, action : Actions,
         items : SUBSET Messages, running : Decisions, late : BOOLEAN, approved : Nat]
Item == [state : {"none", "pending", "applying", "applied", "failed", "uncertain", "observed"},
         undo : {"unsupported", "available", "applying", "undone", "failed", "uncertain", "observed"},
         attempted : BOOLEAN, done : 0 .. 2, undone : 0 .. 2, before : Message,
         origin : Plans \cup {Nobody}]
Job  == [at : {"none", "threads", "items", "check", "acknowledge", "refresh"}, todo : SUBSET Messages]
Hand == {"idle", "ready", "waiting", "done", "denied"}
Steps == Plans \X Messages \X Ways \X (1 .. 2)

Start  == [folder |-> "inbox", other |-> 0]
NoHead == [state |-> "none", action |-> "delete", items |-> {}, running |-> "none",
           late |-> FALSE, approved |-> 0]
NoItem == [state |-> "none", undo |-> "unsupported", attempted |-> FALSE, done |-> 0,
           undone |-> 0, before |-> Start, origin |-> Nobody]
NoJob  == [at |-> "none", todo |-> {}]

Init ==
  /\ head = [p \in Plans |-> NoHead] /\ item = [p \in Plans |-> [m \in Messages |-> NoItem]]
  /\ lock = [m \in Messages |-> Nobody] /\ claim = [s \in Plans \X Messages |-> Nobody]
  /\ job = [p \in Plans |-> NoJob] /\ hand = [p \in Plans |-> [m \in Messages |-> "idle"]]
  /\ message = [m \in Messages |-> Start] /\ wire = {} /\ landed = [s \in Steps |-> 0]
  /\ connected = TRUE /\ held = FALSE /\ closed = FALSE /\ edits = 0 /\ scenario \in Scenarios

TypeOK ==
  /\ head \in [Plans -> Head] /\ item \in [Plans -> [Messages -> Item]]
  /\ lock \in [Messages -> Plans \cup {Nobody}]
  /\ claim \in [Plans \X Messages -> Plans \cup {Nobody}]
  /\ job \in [Plans -> Job] /\ hand \in [Plans -> [Messages -> Hand]]
  /\ message \in [Messages -> Message] /\ wire \subseteq Steps /\ landed \in [Steps -> Nat]
  /\ connected \in BOOLEAN /\ held \in BOOLEAN /\ closed \in BOOLEAN /\ edits \in 0 .. MaxEdits

-----------------------------------------------------------------------------
(* The steps of an item. *)

Restore(p) == head[p].action = "restore"

\* The folder a message was in before it was changed, or before the delete.
Original(p, m) == IF Restore(p) THEN item[item[p][m].origin][m].before.folder ELSE item[p][m].before.folder

Count(p, way) ==
  IF (Restore(p) /\ way = "apply") \/ (head[p].action = "delete" /\ way = "undo") THEN 2 ELSE 1

\* Where step k leaves a message. Gmail takes a message out of the trash first.
Target(p, m, way, k) ==
  IF way = "apply" /\ ~Restore(p) THEN IF head[p].action = "delete" THEN "trash" ELSE "archive"
  ELSE IF k < Count(p, way) THEN "archive" ELSE Original(p, m)

\* The way a plan's function goes, and the steps of an item done that way.
Way(p) == IF head[p].running = "undo" THEN "undo" ELSE "apply"
Doubtful(x) == x.state = "uncertain" \/ x.undo = "uncertain"
WayOf(x) == IF x.undo = "uncertain" THEN "undo" ELSE "apply"
Cursor(x, way) == IF way = "undo" THEN x.undone ELSE x.done

\* The latest confirmed delete of a message, if there is one.
Deletes(m) == {q \in Plans : head[q].state = "approved" /\ head[q].action = "delete" /\ m \in head[q].items}
Latest(m)  == {q \in Deletes(m) : \A r \in Deletes(m) : head[r].approved <= head[q].approved}

\* Fault: a restore whose result is in doubt does not keep its delete.
SourceUnclaimed(q, p, m) ==
  head[q].running = "none" /\ item[q][m].state = "applied" /\ item[q][m].undo = "available"

\* The delete q of m stands, and no other restore than p may have begun on it.
SourceStands(q, p, m) ==
  /\ head[q].running = "none" /\ item[q][m].state = "applied" /\ item[q][m].undo = "available"
  /\ \A c \in Plans \ {p} : claim[q, m] = c =>
       head[c].running = "none" /\ item[c][m].state = "failed" /\ item[c][m].done = 0

RestoreSource(p, m) == Restore(p) => SourceStands(item[p][m].origin, p, m)

\* Fault: a message is let go between two steps of its undo.
UnresolvedInSteps(p, x, running) ==
  \/ Restore(p) /\ x.state = "failed" /\ x.done > 0
  \/ x.state \in {"applying", "uncertain", "pending"} \/ x.undo \in {"applying", "uncertain"}

\* Fault: a message whose change may have happened is let go.
UnresolvedWhileSending(p, x, running) ==
  x.state \in {"applying", "pending"} \/ x.undo = "applying" \/ running # "none"

\* An item that keeps its message from other plans.
Unresolved(p, x, running) ==
  \/ Restore(p) /\ x.state = "failed" /\ x.done > 0
  \/ x.state \in {"applying", "uncertain", "pending"} \/ x.undo \in {"applying", "uncertain"}
  \/ running # "none" /\ (x.state = "applied" \/ x.undo \in {"available", "undone"})

\* The locks once the items of p that are in S are saved as the rows of x.
Locks(p, S, x, running) ==
  [m \in Messages |->
     IF m \in S /\ lock[m] = p /\ ~Unresolved(p, x[m], running) THEN Nobody ELSE lock[m]]

SaveItem(p, m, x, running) ==
  /\ item' = [item EXCEPT ![p][m] = x]
  /\ lock' = Locks(p, {m}, item'[p], running)

-----------------------------------------------------------------------------
(* Reviews. *)

\* Messages already as asked for are left out of a plan.
Affected(m, action) ==
  CASE action = "archive" -> message[m].folder = "inbox"
    [] action = "delete"  -> message[m].folder # "trash"
    [] OTHER              -> message[m].folder = "trash"

Prepare(p, action, S) ==
  /\ ~closed /\ connected /\ head[p].state = "none" /\ S # {}
  /\ \A m \in S : Affected(m, action) /\ lock[m] = Nobody
  /\ action = "restore" => \A m \in S : \E q \in Latest(m) : SourceStands(q, Nobody, m)
  /\ head' = [head EXCEPT ![p] = [NoHead EXCEPT !.state = "review", !.action = action, !.items = S]]
  /\ item' = [item EXCEPT ![p] = [m \in Messages |->
       IF m \notin S THEN NoItem
       ELSE [NoItem EXCEPT !.state = "pending", !.before = message[m],
               !.origin = IF action = "restore" THEN CHOOSE q \in Latest(m) : TRUE ELSE Nobody]]]
  /\ UNCHANGED <<lock, claim, working, outside, flags>>

CancelReview(p) ==
  /\ ~closed /\ head[p].state = "review"
  /\ head' = [head EXCEPT ![p].state = "cancelled"]
  /\ UNCHANGED <<item, lock, claim, working, outside, flags>>

\* Half an hour passes over a review, or a quarter over the time for its undo.
Lapse(p) ==
  /\ head[p].state \in {"review", "approved"} /\ ~head[p].late
  /\ head' = [head EXCEPT ![p].late = TRUE]
  /\ UNCHANGED <<item, lock, claim, working, outside, flags>>

Selected(p, decision) ==
  CASE decision = "apply"    -> head[p].items
    [] decision = "undo"     -> {m \in head[p].items : item[p][m].undo = "available"}
    [] decision = "continue" -> {m \in head[p].items : item[p][m].state = "failed"}
    [] OTHER                 -> {}

Uncertain(p) == {m \in head[p].items : Doubtful(item[p][m])}

\* What the record of a plan allows its owner to decide.
Offered(p, decision) ==
  CASE decision = "apply"    -> head[p].state = "review" /\ ~head[p].late
    [] decision = "undo"     -> head[p].state = "approved" /\ ~Restore(p) /\ ~head[p].late
                                /\ Selected(p, "undo") # {}
    [] decision = "continue" -> head[p].state = "approved" /\ Restore(p) /\ Selected(p, "continue") # {}
    [] OTHER                 -> head[p].state = "approved" /\ Uncertain(p) # {}

\* The function of a plan starts, unless the plan has one: the decision is then
\* answered with the end of that one.
Starts(p, begun) == job' = IF job[p] = NoJob THEN [job EXCEPT ![p] = begun] ELSE job

Confirm(p, decision) ==
  LET S == Selected(p, decision) IN
  /\ ~closed /\ head[p].running = "none" /\ Offered(p, decision)
  /\ \A m \in S : /\ connected /\ lock[m] \in {Nobody, p} /\ RestoreSource(p, m)
                  /\ Restore(p) => item[p][m].origin \in Latest(m)
  /\ lock' = [m \in Messages |-> IF m \in S THEN p ELSE lock[m]]
  /\ claim' = [s \in Plans \X Messages |->
       IF Restore(p) /\ s[2] \in S /\ item[p][s[2]].origin = s[1] THEN p ELSE claim[s]]
  /\ item' = [item EXCEPT ![p] = [m \in Messages |->
       IF decision = "continue" /\ m \in S THEN [item[p][m] EXCEPT !.state = "pending"] ELSE item[p][m]]]
  /\ head' = [head EXCEPT ![p] =
       IF decision = "apply"
       THEN [@ EXCEPT !.running = decision, !.state = "approved", !.late = FALSE,
                      !.approved = Cardinality({q \in Plans : head[q].state = "approved"}) + 1]
       ELSE [@ EXCEPT !.running = decision]]
  /\ Starts(p, CASE decision = "apply"       -> [at |-> "threads", todo |-> {}]
                 [] decision = "acknowledge" -> [at |-> decision, todo |-> Uncertain(p)]
                 [] OTHER                    -> [at |-> "items", todo |-> {}])
  /\ UNCHANGED <<hand, outside, flags>>

-----------------------------------------------------------------------------
(* The function that carries a decision out. *)

\* The record of p and its items x when the function is done with them; the
\* lists shown to the owner are refreshed after that.
Settle(p, x) ==
  /\ head' = [head EXCEPT ![p].running = "none"]
  /\ item' = [item EXCEPT ![p] = x]
  /\ lock' = Locks(p, head[p].items, x, "none")
  /\ job' = [job EXCEPT ![p] = [at |-> "refresh", todo |-> {}]]
  /\ UNCHANGED <<claim, hand, outside, flags>>

\* Every conversation is, as a whole, as it was reviewed.
ThreadsRead(p) ==
  /\ job[p].at = "threads" /\ ~closed /\ connected
  /\ \A m \in head[p].items : message[m] = item[p][m].before
  /\ job' = [job EXCEPT ![p].at = "items"]
  /\ UNCHANGED <<durable, hand, outside, flags>>

ThreadsFail(p) ==
  /\ job[p].at = "threads"
  /\ Settle(p, [m \in Messages |-> IF item[p][m].state = "pending"
                                   THEN [item[p][m] EXCEPT !.state = "failed"] ELSE item[p][m]])

\* An item the function has still to take up, or to take up again.
Ahead(p, m) ==
  /\ job[p].at = "items" /\ hand[p][m] = "idle" /\ m \in head[p].items
  /\ LET x == item[p][m] IN
     IF Way(p) = "undo" THEN x.undo = "available"
     ELSE x.state = "pending" \/ (x.state = "applying" /\ ~x.attempted)

\* The message is as the step before left it: a first step to apply needs the
\* whole message as reviewed, every other only what the plan changes.
Fits(p, m) ==
  LET x == item[p][m]
      way == Way(p)
      k == Cursor(x, way) IN
  CASE k > 0                          -> message[m].folder = Target(p, m, way, k)
    [] k = 0 /\ way = "undo"          -> message[m].folder = Target(p, m, "apply", 1)
    [] OTHER                          -> message[m] = x.before

ReadMessage(p, m) ==
  /\ Ahead(p, m) /\ ~closed /\ connected /\ Fits(p, m) /\ RestoreSource(p, m)
  /\ hand' = [hand EXCEPT ![p][m] = "ready"]
  /\ UNCHANGED <<durable, job, outside, flags>>

\* The checks, the marker and the request, in one instant. Only a restore asks
\* for its lock and for its source again.
Dispatch(p, m) ==
  LET x == item[p][m]
      way == Way(p) IN
  /\ hand[p][m] = "ready" /\ ~closed /\ ~held /\ connected
  /\ Restore(p) => RestoreSource(p, m) /\ lock[m] = p
  /\ SaveItem(p, m, IF way = "undo" THEN [x EXCEPT !.undo = "applying", !.attempted = TRUE]
                    ELSE [x EXCEPT !.state = "applying", !.attempted = TRUE], head[p].running)
  /\ wire' = wire \cup {<<p, m, way, Cursor(x, way) + 1>>}
  /\ hand' = [hand EXCEPT ![p][m] = "waiting"]
  /\ UNCHANGED <<head, claim, job, message, landed, flags>>

\* The item becomes x and the function lets go of it.
Leaves(p, m, x) ==
  /\ SaveItem(p, m, x, head[p].running)
  /\ hand' = [hand EXCEPT ![p][m] = "idle"]
  /\ UNCHANGED <<head, claim, job, outside, flags>>

\* The provider confirms a step; the answer counts whatever happened meanwhile.
Answered(p, m) ==
  LET x == item[p][m]
      way == Way(p)
      k == Cursor(x, way) + 1
      last == k = Count(p, way) IN
  /\ hand[p][m] = "done"
  /\ Leaves(p, m,
       IF way = "undo"
       THEN [x EXCEPT !.attempted = FALSE, !.undone = k, !.undo = IF last THEN "undone" ELSE "available"]
       ELSE [x EXCEPT !.attempted = FALSE, !.done = k, !.state = IF last THEN "applied" ELSE "applying",
                      !.undo = IF Restore(p) THEN "unsupported" ELSE "available"])

\* A check fails before a step, or the provider refuses it.
ItemFails(p, m) ==
  LET x == item[p][m] IN
  /\ Ahead(p, m) \/ hand[p][m] \in {"ready", "denied"}
  /\ Leaves(p, m, IF Way(p) = "undo" THEN [x EXCEPT !.attempted = FALSE, !.undo = "failed"]
                  ELSE [x EXCEPT !.attempted = FALSE, !.state = "failed"])

\* No answer, or one that does not confirm the step.
ItemUnclear(p, m) ==
  LET x == item[p][m] IN
  /\ hand[p][m] \in {"waiting", "done"}
  /\ Leaves(p, m, IF Way(p) = "undo" THEN [x EXCEPT !.undo = "uncertain"]
                  ELSE [x EXCEPT !.state = "uncertain"])

ItemsEnd(p) ==
  /\ job[p].at = "items" /\ \A m \in Messages : hand[p][m] = "idle" /\ ~Ahead(p, m)
  /\ Settle(p, item[p])

Refreshed(p) ==
  /\ job[p].at = "refresh"
  /\ job' = [job EXCEPT ![p] = NoJob]
  /\ UNCHANGED <<durable, hand, outside, flags>>

-----------------------------------------------------------------------------
(* Finding out. *)

\* The owner asks what became of uncertain steps. The record does not tell that
\* a check runs.
Reconcile(p) ==
  /\ ~closed /\ job[p] = NoJob /\ Uncertain(p) # {}
  /\ job' = [job EXCEPT ![p] = [at |-> "check", todo |-> Uncertain(p)]]
  /\ UNCHANGED <<durable, hand, outside, flags>>

\* What a step was to bring about is there; the first step of two only had to
\* take the message out of the trash.
Shows(p, m) ==
  LET x == item[p][m]
      way == WayOf(x)
      k == Cursor(x, way) + 1 IN
  IF k < Count(p, way) THEN message[m].folder # "trash"
  ELSE message[m].folder = Target(p, m, way, k)

\* The message shows the step, or the owner accepts the message as it is.
Observed(p, m) ==
  LET x == item[p][m] IN
  /\ job[p].at \in {"check", "acknowledge"} /\ m \in job[p].todo /\ ~closed /\ connected
  /\ job[p].at = "acknowledge" \/ Shows(p, m)
  /\ SaveItem(p, m, IF x.undo = "uncertain" THEN [x EXCEPT !.undo = "observed", !.attempted = FALSE]
                    ELSE [x EXCEPT !.state = "observed", !.attempted = FALSE],
              IF job[p].at = "check" THEN "none" ELSE head[p].running)
  /\ job' = [job EXCEPT ![p].todo = @ \ {m}]
  /\ UNCHANGED <<head, claim, hand, outside, flags>>

NotObserved(p, m) ==
  /\ job[p].at \in {"check", "acknowledge"} /\ m \in job[p].todo
  /\ job' = [job EXCEPT ![p].todo = @ \ {m}]
  /\ UNCHANGED <<durable, hand, outside, flags>>

InspectEnds(p) ==
  /\ job[p].at \in {"check", "acknowledge"} /\ job[p].todo = {}
  /\ Settle(p, item[p])

-----------------------------------------------------------------------------
(* The provider and the world. *)

Over(s, answer) ==
  /\ wire' = wire \ {s}
  /\ hand' = [hand EXCEPT ![s[1]][s[2]] = IF @ = "waiting" THEN answer ELSE @]
  /\ UNCHANGED <<durable, job, flags>>

Land(s) ==
  /\ message' = [message EXCEPT ![s[2]].folder = Target(s[1], s[2], s[3], s[4])]
  /\ landed' = [landed EXCEPT ![s] = @ + 1]
  /\ Over(s, "done")

Refuse(s) == Over(s, "denied") /\ UNCHANGED <<message, landed>>
Lose(s)   == Over(s, "waiting") /\ UNCHANGED <<message, landed>>

\* Another program of the owner moves a message or changes something else in it.
Edit(m, value) ==
  /\ edits < MaxEdits /\ value # message[m]
  /\ message' = [message EXCEPT ![m] = value]
  /\ edits' = edits + 1
  /\ UNCHANGED <<durable, working, wire, landed, connected, held, closed>>

Disconnect == connected /\ connected' = FALSE /\ UNCHANGED <<durable, working, outside, held, closed, edits>>
Hold == held' = ~held /\ UNCHANGED <<durable, working, outside, connected, closed, edits>>
Close == ~closed /\ closed' = TRUE /\ UNCHANGED <<durable, working, outside, connected, held, edits>>

\* Fault: a step interrupted after its request is taken as not done.
InterruptedUnsent(p, x) ==
  [x EXCEPT !.state = IF @ \in {"applying", "pending"} THEN "failed" ELSE @,
            !.undo  = IF @ = "applying" THEN "available" ELSE @]

\* What the constructor makes of an item without its function.
Interrupted(p, x) ==
  [x EXCEPT !.state = CASE @ = "applying" -> IF Restore(p) /\ ~x.attempted THEN "failed" ELSE "uncertain"
                        [] @ = "pending"  -> "failed"
                        [] OTHER          -> @,
            !.undo  = IF @ = "applying" THEN (IF x.attempted THEN "uncertain" ELSE "available") ELSE @]

\* A new process over the saved records, after a close or after a crash.
Restart ==
  LET cut == {p \in Plans : head[p].running # "none"} IN
  /\ item' = [p \in Plans |-> IF p \in cut THEN [m \in Messages |-> Interrupted(p, item[p][m])] ELSE item[p]]
  /\ head' = [p \in Plans |-> [head[p] EXCEPT !.running = "none"]]
  /\ lock' = [m \in Messages |->
       IF lock[m] \in cut /\ ~Unresolved(lock[m], item'[lock[m]][m], "none") THEN Nobody ELSE lock[m]]
  /\ job' = [p \in Plans |-> NoJob] /\ hand' = [p \in Plans |-> [m \in Messages |-> "idle"]]
  /\ closed' = FALSE /\ held' = FALSE
  /\ UNCHANGED <<claim, outside, connected, edits>>

\* Bound: one plan, or two for the same message, or a delete that was applied
\* and then two more.
Asked(S) ==
  LET there == {q \in Plans : head[q].state # "none"} IN
  \/ there = {}
  \/ /\ "rivals" \in scenario /\ \A q \in there : head[q].items = S /\ Cardinality(S) = 1
     /\ IF "third" \in scenario THEN \E q \in there, m \in S : item[q][m].done = 1 /\ ~Restore(q) /\ job[q] = NoJob
        ELSE Cardinality(there) = 1

PlanStep(p) ==
  \/ \E action \in Actions \cap scenario, S \in SUBSET Messages : Asked(S) /\ Prepare(p, action, S)
  \/ \E decision \in Decisions \ {"none"} : Confirm(p, decision)
  \/ CancelReview(p) \/ ThreadsRead(p) \/ ThreadsFail(p) \/ ItemsEnd(p) \/ Refreshed(p)
  \/ Reconcile(p) \/ InspectEnds(p)
  \/ \E m \in Messages :
       \/ ReadMessage(p, m) \/ Dispatch(p, m) \/ Answered(p, m) \/ ItemFails(p, m) \/ ItemUnclear(p, m)
       \/ Observed(p, m) \/ NotObserved(p, m)

World ==
  \/ \E s \in wire : Land(s) \/ Refuse(s) \/ Lose(s)
  \/ "edit" \in scenario /\ \E m \in Messages :
       \/ Edit(m, [message[m] EXCEPT !.other = @ + 1])
       \/ \E folder \in Folders : Edit(m, [message[m] EXCEPT !.folder = folder])
  \/ "lapse" \in scenario /\ \E p \in Plans : Lapse(p)
  \/ "disconnect" \in scenario /\ Disconnect
  \/ "hold" \in scenario /\ Hold
  \/ "stop" \in scenario /\ (Close \/ Restart)

Next == (World \/ \E p \in Plans : PlanStep(p)) /\ UNCHANGED scenario

Spec == Init /\ [][Next]_vars
=============================================================================
