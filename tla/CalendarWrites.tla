---------------------------- MODULE CalendarWrites ----------------------------
(***************************************************************************)
(* Changes of calendar events at Google and Microsoft (CalendarWriteService *)
(* over Accounts). A write is prepared from the event as it is, reviewed   *)
(* by the owner, and applied by one conditional request, which a marker in *)
(* the record precedes. Between its commands a write is an asynchronous    *)
(* function that waits for a token, for a read and for the answer; the     *)
(* account and the event may change at each wait.                          *)
(***************************************************************************)
EXTENDS Accounts

CONSTANTS
  Writes, \* operations
  Drafts, \* kept event drafts (a device and a writer on it)
  Events, \* events that other programs made
  Nobody, \* no operation
  MaxEdits, \* bound: edits made in other programs
  Scenarios \* what else happens, in each kind of behaviour looked at: a subset of
            \* "signin", "token", "disconnect", "hold", "edit", "stop", "two"

ASSUME CalendarAssumption ==
  /\ Nobody \notin Writes /\ Writes \cap Events = {} /\ MaxEdits \in Nat
  /\ Identities # {} /\ Drafts # {}

VARIABLES
  write, \* durable: the record of each operation
  task,  \* the running function of each operation
  event, \* the events at the provider
  wire,  \* requests to change an event that are under way
  reply, \* what a request that is over was answered
  landed, \* how often the change of an operation took place
  edits, \* edits made in other programs
  scenario \* bound: what else happens in this behaviour

calendarVars == <<write, task, event, wire, reply, landed, edits>>
vars == <<accountVars, closed, held, calendarVars, scenario>>

Actions == {"create", "update", "delete"}
Targets == Events \cup Writes
WriteStates == {"none", "preparing", "review", "applying", "confirmed", "observed",
                "unknown", "conflict", "failed", "cancelled"}
Event == [present : BOOLEAN, version : Nat, marker : Writes \cup {Nobody}]
Write == [state : WriteStates, who : Identities, draft : Drafts, action : Actions,
          target : Targets, generation : Nat, base : Nat, late : BOOLEAN, attempted : BOOLEAN]
Kinds == {"none", "prepare", "apply", "check"}
Task  == [kind : Kinds, at : {"none", "refused", "token", "read", "seen", "answer"},
          generation : Nat, version : Nat, seen : Event]

Absent == [present |-> FALSE, version |-> 0, marker |-> Nobody]
NoWrite(w) == [state |-> "none", who |-> CHOOSE i \in Identities : TRUE,
               draft |-> CHOOSE d \in Drafts : TRUE, action |-> "create", target |-> w,
               generation |-> 0, base |-> 0, late |-> FALSE, attempted |-> FALSE]
Idle == [kind |-> "none", at |-> "none", generation |-> 0, version |-> 0, seen |-> Absent]

Init ==
  /\ AccountInit
  /\ write = [w \in Writes |-> NoWrite(w)] /\ task = [w \in Writes |-> Idle]
  /\ event = [e \in Targets |-> IF e \in Events THEN [Absent EXCEPT !.present = TRUE] ELSE Absent]
  /\ wire = {} /\ reply = [w \in Writes |-> "none"]
  /\ landed = [w \in Writes |-> 0] /\ edits = 0 /\ scenario \in Scenarios

TypeOK ==
  /\ AccountTypeOK
  /\ write \in [Writes -> Write] /\ task \in [Writes -> Task] /\ event \in [Targets -> Event]
  /\ wire \subseteq Writes /\ reply \in [Writes -> {"none", "done", "changed", "denied"}]
  /\ landed \in [Writes -> Nat] /\ edits \in 0 .. MaxEdits

-----------------------------------------------------------------------------
(* The provider call of a task: Accounts.calendarOperation. *)

Who(w) == write[w].who

\* Only a check gets by with permission to read.
Permitted(i, kind) == kind # "check" => account[i].write

\* Begins the function of operation w, whose record becomes x: what the
\* command does in the same instant, up to the wait for a token.
Begins(w, x, kind, g) ==
  LET i == x.who
      at(place, v) == task' = [task EXCEPT ![w] =
        [Idle EXCEPT !.kind = kind, !.at = place, !.generation = g, !.version = v]] IN
  /\ write' = [write EXCEPT ![w] = x]
  /\ \/ /\ Current(i, g) /\ Permitted(i, kind) => NeedsRefresh(i) /\ held
        /\ at("refused", 0)
        /\ UNCHANGED <<account, refreshing>>
     \/ /\ Current(i, g) /\ Permitted(i, kind) /\ ~NeedsRefresh(i)
        /\ at("token", IF UnderWay(i, g) = {} THEN credential[i].version ELSE account[i].revision + 1)
        /\ UNCHANGED <<account, refreshing>>
     \/ /\ Current(i, g) /\ Permitted(i, kind) /\ NeedsRefresh(i) /\ ~held
        /\ RefreshStarts(i)
        /\ at("token", account[i].revision + 2)
  /\ UNCHANGED <<credential, attempt, signing, closed, held, event, wire, reply, landed, edits>>

\* Fault: the tokens are not compared with those the reads were made with.
AllowedUnderOldTokens(w) == Current(Who(w), task[w].generation) /\ Permitted(Who(w), task[w].kind)

\* What a task asks again after each wait, before it acts on what it read.
Allowed(w) ==
  LET i == Who(w) IN
  /\ Current(i, task[w].generation) /\ Permitted(i, task[w].kind)
  /\ credential[i].version = task[w].version

Tasks(w, t) ==
  /\ task' = [task EXCEPT ![w] = t]
  /\ UNCHANGED <<accountVars, closed, held, write, event, wire, reply, landed, edits>>

Token(w) ==
  /\ task[w].at = "token" /\ Allowed(w)
  /\ Tasks(w, [task[w] EXCEPT !.at = "read"])

\* The provider answers a read with the event as it is then.
ReadEvent(w) ==
  /\ task[w].at = "read"
  /\ Tasks(w, [task[w] EXCEPT !.at = "seen", !.seen = event[write[w].target]])

\* The end of a function, with the state its operation is left in.
Ends(w, s) ==
  /\ write' = [write EXCEPT ![w].state = s]
  /\ task' = [task EXCEPT ![w] = Idle]
  /\ UNCHANGED <<accountVars, closed, held, event, wire, reply, landed, edits>>

\* No token, no permission, a read that fails, or a check that fails after it.
\* A task may wait for a refresh; it does not give up while that lasts.
Fails(w) ==
  /\ \/ task[w].at \in {"refused", "read", "seen"}
     \/ task[w].at = "token" /\ ~Allowed(w) /\ UnderWay(Who(w), task[w].generation) = {}
  /\ Ends(w, IF task[w].kind = "check" THEN "unknown" ELSE "failed")

-----------------------------------------------------------------------------
(* Preparing a review. *)

\* Fault: an uncertain write no longer reserves its event.
ReservedWhileWorking(w) ==
  write[w].state \in {"preparing", "applying"} \/ (write[w].state = "review" /\ ~write[w].late)

Reserved(w) ==
  \/ write[w].state \in {"preparing", "applying", "unknown"}
  \/ write[w].state = "review" /\ ~write[w].late

\* Fault: a draft whose event was only observed may be made again.
AvailableUnlessConfirmed(draft, action, target) ==
  \A v \in Writes :
    /\ write[v].state = "confirmed" => ~(action = "create" /\ write[v].draft = draft)
    /\ Reserved(v) => write[v].draft # draft /\ ~(action # "create" /\ write[v].target = target)

\* Another operation of the draft or on the event is not finished, or has
\* made the event this draft would make.
Available(draft, action, target) ==
  \A v \in Writes :
    /\ write[v].state \in {"confirmed", "observed"} =>
         ~(action = "create" /\ write[v].draft = draft)
    /\ Reserved(v) =>
         /\ write[v].draft # draft
         /\ ~(action # "create" /\ write[v].action # "create" /\ write[v].target = target)

\* The owner asks for a change of the event as it was opened, now or before.
Prepare(w, i, draft, action, target, opened) ==
  /\ ~closed /\ write[w].state = "none"
  /\ account[i].state \in {"connected", "refreshing"}
  /\ IF action = "create" THEN target = w /\ opened = 0
     ELSE (target \in Events \/ event[target].version > 0) /\ opened <= event[target].version
  /\ Available(draft, action, target)
  /\ Begins(w, [state |-> "preparing", who |-> i, draft |-> draft, action |-> action,
                target |-> target, generation |-> account[i].generation, base |-> opened,
                late |-> FALSE, attempted |-> FALSE], "prepare", account[i].generation)

\* The event, as it is now, is the one the change was written for.
Unchanged(w) ==
  write[w].action = "create" \/ (task[w].seen.present /\ task[w].seen.version = write[w].base)

Prepared(w) ==
  /\ task[w].kind = "prepare" /\ task[w].at = "seen" /\ Allowed(w) /\ Unchanged(w)
  /\ Ends(w, "review")

\* Half an hour passes.
ReviewLapses(w) ==
  /\ write[w].state = "review" /\ ~write[w].late
  /\ write' = [write EXCEPT ![w].late = TRUE]
  /\ UNCHANGED <<accountVars, closed, held, task, event, wire, reply, landed, edits>>

CancelReview(w) ==
  /\ ~closed /\ write[w].state = "review"
  /\ write' = [write EXCEPT ![w].state = "cancelled"]
  /\ UNCHANGED <<accountVars, closed, held, task, event, wire, reply, landed, edits>>

-----------------------------------------------------------------------------
(* Applying it. *)

\* Under the connection the review was prepared with, and no other.
Confirm(w) ==
  /\ ~closed /\ write[w].state = "review" /\ ~write[w].late
  /\ Begins(w, [write[w] EXCEPT !.state = "applying"], "apply", write[w].generation)

Conflict(w) ==
  /\ task[w].kind = "apply" /\ task[w].at = "seen" /\ ~Unchanged(w)
  /\ Ends(w, "conflict")

\* The checks, the marker and the request, in one instant.
Dispatch(w) ==
  /\ task[w].kind = "apply" /\ task[w].at = "seen" /\ Allowed(w) /\ Unchanged(w) /\ ~held
  /\ write' = [write EXCEPT ![w].attempted = TRUE]
  /\ task' = [task EXCEPT ![w].at = "answer"]
  /\ wire' = wire \cup {w}
  /\ UNCHANGED <<accountVars, closed, held, event, reply, landed, edits>>

\* The answer counts also after the account changed or the service is closing.
Confirmed(w) == task[w].at = "answer" /\ reply[w] = "done" /\ Ends(w, "confirmed")
Refused(w) ==
  /\ task[w].at = "answer" /\ reply[w] \in {"changed", "denied"}
  /\ Ends(w, IF reply[w] = "changed" THEN "conflict" ELSE "failed")

\* No answer, or one that tells nothing.
Unclear(w) == task[w].at = "answer" /\ Ends(w, "unknown")

-----------------------------------------------------------------------------
(* Finding out. *)

\* The owner asks what became of an operation. Any connection of the same
\* person may look.
Reconcile(w) ==
  /\ ~closed /\ write[w].state = "unknown" /\ task[w] = Idle
  /\ account[Who(w)].state \in {"connected", "refreshing"}
  /\ Begins(w, write[w], "check", account[Who(w)].generation)

\* The event carries the mark of this operation, or is gone as it asked.
Shows(w, e) == IF write[w].action = "delete" THEN ~e.present ELSE e.present /\ e.marker = w

Observed(w) ==
  /\ task[w].kind = "check" /\ task[w].at = "seen" /\ Allowed(w) /\ Shows(w, task[w].seen)
  /\ Ends(w, "observed")

-----------------------------------------------------------------------------
(* The provider. *)

\* The request names the version reviewed, and is refused on any other.
Fits(w) ==
  LET e == event[write[w].target] IN
  IF write[w].action = "create" THEN ~e.present ELSE e.present /\ e.version = write[w].base

Over(w, answer) ==
  /\ wire' = wire \ {w}
  /\ reply' = [reply EXCEPT ![w] = IF task[w].at = "answer" THEN answer ELSE @]
  /\ UNCHANGED <<accountVars, closed, held, write, task, edits>>

Land(w) ==
  /\ w \in wire /\ Fits(w)
  /\ event' = [event EXCEPT ![write[w].target] =
       IF write[w].action = "delete" THEN [@ EXCEPT !.present = FALSE]
       ELSE [present |-> TRUE, version |-> @.version + 1, marker |-> w]]
  /\ landed' = [landed EXCEPT ![w] = @ + 1]
  /\ Over(w, "done")

Refuse(w) ==
  /\ w \in wire
  /\ \E answer \in {"denied"} \cup (IF Fits(w) THEN {} ELSE {"changed"}) : Over(w, answer)
  /\ UNCHANGED <<event, landed>>

\* Lost on the way, answered as "not found" or with a failure of the provider.
Lose(w) == w \in wire /\ Over(w, "none") /\ UNCHANGED <<event, landed>>

\* Another program of the owner changes or deletes an event.
Edit(e, present) ==
  /\ event[e].present /\ edits < MaxEdits
  /\ event' = [event EXCEPT ![e] = [@ EXCEPT !.present = present, !.version = event[e].version + 1]]
  /\ edits' = edits + 1
  /\ UNCHANGED <<accountVars, closed, held, write, task, wire, reply, landed>>

-----------------------------------------------------------------------------

Close == CloseAccounts /\ UNCHANGED calendarVars

\* Fault: a write interrupted after its marker is called failed.
RecoveredUnsent(x) ==
  IF x.state \in {"preparing", "applying"} THEN [x EXCEPT !.state = "failed"] ELSE x

\* What the constructor makes of a record without its function.
Recovered(x) ==
  CASE x.state = "preparing" -> [x EXCEPT !.state = "failed"]
    [] x.state = "applying"  -> [x EXCEPT !.state = IF x.attempted THEN "unknown" ELSE "failed"]
    [] OTHER -> x

Restart ==
  /\ RestartAccounts
  /\ write' = [w \in Writes |-> Recovered(write[w])]
  /\ task' = [w \in Writes |-> Idle] /\ reply' = [w \in Writes |-> "none"]
  /\ UNCHANGED <<event, wire, landed, edits>>

WriteStep(w) ==
  \/ /\ "two" \in scenario \/ \A v \in Writes : write[v].state = "none"
     /\ \E i \in Identities, d \in Drafts, a \in Actions, e \in Targets :
          \E opened \in 0 .. event[e].version : Prepare(w, i, d, a, e, opened)
  \/ Token(w) \/ ReadEvent(w) \/ Fails(w) \/ Prepared(w)
  \/ ReviewLapses(w) \/ CancelReview(w) \/ Confirm(w) \/ Conflict(w) \/ Dispatch(w)
  \/ Confirmed(w) \/ Refused(w) \/ Unclear(w) \/ Reconcile(w) \/ Observed(w)
  \/ Land(w) \/ Refuse(w) \/ Lose(w)

World ==
  \/ "signin" \in scenario /\ SignInStep /\ UNCHANGED calendarVars
  \/ "token" \in scenario /\ CredentialStep /\ UNCHANGED calendarVars
  \/ "disconnect" \in scenario /\ (\E i \in Identities : Disconnect(i)) /\ UNCHANGED calendarVars
  \/ "hold" \in scenario /\ Hold /\ UNCHANGED calendarVars
  \/ "edit" \in scenario /\ \E e \in Targets, present \in BOOLEAN : Edit(e, present)
  \/ "stop" \in scenario /\ (Close \/ Restart)

Next == (World \/ \E w \in Writes : WriteStep(w)) /\ UNCHANGED scenario

Spec == Init /\ [][Next]_vars
=============================================================================
