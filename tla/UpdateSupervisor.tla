--------------------------- MODULE UpdateSupervisor ---------------------------
(***************************************************************************)
(* The host's installer of software updates: one durable job, brought from *)
(* a request to a verified result. Every function is from the supervisor h *)
(* to the set of what it may become.                                       *)
(*                                                                         *)
(* h.journal holds every job ever saved and h.current names the selected   *)
(* one; both are one file. h.mem is the supervisor's copy, h.at the await  *)
(* its asynchronous function is in and h.for the job that function was     *)
(* started for. A save that throws, before or after it persisted, ends the *)
(* function in its catch; when the catch's own save throws too, nobody     *)
(* handles the rejection and the process exits (~h.up).                    *)
(*                                                                         *)
(* A release takes candidate n to n + 1; what else identifies it is one of *)
(* Revisions. Messages and download counts are left out: a change that     *)
(* only alters them may or may not write the same job again.               *)
(***************************************************************************)
EXTENDS UpdateLeases

CONSTANTS
  Revisions, \* the reviewed contents a release may have
  NoJob

ASSUME ReleaseAssumption == Revisions \cap {"checking", "lost"} = {}

Terminal == {"completed", "restored", "failed", "cancelled"}

Preparing == {"waiting", "downloading", "verifying"}

States == Terminal \cup Preparing \cup {"preparing", "installing", "checking"}

Job == [id : Jobs, epoch : Epochs, from : Nat, release : Revisions, state : States,
        hold : BOOLEAN, started : BOOLEAN, prepared : BOOLEAN]

ASSUME NoJobAssumption == NoJob \notin Job

Awaits == {"idle", "reconcile", "prepare", "preflight", "run"}

Supervisor == [journal : [Jobs -> Job \cup {NoJob}], current : Jobs \cup {None},
               mem : Job \cup {NoJob}, at : Awaits, for : Jobs \cup {None},
               stopped : BOOLEAN, up : BOOLEAN]

\* A job that keeps every other request and authority out.
Unsettled(j) == j # NoJob /\ (j.state \notin Terminal \/ j.hold)

\* Fault: a job that failed is not looked at again.
RestlessUnfinished(j) == j # NoJob /\ j.state \notin Terminal

\* A job the supervisor still works on: unfinished, or waiting for its result.
Restless(j) == j # NoJob /\ (j.state \notin Terminal \/ (j.started /\ j.hold))

Onto(h, j) == [h EXCEPT !.journal[j.id] = j, !.current = j.id]

\* The saves of job j that return; the ones that throw.
Written(h, j) == {[Onto(h, j) EXCEPT !.mem = j]} \cup {g \in {h} : j = h.mem}

Broken(h, j) ==
  {g \in {Onto(h, j)} : "kept" \in Faults} \cup {g \in {h} : "lost" \in Faults}

Await(h, at) == [h EXCEPT !.at = at, !.for = IF at = "idle" THEN None ELSE @]

Idle(h) == Await(h, "idle")

Exited(h) == [Idle(h) EXCEPT !.mem = NoJob, !.stopped = FALSE, !.up = FALSE]

\* Fault: a failure releases the workspace.
FailsUnheld(h) ==
  LET j == [h.mem EXCEPT !.state = "failed", !.hold = FALSE] IN
  IF Restless(h.mem) /\ h.mem.id = h.for
  THEN {Idle(g) : g \in Written(h, j)} \cup {Exited(g) : g \in Broken(h, j)}
  ELSE {Idle(h)}

\* The asynchronous function threw: the catch of kick.
Fails(h) ==
  LET j == [h.mem EXCEPT !.state = "failed", !.hold = h.mem.started] IN
  IF Restless(h.mem) /\ h.mem.id = h.for
  THEN {Idle(g) : g \in Written(h, j)} \cup {Exited(g) : g \in Broken(h, j)}
  ELSE {Idle(h)}

\* The asynchronous function changes the job to j, then waits or returns.
Change(h, j, at) ==
  {Await(g, at) : g \in Written(h, j)} \cup (UNION {Fails(g) : g \in Broken(h, j)})

-----------------------------------------------------------------------------
(* What the function checks before, between and after its awaits.          *)

\* The app is the one the job was asked of, heard of just now, and idle.
Admitted(j, e) ==
  /\ e.selected = j.from /\ Live(e, j.from, j.epoch)
  /\ e.beat.blockers = "none"

Acknowledged(j, e) == e.beat.heldFor = j.id /\ e.beat.native

Gone(h) == h.mem.id # h.for \/ h.mem.state = "cancelled" \/ h.stopped

Waits(h) == Change(h, [h.mem EXCEPT !.state = "waiting"], "idle")

\* An unstarted job whose release is no longer verified ends; a feed that is
\* being read again says nothing yet.
Unverified(h, e) ==
  IF e.feed = "checking" THEN {Idle(h)}
  ELSE Change(h, [h.mem EXCEPT !.state = "failed", !.hold = FALSE], "idle")

\* From the verified package to the read-only preflight.
Qualify(h, e) ==
  IF Gone(h) THEN {Idle(h)}
  ELSE IF ~Admitted(h.mem, e) THEN Waits(h)
  ELSE IF h.mem.hold /\ ~Acknowledged(h.mem, e) THEN {Idle(h)}
  ELSE {Await(h, "preflight")}

\* Fault: a started job is run again.
AdvanceAgain(h, e) ==
  IF h.mem.started THEN {Await(h, "run")}
  ELSE IF e.feed \notin Revisions THEN Unverified(h, e)
  ELSE IF e.feed # h.mem.release THEN Fails(h)
  ELSE IF ~Admitted(h.mem, e) THEN Waits(h)
  ELSE IF h.mem.prepared THEN Qualify(h, e)
  ELSE Change(h, [h.mem EXCEPT !.state = "downloading"], "prepare")

\* advance, up to its first await.
Advance(h, e) ==
  IF h.mem.started THEN {Await(h, "reconcile")}
  ELSE IF e.feed \notin Revisions THEN Unverified(h, e)
  ELSE IF e.feed # h.mem.release THEN Fails(h)
  ELSE IF ~Admitted(h.mem, e) THEN Waits(h)
  ELSE IF h.mem.prepared THEN Qualify(h, e)
  ELSE Change(h, [h.mem EXCEPT !.state = "downloading"], "prepare")

\* Every heartbeat, request and poll kicks the function, unless it runs, the
\* supervisor is stopped or another authority is active (busy).
Kick(h, e, busy) ==
  IF h.at # "idle" \/ h.stopped \/ busy \/ ~Restless(h.mem) THEN {h}
  ELSE Advance([h EXCEPT !.for = h.mem.id], e)

-----------------------------------------------------------------------------
(* Requests.                                                               *)

\* A heartbeat that reports work, and no hold, takes the wish for one back.
Heard(h, e, busy) ==
  LET j == [h.mem EXCEPT !.hold = FALSE, !.state = "waiting"] IN
  IF /\ h.mem # NoJob /\ h.mem.hold /\ ~h.mem.started
     /\ e.beat.heldFor = None /\ e.beat.blockers # "none"
  THEN (UNION {Kick(g, e, busy) : g \in Written(h, j)}) \cup Broken(h, j)
  ELSE Kick(h, e, busy)

\* A replay of the request in the journal adopts a job whose save threw.
Replayed(h, e, k, busy) ==
  IF h.current = k /\ h.at = "idle" /\ (h.mem = NoJob \/ h.mem.id # k)
  THEN Kick([h EXCEPT !.mem = h.journal[k]], e, busy)
  ELSE {h}

\* A new request of key k, to install now or when the workspace is idle. The
\* epoch a client names is the one last heard, or its request is refused.
Requested(h, e, k, when, busy) ==
  LET j == [id |-> k, epoch |-> e.beat.epoch, from |-> e.selected, release |-> e.feed,
            state |-> "waiting", hold |-> FALSE, started |-> FALSE, prepared |-> FALSE] IN
  IF busy THEN {h}
  ELSE IF h.journal[k] # NoJob THEN Replayed(h, e, k, busy)
  ELSE IF \/ h.at # "idle" \/ Unsettled(h.mem) \/ e.beat = NoBeat \/ ~e.fresh
          \/ e.beat.candidate # e.selected \/ e.feed \notin Revisions
          \/ (when = "now" /\ e.beat.blockers # "none")
       THEN {h}
  ELSE (UNION {Kick(g, e, busy) : g \in Written(h, j)}) \cup Broken(h, j)

\* A job is cancelled only before it was started.
Cancelled(h, k) ==
  LET j == [h.mem EXCEPT !.state = "cancelled", !.hold = FALSE] IN
  IF h.mem # NoJob /\ h.mem.id = k /\ ~h.mem.started /\ h.mem.state \in Preparing
  THEN Written(h, j) \cup Broken(h, j)
  ELSE {h}

-----------------------------------------------------------------------------
(* What follows each await.                                                *)

\* Fault: a cancellation during the download is not noticed.
PreparedAnyway(h, e) ==
  LET j == [h.mem EXCEPT !.state = "verifying", !.prepared = TRUE] IN
  IF h.mem.id # h.for THEN {Idle(h)}
  ELSE (UNION {Qualify(g, e) : g \in Written(h, j)}) \cup (UNION {Fails(g) : g \in Broken(h, j)})

\* The package is downloaded and verified.
Prepared(h, e) ==
  LET j == [h.mem EXCEPT !.state = "verifying", !.prepared = TRUE] IN
  IF h.mem.id # h.for \/ h.mem.state = "cancelled" THEN {Idle(h)}
  ELSE (UNION {Qualify(g, e) : g \in Written(h, j)}) \cup (UNION {Fails(g) : g \in Broken(h, j)})

\* Fault: what was admitted before the preflight is not asked again after it.
QualifiedEarlier(h, e) ==
  IF Gone(h) THEN {Idle(h)}
  ELSE IF e.feed \notin Revisions THEN Unverified(h, e)
  ELSE IF e.feed # h.mem.release THEN Fails(h)
  ELSE IF ~h.mem.hold THEN Change(h, [h.mem EXCEPT !.state = "waiting", !.hold = TRUE], "idle")
  ELSE IF ~Acknowledged(h.mem, e) THEN {Idle(h)}
  ELSE Change(h, [h.mem EXCEPT !.state = "preparing", !.started = TRUE], "run")

\* The preflight passed: ask the workspace for its hold, or, once the
\* workspace acknowledges it, start.
Qualified(h, e) ==
  IF Gone(h) THEN {Idle(h)}
  ELSE IF ~Admitted(h.mem, e) THEN Waits(h)
  ELSE IF e.feed \notin Revisions THEN Unverified(h, e)
  ELSE IF e.feed # h.mem.release THEN Fails(h)
  ELSE IF ~h.mem.hold THEN Change(h, [h.mem EXCEPT !.state = "waiting", !.hold = TRUE], "idle")
  ELSE IF ~Acknowledged(h.mem, e) THEN {Idle(h)}
  ELSE Change(h, [h.mem EXCEPT !.state = "preparing", !.started = TRUE], "run")

\* Fault: a job takes over whatever the installer wrote.
AcceptedVerbatim(h, e, v) ==
  IF h.mem.id # h.for THEN {Idle(h)}
  ELSE IF e.selected # h.mem.from + (IF v = "completed" THEN 1 ELSE 0) THEN Fails(h)
  ELSE Change(h, [h.mem EXCEPT !.state = v, !.hold = FALSE], "idle")

\* A result counts with the candidate it says is selected, and releases the
\* workspace.
Accepted(h, e, v) ==
  IF h.mem.id # h.for THEN {Idle(h)}
  ELSE IF e.selected # h.mem.from + (IF v = "completed" THEN 1 ELSE 0) THEN Fails(h)
  ELSE Change(h, [h.mem EXCEPT !.state = IF v = "unchanged" THEN "failed" ELSE v,
                               !.hold = FALSE], "idle")

\* Fault: an installer without a result has done nothing.
ReconciledReleased(h, e, v) ==
  IF v # "none" THEN Accepted(h, e, v)
  ELSE Change(h, [h.mem EXCEPT !.state = "failed", !.hold = FALSE], "idle")

\* A started job without a result keeps the workspace held.
Reconciled(h, e, v) ==
  IF v # "none" THEN Accepted(h, e, v)
  ELSE Change(h, [h.mem EXCEPT !.state = "failed", !.hold = TRUE], "idle")

\* A stage the installer reports; a failure to save it is told by its result.
Reported(h, k, state) ==
  LET j == [h.mem EXCEPT !.state = state] IN
  IF h.up /\ h.at = "run" /\ h.for = k /\ h.mem.id = k
  THEN Written(h, j) \cup Broken(h, j)
  ELSE {h}
=============================================================================
