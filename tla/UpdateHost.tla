------------------------------ MODULE UpdateHost ------------------------------
(***************************************************************************)
(* The update host: a controller process that runs the supervisor of       *)
(* UpdateSupervisor and the leases of UpdateLeases, and the installer it   *)
(* launches, a process of its own that survives the controller. Heartbeats *)
(* of the workspace come with any content at any time; the installer talks *)
(* to the controller only by asking whether it still holds this job.       *)
(***************************************************************************)
EXTENDS UpdateSupervisor

CONSTANT Disturbances \* bound: what the world around the host does in this instance

ASSUME DisturbanceAssumption == Disturbances \subseteq {"crash", "stop", "feed", "epoch"}

VARIABLES
  host,      \* the supervisor and its journal
  operator,  \* the operator lease
  frontend,  \* the frontend lease
  beat,      \* the last heartbeat
  fresh,     \* it is less than ten seconds old
  feed,      \* the verified release, "checking" or "lost"
  selected,  \* the candidate the application pointer selects
  runner,    \* the installer of each job
  verdict    \* the result file of each job

vars == <<host, operator, frontend, beat, fresh, feed, selected, runner, verdict>>

Verdicts == {"none", "completed", "restored", "unchanged"}

\* A verdict as a stage is accepted and not yet published.
Stages == Verdicts \cup {"validating", "preparing", "admitted", "stopped", "switched", "checking",
                         "restoring", "returned", "exited"}

TypeOK ==
  /\ host \in Supervisor
  /\ operator \in OperatorLeases /\ frontend \in FrontendLeases
  /\ beat \in Beat \cup {NoBeat} /\ fresh \in BOOLEAN
  /\ feed \in Revisions \cup {"checking", "lost"}
  /\ selected \in Nat
  /\ runner \in [Jobs -> Stages] /\ verdict \in [Jobs -> Verdicts]

Init ==
  /\ host = [journal |-> [k \in Jobs |-> NoJob], current |-> None, mem |-> NoJob,
             at |-> "idle", for |-> None, stopped |-> FALSE, up |-> TRUE]
  /\ operator = NoLeases(Maintenances) /\ frontend = NoLeases(Switches)
  /\ beat = NoBeat /\ fresh = FALSE
  /\ feed \in Revisions /\ selected = 0
  /\ runner = [k \in Jobs |-> "none"] /\ verdict = [k \in Jobs |-> "none"]

Env == [beat |-> beat, fresh |-> fresh, feed |-> feed, selected |-> selected]

\* Another authority keeps the supervisor from working.
Busy == OperatorActive(operator) \/ FrontendActive(frontend)

\* An installation is not settled, in the controller's own eyes.
Installing == host.at # "idle" \/ Unsettled(host.mem)

\* What the host answers every heartbeat: for whom the workspace is held.
HoldFor ==
  IF OperatorActive(operator) THEN OperatorHoldFor(operator)
  ELSE IF host.mem # NoJob /\ host.mem.hold THEN host.mem.id
  ELSE None

installer == <<selected, runner, verdict>>

\* What the controller remembers: the operator lease o and the heartbeat b, or
\* nothing but its files once its process has exited.
Remembers(o, b, f) ==
  /\ operator' = IF host'.up THEN o ELSE Forgotten(o)
  /\ frontend' = IF host'.up THEN frontend ELSE Forgotten(frontend)
  /\ beat' = (IF host'.up THEN b ELSE NoBeat) /\ fresh' = (host'.up /\ f)

-----------------------------------------------------------------------------
(* The controller's handlers.                                              *)

\* The controller hears heartbeat b. A failed save of the operator lease refuses
\* it, once it is recorded.
Hears(b) ==
  LET e == [Env EXCEPT !.beat = b, !.fresh = TRUE] IN
  /\ host.up
  /\ \E o \in Observed(operator, e) :
       /\ host' \in IF o.uncertain THEN {host}
                    ELSE Heard(host, e, OperatorActive(o) \/ FrontendActive(frontend))
       /\ Remembers(o, b, TRUE)
  /\ UNCHANGED <<feed, installer>>

\* One for another candidate than the selected one is refused. The suspension it
\* reports is that of the lease it is held for.
Heartbeat ==
  \E b \in [candidate : {selected}, epoch : Epochs, native : BOOLEAN,
            heldFor : {None} \cup {k \in Jobs : host.journal[k] # NoJob}
                             \cup {i \in Maintenances : operator.disk[i] # NoLease},
            blockers : {"none", "work", "switch"}] :
    /\ beat # NoBeat /\ b.epoch # beat.epoch => "epoch" \in Disturbances
    /\ b.native => b.heldFor # None
    /\ Hears(b)

\* Ten seconds pass without one.
Stale ==
  /\ host.up /\ fresh /\ fresh' = FALSE
  /\ UNCHANGED <<host, operator, frontend, beat, feed, installer>>

\* A supervisor's own step.
Supervise(hs) ==
  /\ host.up /\ host' \in hs /\ Remembers(operator, beat, fresh)
  /\ UNCHANGED <<feed, installer>>

Poll == Supervise(Kick(host, Env, Busy))

Request == \E k \in Jobs, when \in {"now", "idle"} : Supervise(Requested(host, Env, k, when, Busy))

Cancel == \E k \in Jobs : Supervise(Cancelled(host, k))

PrepareReturns == host.at = "prepare" /\ Supervise(Prepared(host, Env))

\* A chunk of the package arrived: the job is saved with the new count.
Progress ==
  /\ host.at = "prepare" /\ host.mem.id = host.for /\ host.mem.state # "cancelled"
  /\ Supervise(Change(host, host.mem, "prepare"))

PreflightReturns == host.at = "preflight" /\ Supervise(Qualified(host, Env))

ReconcileReturns ==
  host.at = "reconcile" /\ Supervise(Reconciled(host, Env, verdict[host.for]))

\* The package, the preflight or the installer's own verification fails.
AwaitFails ==
  /\ host.at \in {"prepare", "preflight", "run"}
  /\ host.at = "run" => runner[host.for] \in {"none", "exited"}
  /\ Supervise(Fails(host))

\* The installer ended, and its result file is there.
RunReturns ==
  /\ host.at = "run" /\ runner[host.for] = "exited" /\ verdict[host.for] # "none"
  /\ Supervise(Accepted(host, Env, verdict[host.for]))

\* The requests of the operator and of a frontend switch.
Operate ==
  \E i \in Maintenances, epoch \in Epochs :
    LET idle == ~Installing /\ ~FrontendActive(frontend) IN
    /\ host.up
    /\ operator' \in Entered(operator, Env, i, epoch, idle)
                       \cup Marked(operator, Env, i, idle)
                       \cup OperatorCancelled(operator, Env, i, idle)
                       \cup Released(operator, Env, i, idle)
    /\ UNCHANGED <<host, frontend, beat, fresh, feed, installer>>

SwitchFrontend ==
  \E i \in Switches, epoch \in Epochs :
    LET idle == ~Installing /\ ~OperatorActive(operator) IN
    /\ host.up
    /\ frontend' \in Begun(frontend, Env, i, epoch, idle)
                       \cup Ended(frontend, Env, i)
                       \cup CancelledBeforeBegin(frontend, Env, i, epoch, idle)
    /\ UNCHANGED <<host, operator, beat, fresh, feed, installer>>

-----------------------------------------------------------------------------
(* The controller's life.                                                  *)

\* A supervisor told to stop starts nothing more; its process ends soon.
Stop ==
  /\ "stop" \in Disturbances /\ ~host.stopped
  /\ Supervise({[host EXCEPT !.stopped = TRUE]})

Crash == ("crash" \in Disturbances \/ host.stopped) /\ Supervise({Exited(host)})

\* A controller that finds two authorities on its disk does not start.
Restart ==
  LET o == Loaded(operator)
      f == Loaded(frontend)
      j == IF host.current = None THEN NoJob ELSE host.journal[host.current] IN
  /\ ~host.up
  /\ OperatorActive(o) => ~FrontendActive(f) /\ ~Unsettled(j)
  /\ FrontendActive(f) => ~Unsettled(j)
  /\ host' = [host EXCEPT !.up = TRUE, !.mem = j]
  /\ operator' = o /\ frontend' = f
  /\ UNCHANGED <<beat, fresh, feed, installer>>

\* The release feed is read again, and may verify other contents or none.
Refresh ==
  /\ "feed" \in Disturbances
  /\ \E x \in Revisions \cup {"checking", "lost"} : feed' = x
  /\ UNCHANGED <<host, operator, frontend, beat, fresh, installer>>

-----------------------------------------------------------------------------
(* The installer, a process of its own.                                    *)

\* request.json is written once; an attempt that has it is never repeated.
Launch ==
  /\ host.up /\ host.at = "run" /\ runner[host.for] = "none"
  /\ runner' = [runner EXCEPT ![host.for] = "validating"]
  /\ UNCHANGED <<host, operator, frontend, beat, fresh, feed, selected, verdict>>

\* The installer asks the controller whether it still holds this job.
Holds(k) == host.up /\ HoldFor = k /\ host.mem # NoJob /\ host.mem.id = k

Moves(k, from, to) ==
  /\ runner[k] \in from
  /\ runner' = [runner EXCEPT ![k] = to]
  /\ UNCHANGED <<operator, frontend, beat, fresh, feed>>

Selects(k, n) == selected' = host.journal[k].from + n

RunnerPrepares(k) ==
  /\ Holds(k) /\ Moves(k, {"validating"}, "preparing")
  /\ host' \in Reported(host, k, "preparing") /\ UNCHANGED <<selected, verdict>>

\* What was last asked before the application is stopped and saved.
RunnerAdmits(k) ==
  /\ Holds(k) /\ Moves(k, {"preparing"}, "admitted") /\ UNCHANGED <<host, selected, verdict>>

RunnerStops(k) == Moves(k, {"admitted"}, "stopped") /\ UNCHANGED <<host, selected, verdict>>

RunnerSwitches(k) ==
  /\ Moves(k, {"stopped"}, "switched") /\ Selects(k, 1)
  /\ host' \in Reported(host, k, "installing") /\ UNCHANGED verdict

RunnerChecks(k) ==
  /\ Moves(k, {"switched"}, "checking")
  /\ host' \in Reported(host, k, "checking") /\ UNCHANGED <<selected, verdict>>

\* A failure once the switch was tried, and before its result is published,
\* restores the previous pair.
RunnerRestores(k) ==
  /\ Holds(k) /\ Moves(k, {"stopped", "switched", "checking", "completed"}, "restoring")
  /\ UNCHANGED <<host, selected, verdict>>

RunnerReturns(k) ==
  /\ Moves(k, {"restoring"}, "returned") /\ Selects(k, 0)
  /\ host' \in Reported(host, k, "checking") /\ UNCHANGED verdict

\* The application that runs is accepted, under the hold. A failure before the
\* switch leaves everything as it was.
RunnerAccepts(k) ==
  /\ Holds(k) /\ UNCHANGED <<host, selected, verdict>>
  /\ \/ Moves(k, {"checking"}, "completed")
     \/ Moves(k, {"returned"}, "restored")
     \/ Moves(k, {"validating", "preparing", "admitted", "stopped"}, "unchanged")

\* The result is published, with one rename.
RunnerPublishes(k) ==
  /\ Moves(k, Verdicts \ {"none"}, "exited")
  /\ verdict' = [verdict EXCEPT ![k] = runner[k]] /\ UNCHANGED <<host, selected>>

\* It fails, or is killed, without a result.
RunnerDies(k) ==
  /\ Moves(k, Stages \ {"none", "exited"}, "exited")
  /\ UNCHANGED <<host, selected, verdict>>

Runner(k) ==
  \/ RunnerPrepares(k) \/ RunnerAdmits(k) \/ RunnerStops(k) \/ RunnerSwitches(k)
  \/ RunnerChecks(k) \/ RunnerRestores(k) \/ RunnerReturns(k)
  \/ RunnerAccepts(k) \/ RunnerPublishes(k) \/ RunnerDies(k)

Next ==
  \/ Heartbeat \/ Stale \/ Poll \/ Request \/ Cancel
  \/ PrepareReturns \/ Progress \/ PreflightReturns \/ ReconcileReturns
  \/ AwaitFails \/ RunReturns
  \/ Operate \/ SwitchFrontend
  \/ Stop \/ Crash \/ Restart \/ Refresh
  \/ Launch \/ \E k \in Jobs : Runner(k)

Spec == Init /\ [][Next]_vars

-----------------------------------------------------------------------------
(* Safety.                                                                 *)

\* From its launch to its result, through every crash of the controller, an
\* installation is the selected job on disk, started and holding, and a
\* controller that is up answers every heartbeat with its hold.
HoldCoversInstaller ==
  \A k \in Jobs : runner[k] # "none" /\ verdict[k] = "none" =>
    /\ host.current = k /\ host.journal[k].started /\ host.journal[k].hold
    /\ host.up => HoldFor = k

\* A started job that let the workspace go has a result, states it, and its
\* candidate is selected as long as no other job is.
SettledIsTrue ==
  \A k \in Jobs : host.journal[k] # NoJob /\ host.journal[k].started /\ ~host.journal[k].hold =>
    /\ verdict[k] # "none" /\ runner[k] = "exited"
    /\ host.journal[k].state = (IF verdict[k] = "unchanged" THEN "failed" ELSE verdict[k])
    /\ host.current = k =>
         selected = host.journal[k].from + (IF verdict[k] = "completed" THEN 1 ELSE 0)

\* Installation, operator maintenance and a frontend switch exclude each other
\* in a running controller, also after a save that threw and after a restart.
OneAuthority ==
  host.up =>
    /\ ~(Installing /\ Busy)
    /\ ~(OperatorActive(operator) /\ FrontendActive(frontend))

\* From the moment the application may be stopped until its return is proved,
\* an operator lease is the current one on disk, and a controller that knows
\* it answers every heartbeat with its hold.
StoppedIsHeld ==
  \A i \in Maintenances : operator.disk[i] # NoLease /\ operator.disk[i].stopMarked
                            /\ operator.disk[i].phase \notin {"releasing", "released"} =>
    /\ operator.current = i
    /\ host.up /\ ~operator.uncertain => HoldFor = i

\* The cancellation of job k was acknowledged, or nobody works on the job that
\* could not tell.
CancelKept(k) ==
  /\ host.journal[k] # NoJob /\ host.journal[k].state = "cancelled"
  /\ host.mem # NoJob /\ host.mem.id = k => host.mem.state = "cancelled"

\* A cancelled job stays cancelled, whatever its functions still await, unless
\* the cancellation was never acknowledged: its save threw and the controller
\* still works on the job.
CancelledStays == [][\A k \in Jobs : CancelKept(k) => CancelKept(k)']_vars

\* A job starts only when the workspace, heard just now from the candidate and
\* the epoch the job was asked of, is idle and acknowledges the hold for it.
StartIsAdmitted ==
  [][\A k \in Jobs : host'.at = "run" /\ host'.for = k /\ host.at # "run" =>
       /\ beat.heldFor = k /\ beat.native /\ beat.blockers = "none" /\ fresh
       /\ beat.epoch = host'.mem.epoch /\ selected = host'.mem.from
       /\ feed = host'.mem.release /\ ~host.stopped /\ ~Busy]_vars

\* An installation and a lease exclude each other on the disk as well. Not so:
\* a request whose save threw after it persisted is on the disk and not in the
\* controller's memory, where the leases look for it.
DurableExclusion ==
  host.current # None /\ Unsettled(host.journal[host.current]) =>
    ~OperatorActive(Loaded(operator)) /\ ~FrontendActive(Loaded(frontend))
=============================================================================
