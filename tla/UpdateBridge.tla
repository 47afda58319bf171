----------------------------- MODULE UpdateBridge -----------------------------
(***************************************************************************)
(* The application beside the update host: it hears of the host by         *)
(* heartbeats, holds its own work and suspends its runtime for whom the    *)
(* host holds the workspace, and is what the installer asks, stops and     *)
(* starts. Composes UpdateHost, whose heartbeats are here the ones this    *)
(* application sends, with NativeLease.                                    *)
(*                                                                         *)
(* Heartbeats are calls on a local socket: one may be lost, or heard after *)
(* the application stopped waiting for it. Answers that wait on a socket   *)
(* are read before a request that was made after them is answered.         *)
(***************************************************************************)
EXTENDS UpdatePromises

CONSTANTS Dead, NoView

\* The application stays in one epoch: a workspace switch is not modelled.
ASSUME BridgeAssumption ==
  /\ Epochs # {} /\ \A d, e \in Epochs : d = e
  /\ Dead \notin Jobs \cup Maintenances \cup {None}

VARIABLES
  app,     \* the application's process
  call,    \* its heartbeat under way: what it said, and the host's answer
  late,    \* a heartbeat it stopped waiting for, which may still be heard
  runtime, \* the runtime process: Dead, None, or for whom it is suspended
  receipts \* the receipt of each native lease, on disk

bridge == <<app, call, late, runtime, receipts>>

allvars == <<vars, bridge>>

Lease == INSTANCE NativeLease

Ids == Jobs \cup Maintenances

View == [hold : Ids \cup {None}, waiting : BOOLEAN]

\* app.hold is for whom work is held and app.held whether it is: after a start
\* it may be for nobody known. app.verified is the lease this process verified,
\* app.at the await its refresh is in, app.for the id that await is about, and
\* app.seen what the host answered to this refresh.
App == [up : BOOLEAN, hold : Ids \cup {None}, held : BOOLEAN, work : BOOLEAN,
        verified : Ids \cup {None}, seen : View \cup {NoView},
        at : {"idle", "beat", "release", "acquire", "giveback", "final"},
        for : Ids \cup {None}]

NoCall == [beat |-> NoBeat, view |-> NoView]

Stopped == [up |-> FALSE, hold |-> None, held |-> FALSE, work |-> FALSE, verified |-> None,
            seen |-> NoView, at |-> "idle", for |-> None]

BridgeTypeOK ==
  /\ app \in App
  /\ call.beat \in Beat \cup {NoBeat} /\ call.view \in View \cup {NoView}
  /\ late \in Beat \cup {NoBeat}
  /\ runtime \in Ids \cup {None, Dead}
  /\ receipts \in [Ids -> Lease!Receipt]

BridgeInit ==
  /\ Init
  /\ app = Stopped /\ call = NoCall /\ late = NoBeat
  /\ runtime = Dead /\ receipts = [i \in Ids |-> Lease!NoReceipt]

PendingIds == {i \in Ids : Lease!Pending(receipts[i])}

\* What stands in the way of an update, as the application sees it: its own
\* work, and a runtime it is not connected to.
Blockers == IF app.work \/ runtime = Dead THEN {"work"} ELSE {"none", "work"}

\* The native lease of id i, as application a shows it.
Suspended(a, i) == i # None /\ a.verified = i /\ a.held

Says(a, blockers) ==
  [candidate |-> selected, epoch |-> CHOOSE e \in Epochs : TRUE, heldFor |-> a.hold,
   native |-> Suspended(a, a.hold), blockers |-> blockers]

-----------------------------------------------------------------------------
(* A refresh.                                                              *)

\* The application goes on as a, and waits for the answer to a heartbeat,
Beats(a, at, blockers) ==
  /\ app' = [a EXCEPT !.at = at, !.for = None]
  /\ call' = [beat |-> Says(a, blockers), view |-> NoView]

\* or waits for the runtime about id i, and claims nothing of it meanwhile,
Asks(a, at, i) == app' = [a EXCEPT !.at = at, !.for = i, !.verified = None] /\ call' = NoCall

\* or waits for the next refresh.
Rests(a) == app' = [a EXCEPT !.at = "idle", !.for = None, !.seen = NoView] /\ call' = NoCall

BeginRefresh ==
  /\ app.up /\ app.at = "idle"
  /\ \E b \in Blockers : Beats(app, "beat", b)
  /\ UNCHANGED <<vars, late, runtime, receipts>>

\* The host hears the heartbeat, and answers unless it refuses it.
HostHears ==
  /\ call.beat # NoBeat /\ Hears(call.beat)
  /\ call' = [beat |-> NoBeat,
              view |-> IF host'.up /\ ~operator'.uncertain
                       THEN [hold |-> HoldFor', waiting |-> host'.mem # NoJob /\ host'.mem.state = "waiting"]
                       ELSE NoView]
  /\ UNCHANGED <<app, late, runtime, receipts>>

HostHearsLate ==
  /\ late # NoBeat /\ late.candidate = selected /\ Hears(late) /\ late' = NoBeat
  /\ UNCHANGED <<app, call, runtime, receipts>>

\* A heartbeat is refused, or its answer does not come in time: the hold stays.
CallFails ==
  /\ app.at \in {"beat", "final"}
  /\ Rests(app)
  /\ late' \in {late} \cup ({call.beat} \ {NoBeat})
  /\ UNCHANGED <<vars, runtime, receipts>>

\* Fault: a host that waits for work is given its hold back at once, also where
\* the runtime may have been suspended for it.
ObeysAtOnce(a) ==
  LET i == a.seen.hold
      h == [a EXCEPT !.hold = i, !.held = (i # None)]
  IN IF i = None THEN Rests(h)
     ELSE \E b \in Blockers :
            \/ b = "none" /\ Asks(h, "acquire", i)
            \/ b # "none" /\ ~a.seen.waiting /\ Beats(h, "final", b)
            \/ b # "none" /\ a.seen.waiting
                 /\ Beats([h EXCEPT !.hold = None, !.held = FALSE], "final", b)

\* Every other lease is resolved: hold for whom the host holds, unless it only
\* waits for work that runs here. A lease that may be held is given back first.
Obeys(a) ==
  LET i == a.seen.hold
      h == [a EXCEPT !.hold = i, !.held = (i # None)]
  IN IF i = None THEN Rests(h)
     ELSE \E b \in Blockers :
            \/ b = "none" /\ Asks(h, "acquire", i)
            \/ b # "none" /\ ~a.seen.waiting /\ Beats(h, "final", b)
            \/ b # "none" /\ a.seen.waiting /\ i \in PendingIds /\ Asks(h, "giveback", i)
            \/ b # "none" /\ a.seen.waiting /\ i \notin PendingIds
                 /\ Beats([h EXCEPT !.hold = None, !.held = FALSE], "final", b)

\* Leases of ids the host does not hold for are resolved one after the other.
Reconciles(a, unresolved) ==
  IF unresolved = {} THEN Obeys(a)
  ELSE \E i \in unresolved : Asks([a EXCEPT !.hold = i, !.held = TRUE], "release", i)

BeatAnswered ==
  /\ app.at = "beat" /\ call.view # NoView
  /\ Reconciles([app EXCEPT !.seen = call.view], (PendingIds \cup {app.hold}) \ {None, call.view.hold})
  /\ UNCHANGED <<vars, late, runtime, receipts>>

FinalAnswered ==
  /\ app.at = "final" /\ call.view # NoView /\ Rests(app)
  /\ UNCHANGED <<vars, late, runtime, receipts>>

\* A call of the native lease about app.for left x.
Leaves(x) == receipts' = [receipts EXCEPT ![app.for] = x.receipt] /\ runtime' = x.runtime

After(x) == [app EXCEPT !.verified = IF x.verified THEN app.for ELSE None]

\* Another lease is resolved, or blocks this refresh, which then ends held.
Resolved ==
  /\ app.at = "release"
  /\ \E x \in Lease!Released(receipts[app.for], runtime, app.for) :
       /\ Leaves(x)
       /\ IF x.ok THEN Reconciles(After(x), PendingIds \ {app.for, app.seen.hold})
          ELSE Rests(After(x))
  /\ UNCHANGED <<vars, late>>

\* Fault: the hold is given back whatever blocks it.
AcquiredElseGiven ==
  /\ app.at = "acquire"
  /\ \E x \in Lease!Prepared(receipts[app.for], runtime, app.for), b \in Blockers :
       /\ Leaves(x)
       /\ IF x.ok /\ b = "none" THEN Beats(After(x), "final", "none")
          ELSE Asks(After(x), "giveback", app.for)
  /\ UNCHANGED <<vars, late>>

\* What blocks is looked at again once the runtime answered. A host that only
\* waits is given its hold back.
Acquired ==
  /\ app.at = "acquire"
  /\ \E x \in Lease!Prepared(receipts[app.for], runtime, app.for), b \in Blockers :
       /\ Leaves(x)
       /\ IF x.ok /\ b = "none" THEN Beats(After(x), "final", "none")
          ELSE IF app.seen.waiting THEN Asks(After(x), "giveback", app.for)
          ELSE Beats(After(x), "final", "work")
  /\ UNCHANGED <<vars, late>>

GivenBack ==
  /\ app.at = "giveback"
  /\ \E x \in Lease!Released(receipts[app.for], runtime, app.for) :
       /\ Leaves(x)
       /\ Beats(IF x.ok THEN [After(x) EXCEPT !.hold = None, !.held = FALSE] ELSE After(x),
                "final", "work")
  /\ UNCHANGED <<vars, late>>

-----------------------------------------------------------------------------
(* The application's life, and its runtime's, which ends with it.          *)

RuntimeEnds ==
  /\ runtime' = Dead /\ receipts' = [i \in Ids |-> [receipts[i] EXCEPT !.mine = FALSE]]

Ends ==
  /\ app' = Stopped /\ call' = NoCall /\ RuntimeEnds
  /\ late' \in {late} \cup ({call.beat} \ {NoBeat})

\* A start asks the host once, and holds work while it does not know, or has a
\* lease to resolve. The installer keeps the application stopped meanwhile.
AppStarts ==
  /\ ~app.up /\ \A k \in Jobs : runner[k] \notin {"switched", "restoring"}
  /\ \E known \in {FALSE} \cup {host.up} :
       LET hold == IF known THEN HoldFor ELSE None IN
       app' = [Stopped EXCEPT !.up = TRUE, !.hold = hold,
                              !.held = ~known \/ hold # None \/ PendingIds # {}]
  /\ UNCHANGED <<vars, call, late, runtime, receipts>>

AppCrashes == app.up /\ Ends /\ UNCHANGED vars

RuntimeStarts ==
  /\ app.up /\ runtime = Dead /\ runtime' = None /\ UNCHANGED <<vars, app, call, late, receipts>>

RuntimeDies ==
  /\ runtime # Dead /\ RuntimeEnds /\ app' = [app EXCEPT !.verified = None]
  /\ UNCHANGED <<vars, call, late>>

\* The lease's connection changes, or its suspension has little time left.
Doubts ==
  /\ app.verified # None /\ app' = [app EXCEPT !.verified = None]
  /\ UNCHANGED <<vars, call, late, runtime, receipts>>

\* A suspension that is not renewed ends by itself.
Expires ==
  /\ runtime \in Ids /\ app.verified # runtime /\ runtime' = None
  /\ UNCHANGED <<vars, app, call, late, receipts>>

\* Work begins only where it is not held, and ends at any time.
Work ==
  /\ app.up /\ (app.work \/ ~app.held) /\ app' = [app EXCEPT !.work = ~app.work]
  /\ UNCHANGED <<vars, call, late, runtime, receipts>>

-----------------------------------------------------------------------------
(* The installer and the application.                                      *)

\* The installer's acceptance of the live application.
Accepts(k) ==
  /\ app.up /\ app.hold = k /\ Suspended(app, k) /\ "none" \in Blockers
  /\ call.view = NoView

\* The steps that need it, that stop the application, that need it stopped, and
\* the rest.
Installs(k) ==
  \/ /\ RunnerPrepares(k) \/ RunnerAdmits(k) \/ RunnerAccepts(k)
     /\ Accepts(k) /\ UNCHANGED bridge
  \/ (RunnerStops(k) \/ RunnerRestores(k)) /\ Ends
  \/ (RunnerSwitches(k) \/ RunnerReturns(k)) /\ ~app.up /\ UNCHANGED bridge
  \/ (RunnerChecks(k) \/ RunnerPublishes(k) \/ RunnerDies(k)) /\ UNCHANGED bridge

\* Requests reach the host through the application.
Asked == (Request \/ Cancel) /\ app.up /\ UNCHANGED bridge

Alone ==
  /\ \/ Stale \/ Poll \/ PrepareReturns \/ Progress \/ PreflightReturns \/ ReconcileReturns
     \/ AwaitFails \/ RunReturns \/ Operate \/ SwitchFrontend
     \/ Stop \/ Crash \/ Restart \/ Refresh \/ Launch
  /\ UNCHANGED bridge

BridgeNext ==
  \/ BeginRefresh \/ HostHears \/ HostHearsLate \/ CallFails
  \/ BeatAnswered \/ FinalAnswered \/ Resolved \/ Acquired \/ GivenBack
  \/ AppStarts \/ AppCrashes \/ RuntimeStarts \/ RuntimeDies \/ Doubts \/ Expires \/ Work
  \/ Asked \/ Alone \/ \E k \in Jobs : Installs(k)

BridgeSpec == BridgeInit /\ [][BridgeNext]_allvars

-----------------------------------------------------------------------------
(* Safety.                                                                 *)

\* An authority past the point where it may stop the application or change its
\* data: an admitted installer, or an operator who may have stopped it and has
\* not yet proved its return.
Beyond ==
  \/ \E k \in Jobs : runner[k] \notin {"none", "validating", "preparing", "exited"}
  \/ \E i \in Maintenances :
       operator.disk[i] # NoLease /\ operator.disk[i].stopMarked
         /\ operator.disk[i].releaseKind = "none"

\* Beyond that point no work runs or can begin in the application.
NobodyWorks == Beyond => ~app.work /\ (app.up => app.held)

\* The application never opens for work while its runtime is suspended.
SuspendedIsHeld == runtime \in Ids => app.held

-----------------------------------------------------------------------------
(* Refreshes follow one another every two or thirty seconds, every await   *)
(* of one ends, the socket works time and again, and a runtime that keeps  *)
(* running resumes in the end, connects and lists its models.              *)

\* A lease of another id is resolved.
Resolves == Resolved /\ ~Lease!Pending(receipts'[app.for])

\* The next step of a refresh, or the next refresh.
Goes == BeginRefresh \/ CallFails \/ FinalAnswered \/ Acquired \/ GivenBack \/ Resolved

Fair ==
  /\ WF_allvars(Goes)
  /\ SF_allvars(HostHears) /\ SF_allvars(BeatAnswered) /\ SF_allvars(Resolves)

BridgeLiveSpec == BridgeSpec /\ Fair

\* Nobody is held for any more, the host can tell, and everything runs.
Calm == host.up /\ ~operator.uncertain /\ HoldFor = None /\ app.up /\ runtime # Dead

\* Once nobody is held for and everything keeps running, the application opens
\* for work for good, whatever was lost or unresolved before.
HoldEnds == <>[]Calm => <>[](~app.held)
=============================================================================
