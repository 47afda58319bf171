# Nova Dream: specifications, model checking and proofs

Nova Dream is a self-hosted workspace of one owner. Its service (`src/apps/service`)
keeps records in an encrypted store and acts for the owner on other programs:
the OpenClaw runtime, Gmail and Outlook, calendars, the update runner. Everything
that is hard about it follows from one rule, applied again and again: the
identity of the original request is kept, a durable marker is written before an
effect on another program, an outcome that is not known is never repeated, and
only observation settles it. This project states that rule once and shows that
components of the service implement it.

## Reading order

| Module | What it is |
| --- | --- |
| `DurableEffect` | what any component promises about one effect elsewhere |
| `DurableEffectProofs` | its invariants, proved for any set of effects |
| `GroupExecution` | one Group reply: session, turn, stop, observation |
| `GroupPromises` | its refinement of `DurableEffect`, fairness, liveness |
| `GroupProofs` | its types, invariants, action properties and refinement |
| `MailDelivery` | saved mail operations on provider drafts |
| `MailPromises` | its refinement of `DurableEffect`, fairness, liveness |
| `MailProofs`, `MailSendProofs` | records, requests, kinship and refinement; versions, ownership and the one send |
| `UpdateLeases` | the operator's and the frontend's lease on the host |
| `UpdateSupervisor` | the host's installer: one durable job and its awaits |
| `UpdateHost` | the controller that runs them, and the installer process |
| `UpdatePromises` | its refinement of `DurableEffect`, fairness, liveness |
| `UpdateHostProofs` | all properties of the update host but liveness, and its refinement |
| `NativeLease` | the application's lease on its runtime, with its receipts |
| `UpdateBridge` | the application beside `UpdateHost`: heartbeats, hold, suspension |
| `UpdateBridgeProofs` | its safety, and that it leaves the host as `UpdateHost` has it |
| `Accounts` | sign-in, token refresh and disconnection of connected accounts |
| `CalendarWrites` | changes of calendar events, over `Accounts` |
| `CalendarPromises` | their refinement of `DurableEffect`, consent and ownership |
| `CalendarProofs` | all of their properties |
| `MailTriage` | plans that move many messages, their undo and restore |
| `TriagePromises` | their refinement of `DurableEffect`, locks and claims, fairness |
| `TriageProofs` | all of their properties |
| `MCGroupExecution`, `MCMailDelivery`, `MCUpdateHost`, `MCCalendarWrites`, `MCMailTriage`, `MCUpdateBridge` | small instances for TLC |

A definition whose comment begins with "Fault" is not part of a model. It is the
next definition with a plausible bug, and `PROJECT.json` names the property that
notices when it is put in its place. Run a configuration with
`tlc -config Group.cfg MCGroupExecution.tla` and a proof module with
`tlapm GroupProofs.tla`.

## Inventory

State, operations and hard behaviour of each part; the list with its files is in
`PROJECT.json`.

- **Store** (`store.ts`). Encrypted SQLite records, receipts by request identity,
  epoch, update hold, recovery pause. Every write is one synchronous transaction:
  `admit` finds the receipt of a replayed request or prepares and writes a new
  one. Hard: replays, holds set while a caller waits. Correct when a request is
  admitted once and nothing is written under a hold.
- **Gateway connection** (`gateway.ts`) and **runtime process** (`runtime.ts`).
  Requests with timeouts to OpenClaw, its events, its lifetime, registration and
  selected account. Hard: lost and late replies, restarts of the runtime.
- **Group execution** (`assistant-group-execution.ts`, `group-execution-owner.ts`,
  `packages/domain/assistant-group-execution.ts`). A child record per reply with
  two phases (setup, send), a stop, and an event history. Commands are admitted
  by the Store and start one asynchronous function each. Hard: every await;
  calls that outlive their caller; events before acknowledgements; restart.
- **Group preparation** (`assistant-groups.ts`, `assistant-group-turns.ts`).
  Membership and prepared rounds, in single transactions.
- **Assistant conversations** and **direct agents** (`assistant.ts`,
  `direct-agent*.ts`). Turns, queues, events, reconciliation, plans. The same
  protocol with more operations.
- **Saved mail operations** (`mail-delivery.ts`, `provider-mail-delivery.ts`,
  `outlook-draft-files.ts`). Reviews, confirmation, staged execution at a
  provider, draft ownership, reconciliation. Hard: a request whose answer is
  lost, edits in the provider's own program, restart between two writes, several
  kept messages on one draft.
- **Accounts and sign-in** (`accounts.ts`, `chatgpt-account.ts`). One record, one
  credential and one generation per connection; attempts to sign in; one refresh
  of a connection at a time; every provider call of mail and calendar goes through
  it. Hard: disconnection, another sign-in or a refusal during each await. Correct
  when nothing from before a disconnection revives it.
- **Calendar writes** (`calendar-write.ts`, `provider-calendar-write.ts`). A review
  of one change of one event, one conditional request behind one marker,
  observation. Hard: two waits of Accounts between the owner's word and the
  request, edits elsewhere, a lost answer. Correct when a draft makes one event.
- **Mail triage** (`mail-triage.ts`, `provider-mail-triage.ts`). A plan over many
  messages with an undo, restores of earlier deletes, a lock per message, a claim
  per delete, one marker per step. Hard: steps of several messages side by side,
  plans that wait for the same message, restart between two steps of one message.
  Correct when each step is made once and each message is one plan's.
- **Software update**: on the host `update-supervisor.ts`, `operator-maintenance.ts`,
  `frontend-lease.ts`, `update-installer.ts`; in the service `software-updates.ts`,
  `update-native-idle.ts`, `update-maintenance.ts`, `service-drain.ts`; and the
  Python runner. Three journals that exclude each other, a heartbeat with a
  lifetime of ten seconds, a hold, and a runner that may be started once.
- **Voice calls**, **uploads**, **approvals and questions**, **assignments, teams
  and meetings**, **news feed and its sealed history**, **conversation removal**,
  **workspace host, backup and recovery**, **HTTP service**, **personal records**,
  **client**, **desktop shell**, **release scripts**: see `PROJECT.json` for each
  one's state and why it is left out or later.

They interact through the Store (shared records and the hold), the Gateway
(calls and events) and callbacks of the service. The service is one thread:
code between two awaits is atomic, and every await is a point where anything
else may happen. That is the grain of the actions here.

## The abstract promise: `DurableEffect`

An effect has a claim kept by the workspace (`unsent`, `pending`, `maybe`,
`known`), calls under way and times it took place. The one step that makes a call
is the one that raises the claim to `maybe`; a claim falls back to `unsent` only
from `pending` or after a proof that nothing happened and nothing will. Proved
for any set of effects (`PromiseKept`): an effect takes place at most once,
nothing is claimed less than it may have been, and what is called known took
place. The inductive invariant (`AllSound`) bounds calls under way plus effects
by the claim; "at most once" alone is not inductive, because it does not say
that a pending effect has no call under way.

## Group execution

**State.** `setup`, `send`, `stop`, `bound`, `revision` are the fields of a
child's record in the Store (`phaseSchema`, the stop schemas, `nativeId`, the
length of the history). `flight` is the running asynchronous function of each
kind with what it captured: the attempt (a new `commandId` per continuation),
the lifetime and registration it saw, whether its snapshot held a setup proof.
`lease` is the proof under which this process listens to events of the turn it
sent, `registered` the owner's first registration per lifetime. `held`,
`available`, `up`, `life`, `reg`, `acct` are the world; `wire`, `landed`, `run`
what happens at OpenClaw.

**Actions.** One per command (`AdmitSetup`, `AdmitSend`, `ContinueSetup`,
`ContinueSend`, `AdmitStop`, `ContinueStop`, `Observe`), one per stretch of code
between two awaits (`PolicyReply`, `SetupDispatch`, `CreateReply`, `SetupReady`,
`HistoryReply`, `SendDispatch`, `SendAck`, `StopDispatch`, `ObserveSetup`,
`ObserveSend`, `WaitReply`, `ObserveVerdict`), one per way a flight ends early
(`FailSetup`, `FailSend`, `EndStop`, `EndObserve`), `AbortedEvent`, `Close`,
`Restart`, and the actions of the world. A check of the code that fails, a
refusal, a timeout and a lost connection all end the flight in the same way.

**Properties.** At most one session, turn and abort per child (`AtMostOneCall`,
which is proved; in the runs it is part of `EachCallIsDurable`); verdicts are what
happened (`VerdictIsTrue`); one runtime proof through the life of a child (`OneLineage`);
no flight of an old attempt survives into a new one (`NoOverlap`); nothing is written or called under the hold, a
recovery pause or after close (`NothingWhilePaused`); a turn is sent only while
everything read before its awaits still holds (`SendUnderAuthority`); verdicts,
markers and proofs are never taken back (`NothingUnsaid`); sessions and verdicts
are found by observation alone (`SessionIsFound`, `VerdictIsFound`); every call
implements `DurableEffect` (`EachCallIsDurable`, from which `UnsentIsTrue`, that
"not dispatched" is a proof, follows; the theorem states it by itself).

**Bounds.** One child: children share only the world and `registered`, and every
property is about one child, while the proofs hold for any number. Two attempts
per phase, so that a continuation follows a failure; the code's limit is four and
the proofs hold for every limit. Two runtime lifetimes, registrations and
accounts, so that each can change between two awaits. `Disturbances` selects what
the world does in an instance. `Group` has all of it, and its constraint `OneTrouble`
bounds what comes together in one behaviour: a phase asked again and a pause (hold,
revocation, close), one of each at a time, under one runtime; or a new lifetime or a
new registration of the runtime, and changes of the account, beside first attempts
of a service that is not paused. The proofs hold for any combination. Restart is
possible throughout.

**Fairness.** Only reconciliation is fair. The owner keeps asking to observe; a
flight ends because every Gateway request has a timeout; and an observation that
is tried again and again is in the end answered (strong fairness, since the
connection and the hold come and go). Commands, calls, events and the runtime get
no fairness. Both liveness properties assume that the runtime, registration and
account of the child are back for good (`Stable`), as the code refuses to take a
verdict under any other.

**Proofs.** For all constants: `TypeCorrect`, then the inductive invariant
`SafeInv` in five parts. `Marked` counts calls behind their markers; `LineageInv`
says that marker and proof are written together and that later proofs equal the
setup's; `Witness` says that what a flight remembers of the runtime is still so,
which is why a verdict after two more awaits is true; `TruthInv` relates verdicts
to the runtime; `NoOverlap` stands alone. The stated invariants are weaker and not
inductive: `AtMostOneCall` needs to know that an unmarked phase has no call under
way, `VerdictIsTrue` needs the memory of flights. The two action properties and
`NothingWhilePaused` follow step by step, and so does
`EachCallIsDurable` (`CallsAreDurable`), which needs `SafeInv` and what a record's
state tells of its marker (`ToldInv`). The refinement is proved as in every component:
one lemma per action says that it moves one effect of the child, by one of the moves
of `DurableEffect`, and leaves the others; `DurableEffectProofs` has shown once
that such moves make a step of the promise (`Moves`). A stop that no session tracks has no marker, and
only its live flight tells `pending` from `maybe`: that is why the refinement needs
that a live stop flight goes with an unsettled stop. The liveness properties are
model-checked only, because their fairness speaks of ENABLED.

## Saved mail operations

**State.** `head` is an operation's record (state, what was asked, its writer, its
previous operation, draft, completed stages, marker, version reviewed), `owner`
the ownership index of drafts, `job` the running function. `version`, `content`,
`marker`, `sent` are the provider: content is represented by who wrote it, change
key, etag and fingerprint by a version. `Plan` gives the stages of what was asked;
a file change of an Outlook draft is a stage of its own, because it is marked,
called and read back like one. A reply saved in Outlook has a second stage unless
it has attachments; without it the operation is one that creates a draft.

**Actions.** `Prepare` (with `openDraft`) and `PrepareNext`, `ReadDraft`,
`Prepared`, `Opened`, `NotPrepared`; `Confirm`, `Cancel`; `Read`, `Dispatch`,
`Answered`, `Finish`, `Fail` for the loop of `execute` and its catch; `Check`,
`Found`, `NotFound` for reconciliation; `Close`, `Restart`; `Land`, `Refuse` and
`Edit` for the provider. A request may land after its caller gave up or died.

**Properties.** One send per kept message (`OneSendPerWriting`), of what was
reviewed (`ReviewedIsSent`, Outlook; Gmail offers no condition on a draft); one
request under way per draft (`OneHandPerDraft`); a working operation keeps its
draft (`WorkKeepsItsDraft`); one live next version (`OneNextVersion`); each stage
implements `DurableEffect` (`EachStageIsDurable`), which bounds what may still
arrive after an operation is over; runs end (`RunsEnd`) and doubt is settled when
the provider can show what happened (`DoubtIsSettled`).

**Bounds.** Three operations (a draft, its next version, a copy opened by another
message) of two writers, one outside draft and one edit from outside: the least
that lets a draft change hands while a request is under way. `Scenarios` says at
which provider a behaviour plays and what is asked and happens in it: at Outlook
restarts at every point, at Gmail, whose changes carry no condition and whose
marker an outside edit may drop, the hold and a close. Identities are symmetric in
the safety run. Deadlock is not checked: a bounded set of operations comes to an
end.

**Fairness.** Functions of the service end because provider requests time out; an
owner in doubt keeps checking, and a check repeated again and again is answered.

Which of two newest operations `prepare` takes when a cancellation leaves two is
the order of their random identities; the model takes either, and nothing is
promised of that choice. `TypeOK` is stated and no run checks it; it is proved.

**Proofs.** All of these properties but liveness, for all constants that meet
`MailAssumption`: `None` and "nothing" name no draft or writer, an outside draft no
operation, and files are changed only in Outlook. Sets of identities may be infinite. `MailProofs` has what the
records say. `Inv` ties a record to its function, to the request it has under way
and to what took place: the stages completed are those that took place, in order,
and a request is for the next one. Most actions are the turn of one operation
that makes no request; `Turn` says once what that may change. `OneNextVersion`
needs that an operation and the one it revises are of one writer (`KinInv`), because
`prepare` looks for another version only among the writer's. The refinement
(`StagesAreDurable`) goes stage by stage, as elsewhere.

`MailSendProofs` has what is sent. None of its four properties is inductive.
`ReviewedIsSent` needs to know which operation gave a draft its newest version
and that a marker is left only by a stage that took place (`VersionInv`): on Outlook
the change key that makes the send conditional is the one the last save returned.
`OneHandPerDraft` follows from `OwnedInv`: a request is in the hands of the draft's
owner, a draft has one owner, and it changes hands only when nothing of it works.
Who a draft returns to when its revision is given up is `Returned`, a recursive
function along `previous`. That it has a value is shown by a lemma about paths
(`PathsEnd`), and that a path ends by `Grounded`: among any operations one revises
none of them, since a revision is begun after what it revises. So no induction over
lineages is needed: a least counterexample is enough. `OneSendPerWriting` needs
everything: a writing has one live operation that is no next version, and once it
has next versions its live operations are for one draft (`FamilyInv`); what works on
a draft owns it (`Runs`); an operation ready to send after another has sent that draft
finds nothing there (`Fresh`); and so two live operations of a writing never both
send (`Sole`). `RunsEnd` and `DoubtIsSettled` are liveness and stay
with TLC.

## Accounts and calendar writes

**State.** `account` and `credential` are the saved record and tokens of each
account, `attempt` that of each sign-in, `signing` and `refreshing` the functions
under way. A generation, and a version of tokens, is named by the revision of the
account it was saved with, so that both are random identities of the code and
finite here. `write` is the record of a calendar operation, `task` its function:
what it was started with (generation, version of the tokens it waits for) and what
it read. `event` is the calendar, with a version for the etag and the marker of the
operation that changed it last; `wire`, `reply` and `landed` are the one request.

**Actions.** `Accounts` has the steps of a sign-in (`Begin`, `Listen`, `Callback`,
`Exchanged`, `SignedIn`, their failures, `Cancel`, `Lapse`, `Sweep`), of a refresh
(`StartRefresh`, `TokenReply`, `Refreshed`, `RefreshFails`), `Denied` and
`Disconnect`. `CalendarWrites` composes them with `Prepare`, `Confirm` and
`Reconcile`, which begin a function up to its token (`Begins`: refused at once, with
the tokens there are, waiting for a refresh under way or beginning one); `Token`,
`ReadEvent` and the end of each kind of function; `Dispatch`, where checks, marker
and request are one instant; `Confirmed`, `Refused`, `Unclear`; and the provider's
`Land`, `Refuse`, `Lose`, `Edit`. The HTTP service closes both together
(`http.ts:979`), hence one `closed`. An answer 404 to a change carries no status in
the code and ends in doubt, so it is a `Lose`. Reading is taken as permitted;
writing may be left out of the scopes of any sign-in or refresh.

**Properties.** One event per draft, however often it is refused, lost and prepared
again (`OneEventPerDraft`); no second change of an event is applied while a request
for it may arrive (`OneHandPerEvent`; the operation that made the event may still
wait for its answer); a request leaves under the connection and permission its
review was made with and with the tokens of its last read (`WrittenUnderConsent`);
each write implements `DurableEffect` (`EachWriteIsDurable`; an event that is gone
does not tell who deleted it, so an observed deletion claims no more than doubt).
An account that is refreshing has a refresh that may still save, and one per
connection (`RefreshIsOwned`); an account disconnected or refused comes back only
by a sign-in begun since (`OldConsentIsGone`). `TypeOK` is stated and no run checks
it.

**Bounds.** One account, one sign-in beside the connection found at the start, two
writes of two drafts, one event of another program and one edit; no refresh, refusal
or disconnection begins beyond revision 3, which leaves room for a refresh between
a disconnection and a sign-in. `Scenarios` says what the world does in a behaviour;
its three sets together exceed the time of a run. Deadlock is not checked: a bounded
number of operations comes to an end.

**Proofs.** All of these properties and `TypeOK`, for all constants that meet
`AccountAssumption` and `CalendarAssumption`, and without the bounds of `Scenarios`.
`RefreshIsOwned` needs that tokens and account name one connection
(`RefreshInv`); `OldConsentIsGone` follows step by step. None of the properties of
writes is inductive. `WriteInv` has five parts. `Function` relates a function to the
state of its record, so that whoever awaits an answer is marked. `Covered` bounds
requests and changes by the claim. `Marks` says that a mark on an event, or one read
from it earlier, is of a change that was made: this is why observation may settle
a lost answer. `Aim` says what a write changes, and that an event seen to be gone
stays away. `Apart` is about two operations: they exclude each other from a
draft and from an event, and nothing follows an observed deletion, not even a
function that read the event before it. `OneEventPerDraft` needs all five, because a
draft may be prepared again only when no earlier creation can still arrive.

## Mail triage

**State.** `head` is the record of a plan (action, messages, the decision that runs,
whether its time is over, the order of approvals), `item` that of each message in it
(state, state of its undo, marker, cursors of steps done and undone, the message as
reviewed, the delete it takes back). `lock` is the plan a message belongs to while
its change is unresolved, `claim` the restore a delete belongs to. `job` is the
function of a plan, `hand` where it is with each message. Archiving takes one step,
deleting at Gmail one and two to undo, a restore two: they stand for all actions,
and a message's folder for what a plan changes; `other` is everything else, which a
first step must find as reviewed and later steps may not.

**Actions.** `Prepare`, `CancelReview`, `Confirm` with its four decisions,
`Reconcile`; of the function `ThreadsRead`, `ReadMessage`, `Dispatch`, `Answered`,
`ItemFails`, `ItemUnclear`, `ItemsEnd`, `Refreshed`, `Observed`, `NotObserved`,
`InspectEnds`; `Lapse`, `Hold`, `Disconnect`, `Close`, `Restart`; and the provider's
`Land`, `Refuse`, `Lose`, `Edit`. The code takes three messages at a time and so may
here be with all of them. Gmail's steps carry no condition, and the refusal of
Outlook's `If-Match` is one of the outcomes of `Refuse`.

**Properties.** Each step of each message, done, undone or restored, implements
`DurableEffect` (`EachStepIsDurable`); no two plans have a change of one message
unsettled (`OneHandPerMessage`); a delete is taken back by one restore, whatever
became of the one before (`RestoredOnce`); a request leaves only for the plan that
holds the lock, and a restore's only for a delete that stands (`SentByItsOwner`,
although only a restore asks for its lock again); a confirmed decision is carried
out (`DecisionsEnd`, which is violated: see below). `TypeOK` is stated and no run
checks it.

Two things the code does that no property forbids: an undo interrupted between its
two steps is no longer locked to its plan, and a restore whose first step was only
observed after a lost answer never makes its second, which
`tests/mail-triage.test.ts:147` accepts.

**Bounds.** Three plans for one message (a delete and two restores or rivals) and
one plan for two messages; `Scenarios` joins actions with what happens to them.
One edit from outside. Deadlock is not checked, as above.

**Fairness.** Every function of a plan ends, because provider requests have a
timeout; nothing else is fair.

**Proofs.** `TypeOK` and all of these properties but `DecisionsEnd`, for any plans and
messages that meet `TriageAssumption`, whatever plans are asked for and however
often messages are edited elsewhere: `Scenarios` and `Asked` are not used.
`DecisionsEnd` is liveness, and violated. None of them is inductive. `Inv` says of each plan
what its record tells of its function (`PlanRight`), and of each plan and message
four things. `ItemRight` relates the record of the message to where the function is
with it, so that a marker without a function awaiting its answer is a doubt.
`CallRight` bounds requests and changes by the count of steps done: at most the next
step is under way or has taken place, and only in doubt or while its answer is
awaited. `LockRight` gives a message in the course of a change to its plan; the code
releases a lock on what the record says, so the record must be known to cover what
may have happened. `ClaimRight` gives a delete to the restore that has the message
or has sent anything; a claim is taken over only from a restore that failed or was
refused before its first step, which by `CallRight` has sent nothing.
`OneHandPerMessage` follows from `ItemRight` and `LockRight`, `RestoredOnce` from
`ClaimRight`, since a delete has one claim; `SentByItsOwner` and
`EachStepIsDurable` go over the actions one by one with all four.

## Software update on the host

**State.** `host` is the supervisor: the journal file (every job and the current
one), the job in memory, the await its one asynchronous function is in and the job
that function was started for. `operator` and `frontend` are the two leases: the
files, the copy in memory, and whether a save threw. `beat` and `fresh` are the
last heartbeat of the workspace and whether it is younger than ten seconds, `feed`
the verified release, `selected` the candidate the application pointer names.
`runner` is the stage of each job's installer process and `verdict` its result
file. Requests are identified by their idempotency keys; candidate `n` is updated
to `n + 1`; what else identifies a release is a member of `Revisions`.

Every handler is a function from a part of the controller to the set of what it
may become, and `UpdateHost` has one action per handler, per return of an await
and per step of the installer. Sets, because a save can end in three ways: done,
thrown after the rename (the flush of the directory failed), thrown before. All
three are taken at every save. A save of the supervisor that throws ends its
function in the catch of `kick`, which saves again; if that throws too, nobody
handles the rejection and the process exits. A lease whose save threw stays
uncertain until the controller restarts.

**Actions.** `Heartbeat` (with the leases' observation, a taken-back hold and the
kick), `Stale`, `Poll`, `Request`, `Cancel`, `Operate` and `SwitchFrontend` for
the requests of the three authorities; `PrepareReturns`, `Progress`,
`PreflightReturns`, `ReconcileReturns`, `AwaitFails`, `RunReturns`; `Stop`,
`Crash`, `Restart`, `Refresh`, `Launch`; and the installer: it asks the controller
for its hold before each decisive step (`Holds`), and the step follows in an action
of its own. It survives the controller (`KillMode=process`). A heartbeat may say
anything a workspace could say: any epoch, hold and blockers, and a suspended
runtime only for whom it holds, of the selected candidate, since the host refuses
others. What the application really says is `UpdateBridge`. A restart that finds a lease under
release with a changed proof is refused by the code and allowed here.

**Properties.** From launch to result the job is the selected one on disk, started
and holding, and a living controller answers with its hold (`HoldCoversInstaller`);
a started job lets go only with a result, and says what it was (`SettledIsTrue`);
a job starts only when a fresh heartbeat of its candidate and epoch acknowledges
the hold and reports no work, and the reviewed release is still the verified one,
however long the preflight took (`StartIsAdmitted`); a cancelled job stays
cancelled (`CancelledStays`); the three authorities exclude each other in the
controller (`OneAuthority`); an operator lease whose application may be stopped
keeps the workspace held, also when it failed (`StoppedIsHeld`); each job's
installation implements `DurableEffect` (`EachInstallIsDurable`); a published
result is read (`ResultIsSettled`). After a save that threw, disk and memory may
differ; `CancelledStays` and the claim of `EachInstallIsDurable` count what is
open in either, which is the most the controller can act on.

**Bounds.** `HostJobs` has two requests, two epochs, two revisions, every
disturbance and every fault, without leases: the second request follows the first
when that was cancelled, failed, or saved without being acknowledged. Its
constraint `OneRequestOrOneWorld` follows a second request only in one epoch, of
one release and under a controller that is not told to stop; one request meets all
of these. Requests, epochs and revisions are symmetric. `HostLeases` has one job and
one lease of each kind, which is enough for every pair of authorities to meet.
Deadlock is not checked in `HostLeases` and `HostDurable`: a controller that finds
two authorities does not start.

**Fairness.** The controller polls every two seconds and is started again after a
failure (`Restart=on-failure`); the end of the child process is reported; a disk
that keeps being written is in the end written without an error. The last is
strong fairness of the save that records a result and the assumption under which
a result can be recorded at all. The installer and the workspace get no fairness.

**Proofs.** For all constants: `HostTypes` and `HostOneAuthority`, from the named
assumptions about the constants and no others. Neither property is inductive: an
installer that switches the application reads its job in the journal, and a result
is taken over by the job the supervisor has in memory. The invariant `Inv` adds that
every await has a job, that the job in memory and those of all launched installers
are in the journal (`LaunchedIsFiled`), each under its own key. The handlers are
functions from the supervisor to the set of what it may become, so
the first part of `UpdateHostProofs` has one lemma for each: it keeps the shape and every job of
the journal, and an idle supervisor begins to work only when nothing else is active.
The same is done for the leases, and then there is one lemma for each group of
actions. A save that throws needs no case of its own beyond `WrittenKeeps` and
`BrokenKeeps`; that an uncertain lease counts as active is what makes them enough.

Its second part proves everything else but liveness. `HoldCoversInstaller` and
`SettledIsTrue` rest on `HostInv`, which adds to `Inv` what the journal (`FileRight`),
the memory (`MemRight`) and each await (`AwaitRight`) know of the installer: who has one is
current, started and holding; who let go has a result and states it; memory and
journal agree on what was started and from where (`Even`), which is what a
controller restarted between two saves depends on. Between a save that threw and
the save of its catch the journal may be ahead of the memory and `MemRight` fails;
`Amid` is the weaker fact that holds there. `LeaseInv` says that a lease that is not
uncertain is known as it is on disk, and gives `StoppedIsHeld`. For the action
properties and the refinement (`StartsAdmitted`, `CancelledHolds`,
`InstallsAreDurable`) each handler is shown to leave a job's record in a set that
its next states cannot leave (`Within` one of `Started`, `Unstarted`, `Over`,
`Dropped`), whichever way its saves ended. `NoJob` is
assumed not to be a record of a job. `ResultIsSettled` is liveness and stays with TLC.

## The application's side of an update

**State.** `app` is the process of the service as the update sees it: whether work is
held and for whom, whether work runs, the native lease this process verified, and
the await its one serialised refresh is in. `call` is the heartbeat under way, `late`
one it stopped waiting for. `runtime` is the OpenClaw process: dead, running, or
suspended for a job or an operator lease; `receipts` are the files that say so, one
for each. `NativeLease` gives what `prepare` and `release` may leave of a receipt and
of the runtime, with every loss of the connection in between; the contract of
`suspend.prepare` and `suspend.resume` is the runtime's own and is taken as the code
uses it.

**Actions.** A refresh is `BeginRefresh`, `HostHears` or `HostHearsLate`,
`BeatAnswered`, then `Resolved` for each lease of another id, `Acquired` for the one
the host holds for, `GivenBack` where the host only waits, and `FinalAnswered`; or it
ends in `CallFails`. `AppStarts`, `AppCrashes`, `RuntimeStarts`, `RuntimeDies`,
`Doubts` and `Expires` are the world, `Work` the owner's. `Installs` joins each step
of the installer with the application: it asks for it, stops it, or needs it stopped.
`Asked` and `Alone` are the rest of `UpdateHost`, whose free heartbeats are gone.

**Properties.** From the moment an installer is admitted, or an operator may have
stopped the application and has not proved its return (`Beyond`), no work runs or
can begin (`NobodyWorks`), although the last heartbeat is up to ten seconds old and
the application gives its hold back on its own. It never opens for work while its
runtime is suspended (`SuspendedIsHeld`), whatever was lost between the runtime and
the receipt. Once nobody is held for and everything keeps running it opens for good
(`HoldEnds`), also after a start that did not know for whom it was held.
`BridgeTypeOK` is proved, and no run checks it.

**Assumptions.** An answer waiting on a socket is read before a request made after
it is answered, so the installer does not ask an application that has an unread
answer of the host. Without this `NobodyWorks` fails: the answer may be an old
`waiting`, which gives the hold back. Nothing in the code enforces the order; it
rests on both programs being local and on the time the installer takes. The runtime
serves requests in order, announces a resume before it answers it, and ends with the
application. The code trusts a suspension only until fifteen seconds before its end, so `Expires` is
possible only for one that is not verified.

**Bounds.** One request and one operator lease, in one epoch, with crashes of the
controller, the application and the runtime; faults of the host's disk are in the
runs of `UpdateHost`. `LateBeforeInstaller` follows a late heartbeat only until an
installer is launched or an operator enters; `OneHolder` follows a request beside an
operator lease only until it is installed. The frontend's lease needs no work to stop
and is left out here. Deadlock is not checked: an application that is never started
again stops the rest.

**Fairness.** Refreshes follow one another every two or thirty seconds and each
await of one ends in an answer or a timeout (weak fairness of `Goes`); the socket
works time and again and a runtime that keeps running resumes in the end (strong
fairness of `HostHears`, `BeatAnswered`, `Resolves`). The host, the installer and the
owner get none.

**Proofs.** `UpdateBridgeProofs` proves `NobodyWorks` and `SuspendedIsHeld` for any
requests, operator leases, releases and faults of the host's disk, and without
`LateBeforeInstaller` and `OneHolder`. They rest on three kinds of facts.

- Of the application alone (`AppRight`, `ReportRight`): in an await about a lease it
  is held, claims nothing of it and has no heartbeat under way; when it acquires or
  gives back, every other receipt is resolved; a runtime that is suspended has an
  unresolved receipt and a held application. This is `SuspendedIsHeld`. That a lost
  answer of the runtime does not break it is in the lemmas on `NativeLease`: no call
  leaves a runtime suspended for an id whose receipt does not say so.
- Between application and host (`ReachRight`): every id the application has heard of,
  in an answer, a receipt or a heartbeat that may still be heard, is on the host's
  disk; and a host that is up holds for an operator lease of which the
  application has heard, until it is given back. `OperatorStays` gives it, from
  `LeaseInv`: a lease that may stop the application was heard to be held before.
- Beyond the point of no return (`FastRight`): for an admitted installer, and for an
  operator who may stop the application *or to whom a heartbeat is on its way that
  would let him* (`Stopping`), the application is `HeldFast`. It works for nobody, and
  the await it is in, and an answer it has not read, are about this hold and cannot
  give it back. `NobodyWorks` alone is not inductive: a heartbeat that says the
  application is idle may be heard long after, and the refresh that sent it goes on.
  Each step of a refresh keeps `HeldFast` as long as the host answers with this hold
  (`Answers`), which the invariants of the host prove.

The proof splits the steps as the composition does: those the host knows nothing of
(`SilentRight`), those that hear a heartbeat (`HearsRight`), those of which the
application knows nothing (`UnheardRight`), and an installer that stops it (`StopsRight`).
In all of them the host does what `UpdateHost` allows, so `BridgeSpec` implies its
`Spec` (`BridgeRefinesHost`): the free heartbeats the host is checked and proved with
include those of this application, and each theorem of the host holds beside it.
The assumptions are those above, `BridgeAssumption` (one epoch), and that `NoLease`
is not a record of a lease. `HoldEnds` is liveness and stays with TLC.

The workspace switch, the feed, the settling before an install, and what counts as
work are not modelled: work is one flag.

## Runs

| Run | What it shows | Distinct states |
| --- | --- | --- |
| `Group` | all phases with holds, restarts and a runtime that changes at every await; refinement | 1.0 million |
| `GroupLive` | lost sessions and verdicts are found | 59 thousand |
| `Mail` | all kinds of operations at both providers, with restarts, hold and close; refinement | 1.1 million |
| `MailLive` | runs end, doubt is settled | 58 thousand |
| `MailCancelled` | violation: a sent message reported as stopped | |
| `HostJobs` | two installations under every disturbance and fault; refinement | 0.2 million |
| `HostLeases` | three authorities, results are read | 71 thousand |
| `Bridge` | no work from admission to result; the application opens again | 0.7 million |
| `HostDurable` | violation: two authorities on the disk | |
| `Calendar` | two writes over an account that changes at every wait; refinement | 1.0 million |
| `Triage` | plans, undos and restores of the same messages; refinement | 0.4 million |
| `TriageDropped` | violation: a confirmed undo is never carried out | |

## Where code and promise differ

1. `MailCancelled`. The completed send stage and the accepted operation are two
   writes. A restart between them leaves an operation that its owner can cancel;
   it is then reported as stopped with its draft kept, although it was sent, and
   the message can be written and sent again. `OneSendPerWriting` therefore
   leaves out such a cancelled operation.
2. `HostDurable`. A request whose save persisted and then threw is in the journal
   and not in the supervisor's memory, where the leases look for it. A lease is
   then admitted beside a waiting installation, and a controller that restarts
   finds both and refuses to start. The leases treat the same failure of their
   own saves as uncertain authority; the supervisor does not. A replay of the same
   request adopts the job, unless a lease came first; another request supersedes
   it, and it stays `waiting` in the journal.

3. `TriageDropped`. When a plan is settled its record offers the next decision, but
   the function that carried it out still refreshes the lists shown to the owner.
   An undo, or the continuation of a restore, confirmed in that time is recorded
   as running, its messages are locked, and the caller is given the old function,
   whose end it then returns. Nobody carries the decision out until a restart
   gives it up.

An operator lease that failed before it stopped anything cannot be cancelled or
released by any request of the code; the host stays held for review.

## Not modelled, and why

Text, MIME, formatting and wording: no property is about them. Encryption, SQLite
and files: a Store transaction is one step, as its code guarantees. Parsing of
commands: inputs are those that pass the schemas. Expiry of a mail delivery
review: it only forbids confirming. Of accounts: provider setup, the list of what
a probe could read, the ChatGPT account, and the recovery pause. Of calendar
writes: what a patch contains, time zones, recurrence and reminders. Of triage:
labels, categories and flags beside the folder, and the receipts of preparation.
Native policy files, installation, the client and the desktop shell: process
handling and views. The remaining components are listed with their reasons in
`PROJECT.json`.

## Plan

1. Assistant turns with direct-agent preparation, events, queue and reconciliation,
   composed with approvals. Hazard: a direct preparation interrupted before or after
   its native patch cannot be told from its record.
2. Uploads and their quotas; voice calls; drain of the service.
