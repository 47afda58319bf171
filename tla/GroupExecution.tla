---------------------------- MODULE GroupExecution ----------------------------
(***************************************************************************)
(* One Group reply per child: a native session is created for it, one turn *)
(* is sent to that session, and the turn may be stopped. Owner commands    *)
(* (setup, send, stop and their continuations) are admitted to the Store;  *)
(* each admitted command starts one flight, an asynchronous function of    *)
(* AssistantGroupExecutions that observes the native owner (two awaits),   *)
(* writes a durable dispatch marker and makes at most one native call.     *)
(* Observation flights reconcile what became of an original call and never *)
(* make one. Any await may fail, the update hold may come and go, the      *)
(* connection may drop, the native runtime and the service may restart.    *)
(*                                                                         *)
(* A command identity is represented by the attempt number it opens: every *)
(* continuation takes a new commandId and increments attempts, so the two  *)
(* are in bijection within a phase. Text, model names and error wording    *)
(* are left out; no property depends on them.                              *)
(*                                                                         *)
(* A definition whose comment begins with "Fault" is no part of the model: *)
(* it is the next definition with a plausible bug, put in its place to see *)
(* that the properties notice.                                             *)
(***************************************************************************)
EXTENDS Integers, FiniteSets

CONSTANTS
  Children,     \* original children (attempts of one prepared round)
  MaxAttempts,  \* attempts of a phase; 4 in the code
  MaxLife,      \* bound: lifetimes of the native runtime
  MaxReg,       \* bound: registrations of the Group policy
  Accounts,     \* identities the selected account may resolve to
  Disturbances, \* bound: what the world around the service does in this instance
  NoProof       \* no runtime proof retained

Lives == 1 .. MaxLife
Proof == [life : Nat, reg : Nat, acct : Accounts]

ASSUME ConstantsAssumption ==
  /\ MaxAttempts \in Nat \ {0}
  /\ MaxLife \in Nat \ {0}
  /\ MaxReg \in Nat \ {0}
  /\ NoProof \notin Proof
  /\ Disturbances \subseteq {"hold", "revoke", "connect", "register", "select", "runtime", "close"}

VARIABLES
  setup, send,  \* durable: the two phases of a child
  stop,         \* durable: its stop record
  bound,        \* durable: nativeId is retained
  revision,     \* durable: length of the child's event history
  flight,       \* the running functions of the service, by child and kind
  lease,        \* proof under which this owner sent the turn, while it runs
  registered,   \* first registration this owner saw in each runtime lifetime
  closed,       \* the owner was closed
  held,         \* software update hold, or a recovery pause
  available,    \* scope and sources of the prepared round are still current
  up,           \* the Gateway connection is ready
  life,         \* runtime lifetime (pid, start time, generation)
  reg, acct,    \* native registration and selected account identity now
  wire,         \* native calls under way
  landed,       \* native calls that took effect
  run           \* the native turn

durable == <<setup, send, stop, bound, revision>>
service == <<flight, lease, registered, closed>>
world   == <<held, available, up, life, reg, acct>>
native  == <<wire, landed, run>>
vars    == <<setup, send, stop, bound, revision, flight, lease, registered, closed,
             held, available, up, life, reg, acct, wire, landed, run>>

Kinds == {"setup", "send", "stop", "observe"}
Calls == {"create", "agent", "abort"}

PhaseStates == {"none", "preparing", "dispatching", "ready", "accepted", "unknown",
                "failed", "completed", "cancelled"}
Phase == [state : PhaseStates, started : BOOLEAN, attempts : 0 .. MaxAttempts,
          proof : Proof \cup {NoProof}]
Stop  == [tracked : BOOLEAN, started : BOOLEAN, attempts : 0 .. MaxAttempts,
          state : {"none", "requested", "unconfirmed", "confirmed", "failed"}]

\* Where a flight waits. "policy" and "account" are the two awaits of
\* GroupExecutionOwner.observe; a 2 marks the observation after a reply.
Waits  == {"idle", "history", "policy", "account", "creating", "acking",
           "aborting", "waiting", "policy2", "account2"}
Runs   == {"none", "running", "ok", "error", "aborted", "lost"}
Flight == [pc : Waits, attempt : 0 .. MaxAttempts, life : Nat, reg : Nat,
           pinned : BOOLEAN, seen : BOOLEAN, result : Runs, proof : Proof \cup {NoProof}]

NoPhase  == [state |-> "none", started |-> FALSE, attempts |-> 0, proof |-> NoProof]
NoStop   == [tracked |-> FALSE, started |-> FALSE, attempts |-> 0, state |-> "none"]
NoFlight == [pc |-> "idle", attempt |-> 0, life |-> 0, reg |-> 0, pinned |-> FALSE,
             seen |-> FALSE, result |-> "none", proof |-> NoProof]

Settled  == {"completed", "failed", "cancelled"}
Terminal(c) == send[c].started /\ send[c].state \in Settled
Sent(c)     == send[c].started /\ send[c].state \notin Settled

Init ==
  /\ setup = [c \in Children |-> NoPhase]
  /\ send  = [c \in Children |-> NoPhase]
  /\ stop  = [c \in Children |-> NoStop]
  /\ bound = [c \in Children |-> FALSE]
  /\ revision = [c \in Children |-> 0]
  /\ flight = [c \in Children |-> [k \in Kinds |-> NoFlight]]
  /\ lease  = [c \in Children |-> NoProof]
  /\ registered = [l \in Lives |-> 0]
  /\ closed = FALSE /\ held = FALSE /\ available = TRUE /\ up = TRUE
  /\ life = 1 /\ reg = 1 /\ acct \in Accounts
  /\ wire   = [c \in Children |-> [m \in Calls |-> 0]]
  /\ landed = [c \in Children |-> [m \in Calls |-> 0]]
  /\ run    = [c \in Children |-> "none"]

-----------------------------------------------------------------------------
(* The owner's authority, and the steps shared by the flights.             *)

\* GroupExecutionOwner.current, with the checks AssistantGroupExecutions and
\* the Store repeat before every write.
Authority == ~closed /\ ~held /\ up

\* assertCurrent: the observed lifetime and registration are still the owner's.
Current(p) == Authority /\ p.life = life /\ registered[life] = p.reg

\* The proof an observation yields, with the account identity replied just now.
Observed(c, k) == [life |-> flight[c][k].life, reg |-> flight[c][k].reg, acct |-> acct]

\* Fault: the authority found before the await is taken for the one after it.
ConfirmedEarlier(c, k) == flight[c][k].pinned => Observed(c, k) = setup[c].proof

\* The checks after the second await of observe. A flight whose snapshot held
\* a setup proof compares it; `pinned` says that it did.
Confirmed(c, k) ==
  /\ Current(Observed(c, k))
  /\ flight[c][k].pinned => Observed(c, k) = setup[c].proof

Written(c) == revision' = [revision EXCEPT ![c] = @ + 1]

\* Fault: the record is settled before its flight has ended.
Stays(c, k)    == UNCHANGED flight

Goto(c, k, pc) == flight' = [flight EXCEPT ![c][k].pc = pc]
Done(c, k)     == flight' = [flight EXCEPT ![c][k] = NoFlight]
Issue(c, m)    == wire' = [wire EXCEPT ![c][m] = @ + 1]

\* own(): the flight of a command. The lifetime is captured by the call of
\* current() that precedes the first policy request.
Launch(c, k, pc, attempt) ==
  flight' = [flight EXCEPT ![c][k] = [NoFlight EXCEPT !.pc = pc, !.attempt = attempt,
               !.life = life, !.pinned = (setup[c].proof # NoProof)]]

-----------------------------------------------------------------------------
(* Owner commands: admission writes the event and its receipt, then starts *)
(* the flight. A replayed request identity finds its receipt and does      *)
(* nothing, which is a stuttering step here.                               *)

Preparing(attempt) ==
  [state |-> "preparing", started |-> FALSE, attempts |-> attempt, proof |-> NoProof]

AdmitSetup(c) ==
  /\ Authority /\ available
  /\ setup[c].state = "none"
  /\ setup' = [setup EXCEPT ![c] = Preparing(1)]
  /\ Written(c)
  /\ Launch(c, "setup", "policy", 1)
  /\ UNCHANGED <<send, stop, bound, lease, registered, closed, world, native>>

AdmitSend(c) ==
  /\ Authority /\ available
  /\ setup[c].state = "ready" /\ bound[c]
  /\ send[c].state = "none" /\ stop[c].state = "none"
  /\ send' = [send EXCEPT ![c] = Preparing(1)]
  /\ Written(c)
  /\ Launch(c, "send", "history", 1)
  /\ UNCHANGED <<setup, stop, bound, lease, registered, closed, world, native>>

\* Fault: a continuation that is not counted.
ContinuableAlways(p) == p.state = "failed" /\ ~p.started

\* continue-unsent: only a phase its own live flight proved unsent.
Continuable(p) == p.state = "failed" /\ ~p.started /\ p.attempts < MaxAttempts

ContinueSetup(c) ==
  /\ Authority /\ available
  /\ Continuable(setup[c]) /\ stop[c].state = "none"
  /\ ~bound[c] /\ send[c].state = "none"
  /\ setup' = [setup EXCEPT ![c] = Preparing(@.attempts + 1)]
  /\ Written(c)
  /\ Launch(c, "setup", "policy", setup[c].attempts + 1)
  /\ UNCHANGED <<send, stop, bound, lease, registered, closed, world, native>>

ContinueSend(c) ==
  /\ Authority /\ available
  /\ Continuable(send[c]) /\ stop[c].state = "none"
  /\ setup[c].state = "ready"
  /\ send' = [send EXCEPT ![c] = Preparing(@.attempts + 1)]
  /\ Written(c)
  /\ Launch(c, "send", "history", send[c].attempts + 1)
  /\ UNCHANGED <<setup, stop, bound, lease, registered, closed, world, native>>

\* A stop needs no current scope: what was sent may always be stopped. A
\* client that does not track its stop gets the older record, which has no
\* dispatch marker.
AdmitStop(c) ==
  /\ Authority
  /\ Sent(c) /\ stop[c].state = "none"
  /\ \E tracked \in BOOLEAN :
       stop' = [stop EXCEPT ![c] = [tracked |-> tracked, started |-> FALSE,
                                    attempts |-> 1, state |-> "requested"]]
  /\ Written(c)
  /\ Launch(c, "stop", "policy", 1)
  /\ UNCHANGED <<setup, send, bound, lease, registered, closed, world, native>>

ContinueStop(c) ==
  /\ Authority
  /\ Sent(c)
  /\ stop[c].tracked /\ stop[c].state = "failed" /\ ~stop[c].started
  /\ stop[c].attempts < MaxAttempts
  /\ stop' = [stop EXCEPT ![c] = [@ EXCEPT !.state = "requested", !.attempts = stop[c].attempts + 1]]
  /\ Written(c)
  /\ Launch(c, "stop", "policy", stop[c].attempts + 1)
  /\ UNCHANGED <<setup, send, bound, lease, registered, closed, world, native>>

\* An explicit observation, or the one a native lifecycle end starts. One per
\* child: a second request joins the flight under way.
Observe(c) ==
  /\ Authority
  /\ setup[c].state # "none"
  /\ flight[c]["observe"].pc = "idle"
  /\ Launch(c, "observe", "policy", 0)
  /\ UNCHANGED <<durable, lease, registered, closed, world, native>>

-----------------------------------------------------------------------------
(* Replies. Each action is the code between two awaits.                    *)

\* The first await of observe: policy, registration and session as they are
\* natively now. The session, once created, keeps its identity.
PolicyReply(c, k) ==
  LET f == flight[c][k] IN
  /\ f.pc \in {"policy", "policy2"}
  /\ Authority /\ f.life = life
  /\ registered[life] \in {0, reg}
  /\ registered' = [registered EXCEPT ![life] = reg]
  /\ flight' = [flight EXCEPT ![c][k] =
       [@ EXCEPT !.pc = IF f.pc = "policy" THEN "account" ELSE "account2",
                 !.reg = reg, !.seen = (landed[c]["create"] > 0)]]
  /\ UNCHANGED <<durable, lease, closed, world, native>>

\* setup(): no await between this authority, the marker and sessions.create.
SetupDispatch(c) ==
  LET f == flight[c]["setup"] IN
  /\ f.pc = "account" /\ Confirmed(c, "setup") /\ available
  /\ setup[c].attempts = f.attempt /\ setup[c].state = "preparing" /\ ~setup[c].started
  /\ ~bound[c] /\ ~f.seen
  /\ setup' = [setup EXCEPT ![c] = [@ EXCEPT !.state = "dispatching", !.started = TRUE,
                                         !.proof = Observed(c, "setup")]]
  /\ Written(c)
  /\ Issue(c, "create")
  /\ Goto(c, "setup", "creating")
  /\ UNCHANGED <<send, stop, bound, lease, registered, closed, world, landed, run>>

CreateReply(c) ==
  /\ flight[c]["setup"].pc = "creating" /\ landed[c]["create"] > 0
  /\ Authority /\ flight[c]["setup"].life = life
  /\ Goto(c, "setup", "policy2")
  /\ UNCHANGED <<durable, lease, registered, closed, world, native>>

\* Fault: only a setup that is still dispatching is ever bound.
RetainReadyFirst(c, k) ==
  /\ setup[c].state = "dispatching" /\ ~bound[c] /\ Observed(c, k) = setup[c].proof
  /\ setup' = [setup EXCEPT ![c].state = "ready"]
  /\ bound' = [bound EXCEPT ![c] = TRUE] /\ Written(c)

\* setup-ready, retained by setup() itself or by an observation.
RetainReady(c, k) ==
  /\ setup[c].started /\ setup[c].state \in {"dispatching", "unknown"} /\ ~bound[c]
  /\ Observed(c, k) = setup[c].proof
  /\ setup' = [setup EXCEPT ![c].state = "ready"]
  /\ bound' = [bound EXCEPT ![c] = TRUE]
  /\ Written(c)

SetupReady(c) ==
  LET f == flight[c]["setup"] IN
  /\ f.pc = "account2" /\ Confirmed(c, "setup")
  /\ setup[c].attempts = f.attempt /\ f.seen
  /\ RetainReady(c, "setup")
  /\ Done(c, "setup")
  /\ UNCHANGED <<send, stop, lease, registered, closed, world, native>>

\* send(): the session must be the bound one, empty and idle.
HistoryReply(c) ==
  /\ flight[c]["send"].pc = "history"
  /\ Authority /\ landed[c]["create"] > 0 /\ run[c] = "none"
  /\ flight' = [flight EXCEPT ![c]["send"] = [@ EXCEPT !.pc = "policy", !.life = life]]
  /\ UNCHANGED <<durable, lease, registered, closed, world, native>>

SendDispatch(c) ==
  LET f == flight[c]["send"] IN
  /\ f.pc = "account" /\ Confirmed(c, "send") /\ available
  /\ send[c].attempts = f.attempt /\ send[c].state = "preparing" /\ ~send[c].started
  /\ stop[c].state = "none" /\ f.seen
  /\ Observed(c, "send") = setup[c].proof
  /\ send' = [send EXCEPT ![c] = [@ EXCEPT !.state = "dispatching", !.started = TRUE,
                                       !.proof = Observed(c, "send")]]
  /\ Written(c)
  /\ lease' = [lease EXCEPT ![c] = Observed(c, "send")]
  /\ Issue(c, "agent")
  /\ flight' = [flight EXCEPT ![c]["send"] =
       [@ EXCEPT !.pc = "acking", !.proof = Observed(c, "send")]]
  /\ UNCHANGED <<setup, stop, bound, registered, closed, world, landed, run>>

\* Fault: an acknowledgement overtakes the verdict and replaces it.
SendAckLate(c) ==
  LET f == flight[c]["send"] IN
  /\ f.pc = "acking" /\ landed[c]["agent"] > 0 /\ Current(f.proof)
  /\ send[c].started /\ f.proof = send[c].proof
  /\ send' = [send EXCEPT ![c].state = "accepted"] /\ Written(c)
  /\ Done(c, "send")
  /\ UNCHANGED <<setup, stop, bound, lease, registered, closed, world, native>>

\* The acknowledgement: nothing is written once the turn has a verdict.
SendAck(c) ==
  LET f == flight[c]["send"] IN
  /\ f.pc = "acking" /\ landed[c]["agent"] > 0
  /\ Current(f.proof)
  /\ \/ Terminal(c) /\ UNCHANGED <<send, revision>>
     \/ /\ send[c].started /\ send[c].state \in {"dispatching", "unknown"}
        /\ f.proof = send[c].proof
        /\ send' = [send EXCEPT ![c].state = "accepted"]
        /\ Written(c)
  /\ Done(c, "send")
  /\ UNCHANGED <<setup, stop, bound, lease, registered, closed, world, native>>

\* stop(): a tracked stop marks its dispatch; the older one only calls.
StopDispatch(c) ==
  LET f == flight[c]["stop"] IN
  /\ f.pc = "account" /\ Confirmed(c, "stop") /\ Sent(c)
  /\ stop[c].attempts = f.attempt
  /\ IF stop[c].tracked
     THEN /\ stop[c].state = "requested" /\ ~stop[c].started
          /\ Observed(c, "stop") = send[c].proof
          /\ stop' = [stop EXCEPT ![c].started = TRUE]
          /\ Written(c)
     ELSE UNCHANGED <<stop, revision>>
  /\ Issue(c, "abort")
  /\ Goto(c, "stop", "aborting")
  /\ UNCHANGED <<setup, send, bound, lease, registered, closed, world, landed, run>>

\* observeOriginal(): after the first observation it settles the setup, or
\* asks agent.wait about the turn, or has nothing to do.
ObserveSetup(c) ==
  /\ flight[c]["observe"].pc = "account" /\ Confirmed(c, "observe")
  /\ flight[c]["observe"].seen
  /\ RetainReady(c, "observe")
  /\ Done(c, "observe")
  /\ UNCHANGED <<send, stop, lease, registered, closed, world, native>>

ObserveSend(c) ==
  /\ flight[c]["observe"].pc = "account" /\ Confirmed(c, "observe")
  /\ ~(setup[c].started /\ setup[c].state \in {"dispatching", "unknown"})
  /\ Sent(c)
  /\ Goto(c, "observe", "waiting")
  /\ UNCHANGED <<durable, lease, registered, closed, world, native>>

\* agent.wait reports "error" for a turn that ended by an abort as well.
WaitReply(c) ==
  /\ flight[c]["observe"].pc = "waiting"
  /\ Authority /\ run[c] \in {"ok", "error", "aborted"}
  /\ flight' = [flight EXCEPT ![c]["observe"] =
       [@ EXCEPT !.pc = "policy2", !.life = life, !.result = run[c],
                 !.pinned = (setup[c].proof # NoProof)]]
  /\ UNCHANGED <<durable, lease, registered, closed, world, native>>

\* Fault: every end of the turn confirms its stop.
RetainVerdictStopped(c, p, verdict) ==
  /\ Sent(c) /\ p = send[c].proof
  /\ send' = [send EXCEPT ![c].state = verdict]
  /\ stop' = IF stop[c].state # "none" THEN [stop EXCEPT ![c].state = "confirmed"] ELSE stop
  /\ lease' = [lease EXCEPT ![c] = NoProof] /\ Written(c)

\* Fault: the listener is left in place.
RetainVerdictListening(c, p, verdict) ==
  /\ Sent(c) /\ p = send[c].proof
  /\ send' = [send EXCEPT ![c].state = verdict]
  /\ stop' = IF verdict = "cancelled" /\ stop[c].state # "none"
             THEN [stop EXCEPT ![c].state = "confirmed"] ELSE stop
  /\ UNCHANGED lease /\ Written(c)

\* The terminal observation, from a wait or from an aborted lifecycle event.
RetainVerdict(c, p, verdict) ==
  /\ Sent(c) /\ p = send[c].proof
  /\ send' = [send EXCEPT ![c].state = verdict]
  /\ stop' = IF verdict = "cancelled" /\ stop[c].state # "none"
             THEN [stop EXCEPT ![c].state = "confirmed"] ELSE stop
  /\ lease' = [lease EXCEPT ![c] = NoProof]
  /\ Written(c)

\* Fault: a verdict is taken only by the owner that sent the turn.
ObserveVerdictLeased(c) ==
  LET f == flight[c]["observe"] IN
  /\ f.pc = "account2" /\ Confirmed(c, "observe") /\ lease[c] # NoProof
  /\ RetainVerdict(c, Observed(c, "observe"), IF f.result = "ok" THEN "completed" ELSE "failed")
  /\ Done(c, "observe")
  /\ UNCHANGED <<setup, bound, registered, closed, world, native>>

ObserveVerdict(c) ==
  LET f == flight[c]["observe"] IN
  /\ f.pc = "account2" /\ Confirmed(c, "observe")
  /\ RetainVerdict(c, Observed(c, "observe"), IF f.result = "ok" THEN "completed" ELSE "failed")
  /\ Done(c, "observe")
  /\ UNCHANGED <<setup, bound, registered, closed, world, native>>

AbortedEvent(c) ==
  /\ lease[c] # NoProof /\ Current(lease[c])
  /\ run[c] = "aborted"
  /\ RetainVerdict(c, lease[c], "cancelled")
  /\ UNCHANGED <<setup, bound, flight, registered, closed, world, native>>

-----------------------------------------------------------------------------
(* A flight ends early: a request was refused, timed out or was lost with  *)
(* its connection, or a check failed. What is written depends on the kind. *)

\* Fault: an error is taken for a refusal.
PhaseFailureUnsent(p) == [p EXCEPT !.state = "failed", !.started = FALSE]

\* runPhase: the live owner records the failure of its own attempt, unless the
\* service is closing or held; then the record stays as it is.
PhaseFailure(p) == [p EXCEPT !.state = IF p.started THEN "unknown" ELSE "failed"]

\* Fault: the failure is written under the hold and after close.
FailsAnyway(c, k, p) ==
  p.attempts = flight[c][k].attempt /\ p.state \in {"preparing", "dispatching"}

Fails(c, k, p) ==
  /\ ~closed /\ ~held
  /\ p.attempts = flight[c][k].attempt /\ p.state \in {"preparing", "dispatching"}

FailSetup(c) ==
  /\ flight[c]["setup"].pc # "idle"
  /\ IF Fails(c, "setup", setup[c])
     THEN setup' = [setup EXCEPT ![c] = PhaseFailure(@)] /\ Written(c)
     ELSE UNCHANGED <<setup, revision>>
  /\ Done(c, "setup")
  /\ UNCHANGED <<send, stop, bound, lease, registered, closed, world, native>>

FailSend(c) ==
  /\ flight[c]["send"].pc # "idle"
  /\ IF Fails(c, "send", send[c])
     THEN send' = [send EXCEPT ![c] = PhaseFailure(@)] /\ Written(c)
     ELSE UNCHANGED <<send, revision>>
  /\ Done(c, "send")
  /\ UNCHANGED <<setup, stop, bound, lease, registered, closed, world, native>>

\* The finally block of stop, which runs after a reply to the abort too: an
\* abort acknowledgement confirms nothing.
EndStop(c) ==
  /\ flight[c]["stop"].pc # "idle"
  /\ IF /\ ~closed /\ ~held
        /\ stop[c].state = "requested" /\ send[c].state \notin Settled
        /\ stop[c].tracked => stop[c].attempts = flight[c]["stop"].attempt
     THEN /\ stop' = [stop EXCEPT ![c].state =
                        IF stop[c].tracked /\ ~stop[c].started THEN "failed" ELSE "unconfirmed"]
          /\ Written(c)
     ELSE UNCHANGED <<stop, revision>>
  /\ Done(c, "stop")
  /\ UNCHANGED <<setup, send, bound, lease, registered, closed, world, native>>

EndObserve(c) ==
  /\ flight[c]["observe"].pc # "idle"
  /\ Done(c, "observe")
  /\ UNCHANGED <<durable, lease, registered, closed, world, native>>

-----------------------------------------------------------------------------
(* The service process.                                                    *)

\* close(): no flight may write or call any more; each is awaited.
Close ==
  /\ "close" \in Disturbances /\ ~closed
  /\ closed' = TRUE
  /\ lease' = [c \in Children |-> NoProof]
  /\ registered' = [l \in Lives |-> 0]
  /\ UNCHANGED <<durable, flight, world, native>>

\* The process dies at any point and starts again with what is durable.
Restart ==
  /\ flight' = [c \in Children |-> [k \in Kinds |-> NoFlight]]
  /\ lease'  = [c \in Children |-> NoProof]
  /\ registered' = [l \in Lives |-> 0]
  /\ closed' = FALSE
  /\ UNCHANGED <<durable, world, native>>

-----------------------------------------------------------------------------
(* The world around the service.                                           *)

\* The update hold (or recovery pause), the scope and sources of the round, and
\* the Gateway connection change at any time.
Hold ==
  /\ "hold" \in Disturbances /\ held' = ~held
  /\ UNCHANGED <<durable, service, available, up, life, reg, acct, native>>

Revoke ==
  /\ "revoke" \in Disturbances /\ available' = ~available
  /\ UNCHANGED <<durable, service, held, up, life, reg, acct, native>>

Connect ==
  /\ up => "connect" \in Disturbances
  /\ up' = ~up
  /\ UNCHANGED <<durable, service, held, available, life, reg, acct, native>>

Reregister ==
  /\ "register" \in Disturbances /\ reg < MaxReg /\ reg' = reg + 1
  /\ UNCHANGED <<durable, service, held, available, up, life, acct, native>>

Reselect ==
  /\ "select" \in Disturbances /\ acct' \in Accounts \ {acct}
  /\ UNCHANGED <<durable, service, held, available, up, life, reg, native>>

\* A new runtime process: calls under way and a running turn die with the old.
RestartRuntime ==
  /\ "runtime" \in Disturbances /\ life < MaxLife /\ life' = life + 1
  /\ up' = FALSE  \* until the Gateway connects to the new process
  /\ wire' = [c \in Children |-> [m \in Calls |-> 0]]
  /\ run'  = [c \in Children |-> IF run[c] = "running" THEN "lost" ELSE run[c]]
  /\ UNCHANGED <<durable, service, held, available, reg, acct, landed>>

\* A call reaches the runtime, or is lost. It may arrive after its caller died.
Deliver(c, m) ==
  /\ wire[c][m] > 0
  /\ wire' = [wire EXCEPT ![c][m] = @ - 1]
  /\ landed' = [landed EXCEPT ![c][m] = @ + 1]
  /\ run' = [run EXCEPT ![c] =
       CASE m = "agent" /\ @ = "none"    -> "running"
         [] m = "abort" /\ @ = "running" -> "aborted"
         [] OTHER -> @]
  /\ UNCHANGED <<durable, service, world>>

Drop(c, m) ==
  /\ wire[c][m] > 0
  /\ wire' = [wire EXCEPT ![c][m] = @ - 1]
  /\ UNCHANGED <<durable, service, world, landed, run>>

\* The turn ends by itself, or is aborted by the runtime.
Finish(c) ==
  /\ run[c] = "running"
  /\ \E r \in {"ok", "error", "aborted"} : run' = [run EXCEPT ![c] = r]
  /\ UNCHANGED <<durable, service, world, wire, landed>>

-----------------------------------------------------------------------------

Command(c) ==
  \/ AdmitSetup(c) \/ AdmitSend(c) \/ ContinueSetup(c) \/ ContinueSend(c)
  \/ AdmitStop(c) \/ ContinueStop(c) \/ Observe(c)

Reply(c) ==
  \/ \E k \in Kinds : PolicyReply(c, k)
  \/ SetupDispatch(c) \/ CreateReply(c) \/ SetupReady(c)
  \/ HistoryReply(c) \/ SendDispatch(c) \/ SendAck(c)
  \/ StopDispatch(c)
  \/ ObserveSetup(c) \/ ObserveSend(c) \/ WaitReply(c) \/ ObserveVerdict(c)

End(c) == FailSetup(c) \/ FailSend(c) \/ EndStop(c) \/ EndObserve(c)

Native(c) == Finish(c) \/ \E m \in Calls : Deliver(c, m) \/ Drop(c, m)

World == Hold \/ Revoke \/ Connect \/ Reregister \/ Reselect \/ RestartRuntime

Next ==
  \/ \E c \in Children : Command(c) \/ Reply(c) \/ AbortedEvent(c) \/ End(c) \/ Native(c)
  \/ Close \/ Restart \/ World

Spec == Init /\ [][Next]_vars

-----------------------------------------------------------------------------
(* Properties.                                                             *)

TypeOK ==
  /\ setup \in [Children -> Phase] /\ send \in [Children -> Phase]
  /\ stop \in [Children -> Stop] /\ bound \in [Children -> BOOLEAN]
  /\ revision \in [Children -> Nat]
  /\ flight \in [Children -> [Kinds -> Flight]]
  /\ lease \in [Children -> Proof \cup {NoProof}]
  /\ registered \in [Lives -> Nat]
  /\ closed \in BOOLEAN /\ held \in BOOLEAN /\ available \in BOOLEAN /\ up \in BOOLEAN
  /\ life \in Lives /\ reg \in 1 .. MaxReg /\ acct \in Accounts
  /\ wire \in [Children -> [Calls -> Nat]] /\ landed \in [Children -> [Calls -> Nat]]
  /\ run \in [Children -> Runs]

\* One original child makes at most one native session, one turn and one abort,
\* whatever is lost, retried, continued or restarted.
AtMostOneCall == \A c \in Children, m \in Calls : wire[c][m] + landed[c][m] <= 1

\* "Not dispatched" is a proof: a phase without its marker, the only kind the
\* owner may continue, has never made a native call, not even one still under
\* way. (A stop of an older client carries no marker and is never continued.)
UnsentIsTrue ==
  \A c \in Children :
    /\ ~setup[c].started => wire[c]["create"] = 0 /\ landed[c]["create"] = 0
    /\ ~send[c].started  => wire[c]["agent"] = 0 /\ landed[c]["agent"] = 0
    /\ stop[c].state = "none" \/ (stop[c].tracked /\ ~stop[c].started)
         => wire[c]["abort"] = 0 /\ landed[c]["abort"] = 0

\* Every verdict a reader sees is what natively happened, whichever of the
\* reply, the observation and the event came first.
VerdictIsTrue ==
  \A c \in Children :
    /\ setup[c].state = "ready" => bound[c] /\ landed[c]["create"] = 1
    /\ send[c].state = "accepted" => landed[c]["agent"] = 1
    /\ send[c].state = "completed" => run[c] = "ok"
    /\ send[c].state = "cancelled" => run[c] = "aborted"
    /\ send[c].state = "failed" /\ send[c].started => run[c] \in {"error", "aborted"}
    /\ stop[c].state = "confirmed" => run[c] = "aborted"

\* A child is set up, sent and listened to under one runtime proof: no phase
\* falls back to another runtime, registration or account.
OneLineage ==
  \A c \in Children :
    /\ send[c].proof # NoProof => send[c].proof = setup[c].proof
    /\ lease[c] # NoProof => Sent(c) /\ lease[c] = send[c].proof

\* A phase that may be asked again has no flight left that could still act on
\* the attempt before.
NoOverlap ==
  \A c \in Children :
    /\ setup[c].state \in {"none", "failed"} => flight[c]["setup"].pc = "idle"
    /\ send[c].state = "none" \/ (send[c].state = "failed" /\ ~send[c].started)
         => flight[c]["send"].pc = "idle"
    /\ stop[c].state \in {"none", "failed"} => flight[c]["stop"].pc = "idle"

Issued(c, m) == wire'[c][m] > wire[c][m]

\* Under the update hold, a recovery pause or after close, no step of any
\* flight, command or event writes a child or makes a native call.
Quiet ==
  held \/ closed =>
    UNCHANGED durable /\ \A c \in Children, m \in Calls : ~Issued(c, m)

NothingWhilePaused == [][Quiet]_vars

\* At the moment the turn is sent the prepared input is still current, nobody
\* asked to stop, the session is fresh, and runtime and account are the ones
\* the session was created under, although each was read before an await.
Authorised ==
  \A c \in Children : Issued(c, "agent") =>
    /\ available /\ stop[c].state = "none" /\ run[c] = "none" /\ up
    /\ setup[c].state = "ready"
    /\ life = setup[c].proof.life /\ acct = setup[c].proof.acct

SendUnderAuthority == [][Authorised]_vars

\* A verdict is final, and neither a dispatch marker, a proof nor a bound
\* session is ever taken back.
Kept ==
  \A c \in Children :
    /\ Terminal(c) => send'[c] = send[c]
    /\ setup[c].started => setup'[c].started /\ setup'[c].proof = setup[c].proof
    /\ send[c].started => send'[c].started /\ send'[c].proof = send[c].proof
    /\ stop[c].started => stop'[c].started
    /\ bound[c] => bound'[c]
    /\ revision'[c] \in {revision[c], revision[c] + 1}

NothingUnsaid == [][Kept]_vars
=============================================================================
