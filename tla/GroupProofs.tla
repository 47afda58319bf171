----------------------------- MODULE GroupProofs -----------------------------
(***************************************************************************)
(* GroupExecution for every number of children, continuations, runtimes,   *)
(* registrations and accounts: its safety, what a single step may never    *)
(* do, and that each of its calls implements DurableEffect. The inductive  *)
(* invariant has five parts. Marked, Lineage and Witnessed are kept by     *)
(* every step from themselves; Truth needs Marked and Witnessed; NoOverlap *)
(* stands alone. The properties follow from them.                          *)
(***************************************************************************)
EXTENDS GroupPromises, TLAPS

-----------------------------------------------------------------------------
(* The shape of the state.                                                 *)

\* The initial state is well typed.
LEMMA TypeInit == Init => TypeOK
<1> SUFFICES ASSUME Init PROVE TypeOK
  OBVIOUS
<1> USE ConstantsAssumption DEF Init, TypeOK
<1>1. NoPhase \in Phase
  BY DEF NoPhase, Phase, PhaseStates
<1>2. NoStop \in Stop
  BY DEF NoStop, Stop
<1>3. NoFlight \in Flight
  BY DEF NoFlight, Flight, Waits, Runs
<1>4. 1 \in Lives /\ 1 \in 1 .. MaxReg
  BY DEF Lives
<1>5. /\ setup \in [Children -> Phase] /\ send \in [Children -> Phase]
      /\ stop \in [Children -> Stop] /\ bound \in [Children -> BOOLEAN]
      /\ revision \in [Children -> Nat]
  BY <1>1, <1>2
<1>6. flight \in [Children -> [Kinds -> Flight]]
  BY <1>3
<1>7. /\ lease \in [Children -> Proof \cup {NoProof}]
      /\ registered \in [Lives -> Nat]
  OBVIOUS
<1>8. /\ wire \in [Children -> [Calls -> Nat]] /\ landed \in [Children -> [Calls -> Nat]]
      /\ run \in [Children -> Runs]
  BY DEF Runs
<1>9. QED
  BY <1>4, <1>5, <1>6, <1>7, <1>8

\* The record of a flight just started is well typed.
LEMMA LaunchType ==
  ASSUME TypeOK, NEW c \in Children, NEW k \in Kinds, NEW pc \in Waits,
         NEW a \in 0 .. MaxAttempts, Launch(c, k, pc, a)
  PROVE  flight' \in [Children -> [Kinds -> Flight]]
<1> DEFINE b == setup[c].proof # NoProof
           f == [NoFlight EXCEPT !.pc = pc, !.attempt = a, !.life = life, !.pinned = b]
<1>1. b \in BOOLEAN /\ life \in Nat
  BY ConstantsAssumption DEF TypeOK, Lives
<1>2. f \in Flight
  <2> HIDE DEF b
  <2> QED
    BY <1>1 DEF NoFlight, Flight, Runs
<1>3. flight' = [flight EXCEPT ![c][k] = f]
  BY DEF Launch
<1> HIDE DEF f
<1>4. QED
  BY <1>2, <1>3 DEF TypeOK

\* An observation of the native owner yields a proof.
LEMMA ObservedType ==
  ASSUME TypeOK, NEW c \in Children, NEW k \in Kinds
  PROVE  Observed(c, k) \in Proof
<1>1. flight[c][k] \in Flight
  BY DEF TypeOK
<1>2. flight[c][k].life \in Nat /\ flight[c][k].reg \in Nat /\ acct \in Accounts
  BY <1>1 DEF Flight, TypeOK
<1>3. QED
  BY <1>2 DEF Observed, Proof

\* A phase whose state changes is a phase.
LEMMA PhaseState ==
  ASSUME NEW p \in Phase, NEW s \in PhaseStates
  PROVE  [p EXCEPT !.state = s] \in Phase
BY DEF Phase

\* A phase that gets its dispatch marker and its proof is a phase.
LEMMA PhaseMark ==
  ASSUME NEW p \in Phase, NEW s \in PhaseStates, NEW q \in Proof
  PROVE  [p EXCEPT !.state = s, !.started = TRUE, !.proof = q] \in Phase
BY DEF Phase

\* A stop whose state changes is a stop.
LEMMA StopState ==
  ASSUME NEW p \in Stop, NEW s \in {"requested", "unconfirmed", "confirmed", "failed"}
  PROVE  [p EXCEPT !.state = s] \in Stop
BY DEF Stop

\* A stop that may be continued stays within the attempts it may have.
LEMMA StopAgain ==
  ASSUME NEW p \in Stop, p.attempts < MaxAttempts
  PROVE  [p EXCEPT !.state = "requested", !.attempts = p.attempts + 1] \in Stop
<1>1. p.attempts \in 0 .. MaxAttempts
  BY DEF Stop
<1>2. p.attempts + 1 \in 0 .. MaxAttempts
  BY <1>1, ConstantsAssumption
<1>3. \A n \in 0 .. MaxAttempts : [p EXCEPT !.state = "requested", !.attempts = n] \in Stop
  BY DEF Stop
<1>4. QED
  BY <1>2, <1>3

\* A stop that gets its dispatch marker is a stop.
LEMMA StopMark ==
  ASSUME NEW p \in Stop
  PROVE  [p EXCEPT !.started = TRUE] \in Stop
BY DEF Stop

\* Every attempt begins as a phase.
LEMMA PreparingType == \A a \in 1 .. MaxAttempts : Preparing(a) \in Phase
BY ConstantsAssumption DEF Preparing, Phase, PhaseStates

\* A flight that moves on, or ends, keeps the type of its record.
LEMMA GotoType ==
  ASSUME TypeOK, NEW c \in Children, NEW k \in Kinds, NEW pc \in Waits, Goto(c, k, pc)
  PROVE  flight' \in [Children -> [Kinds -> Flight]]
<1>1. flight[c][k] \in Flight
  BY DEF TypeOK
<1>2. [flight[c][k] EXCEPT !.pc = pc] \in Flight
  BY <1>1 DEF Flight
<1>3. QED
  BY <1>2 DEF Goto, TypeOK

\* A flight that ends keeps the type of the flights.
LEMMA DoneType ==
  ASSUME TypeOK, NEW c \in Children, NEW k \in Kinds, Done(c, k)
  PROVE  flight' \in [Children -> [Kinds -> Flight]]
<1>1. NoFlight \in Flight
  BY ConstantsAssumption DEF NoFlight, Flight, Waits, Runs
<1>2. QED
  BY <1>1 DEF Done, TypeOK

\* A native call keeps the type of the wire.
LEMMA IssueType ==
  ASSUME TypeOK, NEW c \in Children, NEW m \in Calls, Issue(c, m)
  PROVE  wire' \in [Children -> [Calls -> Nat]]
BY DEF Issue, TypeOK

\* An appended event keeps the type of the history length.
LEMMA WrittenType ==
  ASSUME TypeOK, NEW c \in Children, Written(c)
  PROVE  revision' \in [Children -> Nat]
BY DEF Written, TypeOK

\* A phase that may be continued has an attempt left.
LEMMA CanContinue ==
  ASSUME NEW p \in Phase, Continuable(p)
  PROVE  p.attempts + 1 \in 1 .. MaxAttempts
BY ConstantsAssumption DEF Continuable, Phase

\* Every step of the service, the runtime and the world keeps the types.
LEMMA TypeStep == TypeOK /\ [Next]_vars => TypeOK'
<1> SUFFICES ASSUME TypeOK, [Next]_vars PROVE TypeOK'
  OBVIOUS
<1> USE DEF TypeOK, durable, service, world, native
<1>1. ASSUME NEW c \in Children, AdmitSetup(c) PROVE TypeOK'
  BY <1>1, LaunchType, PreparingType, ConstantsAssumption DEF AdmitSetup, Kinds, Waits, Written
<1>2. ASSUME NEW c \in Children, AdmitSend(c) PROVE TypeOK'
  BY <1>2, LaunchType, PreparingType, ConstantsAssumption DEF AdmitSend, Kinds, Waits, Written
<1>3. ASSUME NEW c \in Children, ContinueSetup(c) PROVE TypeOK'
  BY <1>3, LaunchType, PreparingType, CanContinue, ConstantsAssumption DEF ContinueSetup,
     Kinds, Waits, Written
<1>4. ASSUME NEW c \in Children, ContinueSend(c) PROVE TypeOK'
  BY <1>4, LaunchType, PreparingType, CanContinue, ConstantsAssumption DEF ContinueSend, Kinds,
     Waits, Written
<1>5. ASSUME NEW c \in Children, AdmitStop(c) PROVE TypeOK'
  <2>1. \A t \in BOOLEAN : [tracked |-> t, started |-> FALSE, attempts |-> 1, state |-> "requested"] \in Stop
    BY ConstantsAssumption DEF Stop
  <2>2. stop' \in [Children -> Stop]
    BY <1>5, <2>1 DEF AdmitStop
  <2>3. flight' \in [Children -> [Kinds -> Flight]]
    BY <1>5, LaunchType, ConstantsAssumption DEF AdmitStop, Kinds, Waits
  <2>4. revision' \in [Children -> Nat]
    BY <1>5, WrittenType DEF AdmitStop
  <2>5. QED
    BY <1>5, <2>2, <2>3, <2>4 DEF AdmitStop
<1>6. ASSUME NEW c \in Children, ContinueStop(c) PROVE TypeOK'
  <2>1. stop[c] \in Stop /\ stop[c].attempts < MaxAttempts
    BY <1>6 DEF ContinueStop
  <2>2. /\ stop[c].attempts + 1 \in 0 .. MaxAttempts
        /\ [stop[c] EXCEPT !.state = "requested", !.attempts = stop[c].attempts + 1] \in Stop
    BY <2>1, StopAgain, <2>1 DEF Stop
  <2>3. stop' \in [Children -> Stop]
    BY <1>6, <2>1, <2>2 DEF ContinueStop
  <2>4. flight' \in [Children -> [Kinds -> Flight]]
    BY <1>6, <2>2, LaunchType DEF ContinueStop, Kinds, Waits
  <2>5. revision' \in [Children -> Nat]
    BY <1>6, WrittenType DEF ContinueStop
  <2>6. QED
    BY <1>6, <2>3, <2>4, <2>5 DEF ContinueStop
<1>7. ASSUME NEW c \in Children, Observe(c) PROVE TypeOK'
  BY <1>7, LaunchType, ConstantsAssumption DEF Observe, Kinds, Waits
<1>8. ASSUME NEW c \in Children, SetupDispatch(c) PROVE TypeOK'
  <2>1. Observed(c, "setup") \in Proof
    BY ObservedType DEF Kinds
  <2>2. setup[c] \in Phase /\ "dispatching" \in PhaseStates
    BY DEF PhaseStates
  <2>3. [setup[c] EXCEPT !.state = "dispatching", !.started = TRUE, !.proof = Observed(c, "setup")] \in Phase
    BY <2>1, <2>2, PhaseMark
  <2>4. setup' \in [Children -> Phase]
    BY <1>8, <2>1, <2>2, <2>3 DEF SetupDispatch
  <2>5. flight' \in [Children -> [Kinds -> Flight]]
    BY <1>8, GotoType DEF SetupDispatch, Kinds, Waits
  <2>6. wire' \in [Children -> [Calls -> Nat]]
    BY <1>8, IssueType DEF SetupDispatch, Calls
  <2>7. revision' \in [Children -> Nat]
    BY <1>8, WrittenType DEF SetupDispatch
  <2>8. QED
    BY <1>8, <2>4, <2>5, <2>6, <2>7 DEF SetupDispatch
<1>9. ASSUME NEW c \in Children, CreateReply(c) PROVE TypeOK'
  BY <1>9, GotoType, ConstantsAssumption DEF CreateReply, Kinds, Waits
<1>10. ASSUME NEW c \in Children, SetupReady(c) PROVE TypeOK'
  <2>1. [setup[c] EXCEPT !.state = "ready"] \in Phase
    BY <1>10, PhaseState DEF PhaseStates
  <2>2. QED
    BY <1>10, <2>1, DoneType DEF SetupReady, Kinds, Written, RetainReady
<1>11. ASSUME NEW c \in Children, HistoryReply(c) PROVE TypeOK'
  <2>1. flight[c]["send"] \in Flight /\ life \in Nat
    BY <1>11, ConstantsAssumption DEF Kinds, Lives
  <2>2. [flight[c]["send"] EXCEPT !.pc = "policy", !.life = life] \in Flight
    BY <1>11, <2>1 DEF Flight, Waits
  <2>3. QED
    BY <1>11, <2>1, <2>2, ConstantsAssumption DEF HistoryReply, Kinds
<1>12. ASSUME NEW c \in Children, SendDispatch(c) PROVE TypeOK'
  <2>1. flight[c]["send"] \in Flight /\ Observed(c, "send") \in Proof
    BY ObservedType DEF Kinds
  <2>2. [flight[c]["send"] EXCEPT !.pc = "acking", !.proof = Observed(c, "send")] \in Flight
    BY <2>1 DEF Flight, Waits
  <2>3. send[c] \in Phase /\ "dispatching" \in PhaseStates
    BY DEF PhaseStates
  <2>4. [send[c] EXCEPT !.state = "dispatching", !.started = TRUE, !.proof = Observed(c, "send")] \in Phase
    BY <2>1, <2>3, PhaseMark
  <2>5. send' \in [Children -> Phase]
    BY <1>12, <2>4 DEF SendDispatch
  <2>6. flight' \in [Children -> [Kinds -> Flight]]
    BY <1>12, <2>2 DEF SendDispatch, Kinds
  <2>7. lease' \in [Children -> Proof \cup {NoProof}]
    BY <1>12, <2>1 DEF SendDispatch
  <2>8. wire' \in [Children -> [Calls -> Nat]]
    BY <1>12, IssueType DEF SendDispatch, Calls
  <2>9. revision' \in [Children -> Nat]
    BY <1>12, WrittenType DEF SendDispatch
  <2>10. QED
    BY <1>12, <2>5, <2>6, <2>7, <2>8, <2>9 DEF SendDispatch
<1>13. ASSUME NEW c \in Children, SendAck(c) PROVE TypeOK'
  <2>1. [send[c] EXCEPT !.state = "accepted"] \in Phase
    BY PhaseState DEF PhaseStates
  <2>2. send' \in [Children -> Phase]
    BY <1>13, <2>1 DEF SendAck
  <2>3. flight' \in [Children -> [Kinds -> Flight]]
    BY <1>13, DoneType DEF SendAck, Kinds
  <2>4. revision' \in [Children -> Nat]
    BY <1>13, WrittenType DEF SendAck
  <2>5. QED
    BY <1>13, <2>2, <2>3, <2>4 DEF SendAck
<1>14. ASSUME NEW c \in Children, StopDispatch(c) PROVE TypeOK'
  <2>1. [stop[c] EXCEPT !.started = TRUE] \in Stop
    BY StopMark
  <2>2. stop' \in [Children -> Stop]
    BY <1>14, <2>1 DEF StopDispatch
  <2>3. flight' \in [Children -> [Kinds -> Flight]]
    BY <1>14, GotoType DEF StopDispatch, Kinds, Waits
  <2>4. wire' \in [Children -> [Calls -> Nat]]
    BY <1>14, IssueType DEF StopDispatch, Calls
  <2>5. revision' \in [Children -> Nat]
    BY <1>14, WrittenType DEF StopDispatch
  <2>6. QED
    BY <1>14, <2>2, <2>3, <2>4, <2>5 DEF StopDispatch
<1>15. ASSUME NEW c \in Children, ObserveSetup(c) PROVE TypeOK'
  <2>1. [setup[c] EXCEPT !.state = "ready"] \in Phase
    BY <1>15, PhaseState DEF PhaseStates
  <2>2. QED
    BY <1>15, <2>1, DoneType DEF ObserveSetup, Kinds, Written, RetainReady
<1>16. ASSUME NEW c \in Children, ObserveSend(c) PROVE TypeOK'
  BY <1>16, GotoType, ConstantsAssumption DEF ObserveSend, Kinds, Waits
<1>17. ASSUME NEW c \in Children, ObserveVerdict(c) PROVE TypeOK'
  <2>1. /\ [send[c] EXCEPT !.state = "completed"] \in Phase
        /\ [send[c] EXCEPT !.state = "failed"] \in Phase
    BY PhaseState DEF PhaseStates
  <2>2. [stop[c] EXCEPT !.state = "confirmed"] \in Stop
    BY StopState
  <2>3. send' \in [Children -> Phase]
    BY <1>17, <2>1, <2>2 DEF ObserveVerdict, RetainVerdict
  <2>4. stop' \in [Children -> Stop]
    BY <1>17, <2>1, <2>2 DEF ObserveVerdict, RetainVerdict
  <2>5. lease' \in [Children -> Proof \cup {NoProof}]
    BY <1>17 DEF ObserveVerdict, RetainVerdict
  <2>6. flight' \in [Children -> [Kinds -> Flight]]
    BY <1>17, DoneType DEF ObserveVerdict, Kinds
  <2>7. revision' \in [Children -> Nat]
    BY <1>17, WrittenType DEF ObserveVerdict, RetainVerdict
  <2>8. QED
    BY <1>17, <2>3, <2>4, <2>5, <2>6, <2>7 DEF ObserveVerdict
<1>18. ASSUME NEW c \in Children, AbortedEvent(c) PROVE TypeOK'
  <2>1. [send[c] EXCEPT !.state = "cancelled"] \in Phase
    BY <1>18, PhaseState DEF PhaseStates
  <2>2. [stop[c] EXCEPT !.state = "confirmed"] \in Stop
    BY <1>18, StopState
  <2>3. QED
    BY <1>18, <2>1, <2>2, ConstantsAssumption DEF AbortedEvent, Written, RetainVerdict
<1>19. ASSUME NEW c \in Children, FailSetup(c) PROVE TypeOK'
  <2>1. PhaseFailure(setup[c]) \in Phase
    BY PhaseState DEF PhaseFailure, PhaseStates
  <2>2. setup' \in [Children -> Phase]
    BY <1>19, <2>1 DEF FailSetup
  <2>3. flight' \in [Children -> [Kinds -> Flight]]
    BY <1>19, DoneType DEF FailSetup, Kinds
  <2>4. revision' \in [Children -> Nat]
    BY <1>19, WrittenType DEF FailSetup
  <2>5. QED
    BY <1>19, <2>2, <2>3, <2>4 DEF FailSetup
<1>20. ASSUME NEW c \in Children, FailSend(c) PROVE TypeOK'
  <2>1. PhaseFailure(send[c]) \in Phase
    BY PhaseState DEF PhaseFailure, PhaseStates
  <2>2. send' \in [Children -> Phase]
    BY <1>20, <2>1 DEF FailSend
  <2>3. flight' \in [Children -> [Kinds -> Flight]]
    BY <1>20, DoneType DEF FailSend, Kinds
  <2>4. revision' \in [Children -> Nat]
    BY <1>20, WrittenType DEF FailSend
  <2>5. QED
    BY <1>20, <2>2, <2>3, <2>4 DEF FailSend
<1>21. ASSUME NEW c \in Children, EndStop(c) PROVE TypeOK'
  <2>1. [stop[c] EXCEPT !.state = "failed"] \in Stop /\ [stop[c] EXCEPT !.state = "unconfirmed"] \in Stop
    BY StopState
  <2>2. stop' \in [Children -> Stop]
    BY <1>21, <2>1 DEF EndStop
  <2>3. flight' \in [Children -> [Kinds -> Flight]]
    BY <1>21, DoneType DEF EndStop, Kinds
  <2>4. revision' \in [Children -> Nat]
    BY <1>21, WrittenType DEF EndStop
  <2>5. QED
    BY <1>21, <2>2, <2>3, <2>4 DEF EndStop
<1>22. ASSUME NEW c \in Children, EndObserve(c) PROVE TypeOK'
  BY <1>22, DoneType, ConstantsAssumption DEF EndObserve, Kinds
<1>23. ASSUME NEW c \in Children, Finish(c) PROVE TypeOK'
  BY <1>23, TypeOK, ConstantsAssumption DEF Finish, Runs
<1>24. ASSUME NEW c \in Children, NEW k \in Kinds, PolicyReply(c, k) PROVE TypeOK'
  <2> DEFINE seen == landed[c]["create"] > 0
  <2>1. flight[c][k] \in Flight /\ reg \in Nat /\ seen \in BOOLEAN
    BY ConstantsAssumption
  <2> HIDE DEF seen
  <2>2. \A pc \in {"account", "account2"} : [flight[c][k] EXCEPT !.pc = pc, !.reg = reg, !.seen = seen] \in Flight
    BY <2>1 DEF Flight, Waits
  <2>3. PICK pc \in {"account", "account2"} :
          flight' = [flight EXCEPT ![c][k] = [@ EXCEPT !.pc = pc, !.reg = reg, !.seen = seen]]
    BY <1>24 DEF PolicyReply, seen
  <2>4. flight' \in [Children -> [Kinds -> Flight]]
    BY <2>2, <2>3
  <2>5. QED
    BY <1>24, <2>1, <2>4 DEF PolicyReply
<1>25. ASSUME NEW c \in Children, WaitReply(c) PROVE TypeOK'
  <2> DEFINE b == setup[c].proof # NoProof
  <2>1. flight[c]["observe"] \in Flight /\ life \in Nat /\ b \in BOOLEAN /\ run[c] \in Runs
    BY ConstantsAssumption DEF Kinds, Lives
  <2>2. flight' = [flight EXCEPT ![c]["observe"] = [@ EXCEPT !.pc = "policy2", !.life = life, !.result = run[c], !.pinned = b]]
    BY <1>25 DEF WaitReply
  <2> HIDE DEF b
  <2>3. [flight[c]["observe"] EXCEPT !.pc = "policy2", !.life = life, !.result = run[c], !.pinned = b] \in Flight
    BY <2>1 DEF Flight, Waits
  <2>4. flight' \in [Children -> [Kinds -> Flight]]
    BY <2>2, <2>3 DEF Kinds
  <2>5. QED
    BY <1>25, <2>4 DEF WaitReply
<1>26. ASSUME NEW c \in Children, NEW m \in Calls, Deliver(c, m) PROVE TypeOK'
  BY <1>26 DEF Deliver, Runs
<1>27. ASSUME NEW c \in Children, NEW m \in Calls, Drop(c, m) PROVE TypeOK'
  BY <1>27 DEF Drop
<1>28. CASE Close
  BY <1>28 DEF Close
<1>29. CASE Restart
  <2>1. NoFlight \in Flight
    BY ConstantsAssumption DEF NoFlight, Flight, Waits, Runs
  <2>2. QED
    BY <1>29, <2>1 DEF Restart
<1>30. CASE World
  <2>1. ASSUME RestartRuntime PROVE TypeOK'
    <3>1. run' \in [Children -> Runs]
      BY <2>1 DEF RestartRuntime, Runs
    <3>2. wire' \in [Children -> [Calls -> Nat]]
      BY <2>1 DEF RestartRuntime
    <3>3. life' \in Lives
      BY <2>1, ConstantsAssumption DEF RestartRuntime, Lives
    <3>4. QED
      BY <2>1, <3>1, <3>2, <3>3 DEF RestartRuntime
  <2>2. ASSUME Hold \/ Revoke \/ Connect PROVE TypeOK'
    BY <2>2 DEF Hold, Revoke, Connect
  <2>3. ASSUME Reregister PROVE TypeOK'
    BY <2>3, ConstantsAssumption DEF Reregister
  <2>4. ASSUME Reselect PROVE TypeOK'
    BY <2>4 DEF Reselect
  <2>5. QED
    BY <1>30, <2>1, <2>2, <2>3, <2>4 DEF World
<1>31. CASE UNCHANGED vars
  BY <1>31 DEF vars
<1>32. QED
  BY <1>1, <1>2, <1>3, <1>4, <1>5, <1>6, <1>7, <1>8, <1>9, <1>10, <1>11, <1>12, <1>13, <1>14,
     <1>15, <1>16, <1>17, <1>18, <1>19, <1>20, <1>21, <1>22, <1>23, <1>24, <1>25, <1>26, <1>27,
     <1>28, <1>29, <1>30, <1>31 DEF Next, Command, Reply, End, Native

\* Every reachable state is well typed: in particular no phase is attempted
\* more than MaxAttempts times.
THEOREM TypeCorrect == Spec => []TypeOK
<1>1. QED
  BY TypeInit, TypeStep, PTL DEF Spec

-----------------------------------------------------------------------------
(* Safety.                                                                 *)

\* Marked: a call is under way or took effect only behind its durable marker,
\* and only once. A stop without a marker is counted by its only flight.
CreateMarked(c) ==
  /\ setup[c].state = "none" => ~setup[c].started
  /\ wire[c]["create"] + landed[c]["create"] <= 1
  /\ ~setup[c].started => wire[c]["create"] + landed[c]["create"] = 0

AgentMarked(c) ==
  /\ send[c].state = "none" => ~send[c].started
  /\ wire[c]["agent"] + landed[c]["agent"] <= 1
  /\ ~send[c].started => wire[c]["agent"] + landed[c]["agent"] = 0

AbortMarked(c) ==
  /\ stop[c].state = "none" => ~stop[c].started /\ flight[c]["stop"].pc = "idle"
  /\ wire[c]["abort"] + landed[c]["abort"] <= 1
  /\ \/ stop[c].state = "none"
     \/ stop[c].tracked /\ ~stop[c].started
     \/ ~stop[c].tracked /\ flight[c]["stop"].pc \in {"policy", "account"}
     => wire[c]["abort"] + landed[c]["abort"] = 0

Marked == \A c \in Children : CreateMarked(c) /\ AgentMarked(c) /\ AbortMarked(c)

\* Lineage: a marker and its proof are written together, and every later
\* proof equals the one the session was created under.
Lineage(c) ==
  /\ setup[c].started <=> setup[c].proof # NoProof
  /\ send[c].started <=> send[c].proof # NoProof
  /\ send[c].started => setup[c].started /\ send[c].proof = setup[c].proof
  /\ lease[c] # NoProof => Sent(c) /\ lease[c] = send[c].proof
  /\ send[c].state # "none" => setup[c].state = "ready"

LineageInv == \A c \in Children : Lineage(c)

\* Witnessed: what a flight remembers of the runtime is still so.
Witnessed(c) ==
  /\ \A k \in Kinds : flight[c][k].seen => landed[c]["create"] > 0
  /\ flight[c]["observe"].pc \in {"policy2", "account2"} =>
       flight[c]["observe"].result = run[c] /\ run[c] \in {"ok", "error", "aborted"}
  /\ run[c] # "none" => landed[c]["agent"] > 0

Witness == \A c \in Children : Witnessed(c)

\* Truth: the verdicts, one child at a time.
Truth(c) ==
  /\ setup[c].state = "ready" => bound[c] /\ landed[c]["create"] = 1
  /\ send[c].state = "accepted" => landed[c]["agent"] = 1
  /\ send[c].state = "completed" => run[c] = "ok"
  /\ send[c].state = "cancelled" => run[c] = "aborted"
  /\ send[c].state = "failed" /\ send[c].started => run[c] \in {"error", "aborted"}
  /\ stop[c].state = "confirmed" => run[c] = "aborted"

TruthInv == \A c \in Children : Truth(c)

SafeInv == TypeOK /\ Marked /\ LineageInv /\ Witness /\ TruthInv /\ NoOverlap

-----------------------------------------------------------------------------
(* How the steps change one record.                                        *)

\* A failed flight leaves the marker and the proof of its phase.
LEMMA FailurePhase ==
  ASSUME NEW p \in Phase
  PROVE  /\ PhaseFailure(p).started = p.started
         /\ PhaseFailure(p).proof = p.proof
         /\ PhaseFailure(p).state = IF p.started THEN "unknown" ELSE "failed"
BY DEF PhaseFailure, Phase, PhaseStates

\* A new state leaves the marker and the proof of a phase.
LEMMA RestatedPhase ==
  ASSUME NEW p \in Phase, NEW s
  PROVE  /\ [p EXCEPT !.state = s].started = p.started
         /\ [p EXCEPT !.state = s].proof = p.proof
         /\ [p EXCEPT !.state = s].state = s
BY DEF Phase

\* A marker leaves the state of a stop; a new state leaves its marker.
LEMMA RestatedStop ==
  ASSUME NEW p \in Stop, NEW s
  PROVE  /\ [p EXCEPT !.started = TRUE].state = p.state
         /\ [p EXCEPT !.state = s].state = s
         /\ [p EXCEPT !.state = s].started = p.started
BY DEF Stop

\* An acknowledgement changes nothing but the state of a sent turn.
LEMMA AckMoves ==
  ASSUME TypeOK, NEW c \in Children, SendAck(c), NEW d \in Children
  PROVE  /\ send'[d].started = send[d].started /\ send'[d].proof = send[d].proof
         /\ send'[d].state # send[d].state =>
              Sent(d) /\ send'[d].state = "accepted" /\ landed[d]["agent"] > 0
         /\ send'[d] # send[d] => Sent(d)
<1>1. CASE UNCHANGED send
  BY <1>1
<1>2. CASE /\ send[c].started /\ send[c].state \in {"dispatching", "unknown"}
           /\ send' = [send EXCEPT ![c].state = "accepted"]
  <2>1. Sent(c) /\ landed[c]["agent"] > 0
    BY <1>2 DEF Sent, Settled, SendAck
  <2>2. send[d] \in Phase
    BY DEF TypeOK
  <2>3. IF d = c THEN send'[d] = [send[d] EXCEPT !.state = "accepted"] ELSE send'[d] = send[d]
    BY <1>2 DEF TypeOK
  <2>4. CASE d = c
    <3>1. send'[d] = [send[d] EXCEPT !.state = "accepted"]
      BY <2>3, <2>4
    <3>2. /\ send'[d].started = send[d].started /\ send'[d].proof = send[d].proof
          /\ send'[d].state = "accepted"
      BY <2>2, <3>1, RestatedPhase
    <3>3. QED
      BY <2>1, <2>4, <3>2
  <2>5. QED
    BY <2>3, <2>4
<1>3. QED
  BY <1>1, <1>2 DEF SendAck

\* The dispatch of a stop leaves its state.
LEMMA StopMoves ==
  ASSUME TypeOK, NEW c \in Children, StopDispatch(c), NEW d \in Children
  PROVE  stop'[d].state = stop[d].state
<1>1. CASE UNCHANGED stop
  BY <1>1
<1>2. CASE stop' = [stop EXCEPT ![c].started = TRUE]
  <2>1. stop'[d] = stop[d] \/ stop'[d] = [stop[d] EXCEPT !.started = TRUE]
    BY <1>2 DEF TypeOK
  <2>2. stop[d] \in Stop
    BY DEF TypeOK
  <2>3. QED
    BY <2>1, <2>2, RestatedStop
<1>3. QED
  BY <1>1, <1>2 DEF StopDispatch

\* The end of a stop leaves its marker and confirms nothing.
LEMMA EndStopMoves ==
  ASSUME TypeOK, NEW c \in Children, EndStop(c), NEW d \in Children
  PROVE  /\ stop'[d].state = stop[d].state \/ stop'[d].state \in {"failed", "unconfirmed"}
         /\ stop'[d].started = stop[d].started
<1>1. CASE UNCHANGED stop
  BY <1>1
<1>2. ASSUME NEW s \in {"failed", "unconfirmed"}, stop' = [stop EXCEPT ![c].state = s]
      PROVE  /\ stop'[d].state = stop[d].state \/ stop'[d].state = s
             /\ stop'[d].started = stop[d].started
  <2>1. stop'[d] = stop[d] \/ stop'[d] = [stop[d] EXCEPT !.state = s]
    BY <1>2 DEF TypeOK
  <2>2. stop[d] \in Stop
    BY DEF TypeOK
  <2>3. [stop[d] EXCEPT !.state = s].state = s /\ [stop[d] EXCEPT !.state = s].started = stop[d].started
    BY <2>2, RestatedStop
  <2>4. QED
    BY <2>1, <2>3
<1>3. QED
  BY <1>1, <1>2 DEF EndStop

\* A verdict is written over a sent turn only, and can only confirm a stop.
LEMMA VerdictMoves ==
  ASSUME TypeOK, NEW c \in Children, NEW p, NEW v \in PhaseStates,
         RetainVerdict(c, p, v), NEW d \in Children
  PROVE  /\ send'[d] = send[d] \/ (send'[d].started /\ send'[d].state = v)
         /\ stop'[d].state \in {stop[d].state, "confirmed"}
<1>1. send[c] \in Phase /\ stop[c] \in Stop /\ send[c].started
  BY DEF TypeOK, RetainVerdict, Sent
<1>2. send'[d] = send[d] \/ send'[d] = [send[c] EXCEPT !.state = v]
  BY DEF TypeOK, RetainVerdict
<1>3. stop'[d] = stop[d] \/ stop'[d] = [stop[c] EXCEPT !.state = "confirmed"]
  <2>1. CASE UNCHANGED stop
    BY <2>1
  <2>2. CASE stop' = [stop EXCEPT ![c].state = "confirmed"]
    BY <2>2 DEF TypeOK
  <2>3. QED
    BY <2>1, <2>2 DEF RetainVerdict
<1>4. /\ [send[c] EXCEPT !.state = v].started /\ [send[c] EXCEPT !.state = v].state = v
      /\ [stop[c] EXCEPT !.state = "confirmed"].state = "confirmed"
  BY <1>1, RestatedPhase, RestatedStop
<1>5. QED
  BY <1>2, <1>3, <1>4

\* A failure never touches a marker, a proof or a turn that was answered.
LEMMA FailMoves ==
  ASSUME TypeOK, NEW c \in Children, FailSetup(c) \/ FailSend(c), NEW d \in Children
  PROVE  /\ setup'[d].started = setup[d].started /\ setup'[d].proof = setup[d].proof
         /\ send'[d].started = send[d].started /\ send'[d].proof = send[d].proof
         /\ send'[d] = send[d] \/ send[d].state \in {"preparing", "dispatching"}
<1>1. setup[d] \in Phase /\ send[d] \in Phase
  BY DEF TypeOK
<1>2. \/ setup'[d] = setup[d] /\ send'[d] = send[d]
      \/ setup'[d] = PhaseFailure(setup[d]) /\ send'[d] = send[d]
      \/ /\ setup'[d] = setup[d] /\ send'[d] = PhaseFailure(send[d])
         /\ send[d].state \in {"preparing", "dispatching"}
  BY DEF TypeOK, FailSetup, FailSend, Fails
<1>3. QED
  BY <1>1, <1>2, FailurePhase

\* Of a call made at most once that took effect, one took effect.
LEMMA CountOnce ==
  ASSUME TypeOK, NEW c \in Children, NEW m \in Calls,
         wire[c][m] + landed[c][m] <= 1, landed[c][m] > 0
  PROVE  landed[c][m] = 1
<1>1. landed[c][m] \in Nat /\ wire[c][m] \in Nat
  BY DEF TypeOK
<1>2. QED
  BY <1>1

\* The marker of a setup is written with its proof, and touches nothing else.
LEMMA DispatchMoves ==
  ASSUME TypeOK, NEW c \in Children, SetupDispatch(c), NEW d \in Children
  PROVE  /\ UNCHANGED <<send, lease>>
         /\ d # c => setup'[d] = setup[d]
         /\ setup[c].state # "ready" /\ ~setup[c].started
         /\ setup'[c].started /\ setup'[c].proof # NoProof
<1> DEFINE o == Observed(c, "setup")
<1>1. o # NoProof
  BY ObservedType, ConstantsAssumption DEF Kinds
<1> HIDE DEF o
<1>2. setup \in [Children -> Phase]
  BY DEF TypeOK
<1>3. /\ setup' = [setup EXCEPT ![c] = [@ EXCEPT !.state = "dispatching", !.started = TRUE,
                                             !.proof = o]]
      /\ setup[c].state = "preparing" /\ ~setup[c].started /\ UNCHANGED <<send, lease>>
  BY DEF SetupDispatch, o
<1>4. setup[c] \in Phase /\ (d # c => setup'[d] = setup[d])
  BY <1>2, <1>3
<1>5. setup'[c] = [setup[c] EXCEPT !.state = "dispatching", !.started = TRUE, !.proof = o]
  BY <1>2, <1>3
<1>6. setup'[c].started /\ setup'[c].proof = o
  BY <1>4, <1>5 DEF Phase
<1> QED
  BY <1>1, <1>3, <1>4, <1>6

\* Starting a flight touches no other flight, and it has observed nothing.
LEMMA LaunchFlight ==
  ASSUME TypeOK, NEW c \in Children, NEW k \in Kinds, NEW pc, NEW a, Launch(c, k, pc, a)
  PROVE  \A d \in Children, j \in Kinds :
           IF d = c /\ j = k THEN flight'[d][j].pc = pc /\ ~flight'[d][j].seen
           ELSE flight'[d][j] = flight[d][j]
BY DEF TypeOK, Launch, NoFlight

\* A flight that moves on touches no other and forgets nothing it saw.
LEMMA GotoFlight ==
  ASSUME TypeOK, NEW c \in Children, NEW k \in Kinds, NEW pc, Goto(c, k, pc)
  PROVE  \A d \in Children, j \in Kinds :
           IF d = c /\ j = k
           THEN flight'[d][j].pc = pc /\ flight'[d][j].seen = flight[d][j].seen
           ELSE flight'[d][j] = flight[d][j]
BY DEF TypeOK, Goto, Flight

\* The end of a flight touches no other flight.
LEMMA DoneFlight ==
  ASSUME TypeOK, NEW c \in Children, NEW k \in Kinds, Done(c, k)
  PROVE  \A d \in Children, j \in Kinds :
           IF d = c /\ j = k THEN flight'[d][j].pc = "idle" /\ ~flight'[d][j].seen
           ELSE flight'[d][j] = flight[d][j]
BY DEF TypeOK, Done, NoFlight

\* No step calls without its marker, and none calls twice.
LEMMA MarkStep == TypeOK /\ Marked /\ [Next]_vars => Marked'
<1> SUFFICES ASSUME TypeOK /\ Marked, [Next]_vars PROVE Marked'
  OBVIOUS
<1> USE DEF TypeOK, Marked, CreateMarked, AgentMarked, AbortMarked, durable, service, world,
        native, Kinds, Calls, Phase, Stop, Flight
<1>1. ASSUME NEW c \in Children, AdmitSetup(c) PROVE Marked'
  BY <1>1 DEF AdmitSetup, Preparing, Launch
<1>2. ASSUME NEW c \in Children, AdmitSend(c) PROVE Marked'
  BY <1>2 DEF AdmitSend, Preparing, Launch
<1>3. ASSUME NEW c \in Children, ContinueSetup(c) PROVE Marked'
  <2> SUFFICES ASSUME NEW d \in Children
               PROVE  CreateMarked(d)' /\ AgentMarked(d)' /\ AbortMarked(d)'
    OBVIOUS
  <2>1. UNCHANGED <<send, stop, wire, landed>> /\ flight'[d]["stop"] = flight[d]["stop"]
    BY <1>3, LaunchFlight DEF ContinueSetup
  <2>2. /\ ~setup[c].started /\ (d # c => setup'[d] = setup[d])
        /\ setup'[c] = Preparing(setup[c].attempts + 1)
    BY <1>3 DEF ContinueSetup, Continuable
  <2>3. QED
    BY <2>1, <2>2 DEF Preparing
<1>4. ASSUME NEW c \in Children, ContinueSend(c) PROVE Marked'
  BY <1>4 DEF ContinueSend, Preparing, Launch, Continuable
<1>5. ASSUME NEW c \in Children, AdmitStop(c) PROVE Marked'
  BY <1>5 DEF AdmitStop, Launch, NoFlight
<1>6. ASSUME NEW c \in Children, ContinueStop(c) PROVE Marked'
  BY <1>6 DEF ContinueStop, Launch
<1>7. ASSUME NEW c \in Children, Observe(c) PROVE Marked'
  BY <1>7 DEF Observe, Launch
<1>8. ASSUME NEW c \in Children, SetupDispatch(c) PROVE Marked'
  BY <1>8 DEF SetupDispatch, Issue, Goto
<1>9. ASSUME NEW c \in Children, CreateReply(c) PROVE Marked'
  BY <1>9 DEF CreateReply, Goto
<1>10. ASSUME NEW c \in Children, SetupReady(c) PROVE Marked'
  BY <1>10 DEF SetupReady, RetainReady, Done
<1>11. ASSUME NEW c \in Children, HistoryReply(c) PROVE Marked'
  BY <1>11 DEF HistoryReply
<1>12. ASSUME NEW c \in Children, SendDispatch(c) PROVE Marked'
  <2> SUFFICES ASSUME NEW d \in Children
               PROVE  CreateMarked(d)' /\ AgentMarked(d)' /\ AbortMarked(d)'
    OBVIOUS
  <2>1. /\ UNCHANGED <<setup, stop, landed>>
        /\ ~send[c].started
        /\ \A m \in Calls : wire'[d][m] = IF d = c /\ m = "agent" THEN wire[d][m] + 1 ELSE wire[d][m]
        /\ d # c => send'[d] = send[d]
        /\ send'[c].started /\ send'[c].state = "dispatching"
        /\ flight'[d]["stop"] = flight[d]["stop"]
    BY <1>12 DEF SendDispatch, Issue
  <2>2. QED
    <3>1. CreateMarked(d)' /\ AbortMarked(d)'
      BY <2>1
    <3>2. AgentMarked(d)'
      BY <2>1
    <3>3. QED
      BY <3>1, <3>2
<1>13. ASSUME NEW c \in Children, SendAck(c) PROVE Marked'
  <2> SUFFICES ASSUME NEW d \in Children
               PROVE  CreateMarked(d)' /\ AgentMarked(d)' /\ AbortMarked(d)'
    OBVIOUS
  <2>1. UNCHANGED <<setup, stop, wire, landed>>
    BY <1>13 DEF SendAck
  <2>2. send'[d].started = send[d].started /\ send'[d].state \in {send[d].state, "accepted"}
    BY <1>13, AckMoves
  <2>3. flight'[d]["stop"] = flight[d]["stop"]
    BY <1>13, DoneFlight DEF SendAck
  <2>4. QED
    BY <2>1, <2>2, <2>3
<1>14. ASSUME NEW c \in Children, StopDispatch(c) PROVE Marked'
  <2> SUFFICES ASSUME NEW d \in Children
               PROVE  CreateMarked(d)' /\ AgentMarked(d)' /\ AbortMarked(d)'
    OBVIOUS
  <2>1. /\ UNCHANGED <<setup, send, landed>>
        /\ \A m \in Calls : wire'[d][m] = IF d = c /\ m = "abort" THEN wire[d][m] + 1 ELSE wire[d][m]
        /\ d # c => stop'[d] = stop[d] /\ flight'[d]["stop"] = flight[d]["stop"]
        /\ flight[c]["stop"].pc = "account" /\ flight'[c]["stop"].pc = "aborting"
    BY <1>14 DEF StopDispatch, Issue, Goto
  <2>2. /\ stop'[c].tracked = stop[c].tracked /\ stop'[c].state = stop[c].state
        /\ stop[c].tracked => ~stop[c].started /\ stop'[c].started
        /\ stop[c].state # "none"
    BY <1>14 DEF StopDispatch
  <2>3. QED
    BY <2>1, <2>2
<1>15. ASSUME NEW c \in Children, ObserveSetup(c) PROVE Marked'
  BY <1>15 DEF ObserveSetup, RetainReady, Done
<1>16. ASSUME NEW c \in Children, ObserveSend(c) PROVE Marked'
  BY <1>16 DEF ObserveSend, Goto
<1>17. ASSUME NEW c \in Children, WaitReply(c) PROVE Marked'
  BY <1>17 DEF WaitReply
<1>18. ASSUME NEW c \in Children, ObserveVerdict(c) PROVE Marked'
  BY <1>18 DEF ObserveVerdict, RetainVerdict, Done
<1>19. ASSUME NEW c \in Children, AbortedEvent(c) PROVE Marked'
  BY <1>19 DEF AbortedEvent, RetainVerdict
<1>20. ASSUME NEW c \in Children, FailSetup(c) PROVE Marked'
  <2> SUFFICES ASSUME NEW d \in Children
               PROVE  CreateMarked(d)' /\ AgentMarked(d)' /\ AbortMarked(d)'
    OBVIOUS
  <2>1. /\ UNCHANGED <<send, stop, wire, landed>>
        /\ setup'[d].started = setup[d].started
        /\ setup'[d].state = "none" => setup[d].state = "none"
        /\ flight'[d]["stop"] = flight[d]["stop"]
    BY <1>20 DEF FailSetup, PhaseFailure, Done
  <2>2. QED
    BY <2>1
<1>21. ASSUME NEW c \in Children, FailSend(c) PROVE Marked'
  <2> SUFFICES ASSUME NEW d \in Children
               PROVE  CreateMarked(d)' /\ AgentMarked(d)' /\ AbortMarked(d)'
    OBVIOUS
  <2>1. /\ UNCHANGED <<setup, stop, wire, landed>>
        /\ send'[d].started = send[d].started
        /\ send'[d].state = "none" => send[d].state = "none"
        /\ flight'[d]["stop"] = flight[d]["stop"]
    BY <1>21 DEF FailSend, PhaseFailure, Done
  <2>2. QED
    BY <2>1
<1>22. ASSUME NEW c \in Children, EndStop(c) PROVE Marked'
  <2> SUFFICES ASSUME NEW d \in Children
               PROVE  CreateMarked(d)' /\ AgentMarked(d)' /\ AbortMarked(d)'
    OBVIOUS
  <2>1. /\ UNCHANGED <<setup, send, wire, landed>>
        /\ stop'[d].tracked = stop[d].tracked /\ stop'[d].started = stop[d].started
        /\ stop'[d].state = "none" => stop[d].state = "none"
        /\ flight'[d]["stop"] = flight[d]["stop"] \/ flight'[d]["stop"].pc = "idle"
    BY <1>22 DEF EndStop, Done, NoFlight
  <2>2. QED
    BY <2>1
<1>23. ASSUME NEW c \in Children, EndObserve(c) PROVE Marked'
  BY <1>23 DEF EndObserve, Done
<1>24. ASSUME NEW c \in Children, Finish(c) PROVE Marked'
  BY <1>24 DEF Finish
<1>25. ASSUME NEW c \in Children, NEW k \in Kinds, PolicyReply(c, k) PROVE Marked'
  BY <1>25 DEF PolicyReply
<1>26. ASSUME NEW c \in Children, NEW m \in Calls, Deliver(c, m) PROVE Marked'
  BY <1>26 DEF Deliver
<1>27. ASSUME NEW c \in Children, NEW m \in Calls, Drop(c, m) PROVE Marked'
  BY <1>27 DEF Drop
<1>28. CASE Close
  BY <1>28 DEF Close
<1>29. CASE Restart
  <2> SUFFICES ASSUME NEW d \in Children
               PROVE  CreateMarked(d)' /\ AgentMarked(d)' /\ AbortMarked(d)'
    OBVIOUS
  <2>1. UNCHANGED <<setup, send, stop, wire, landed>>
    BY <1>29 DEF Restart
  <2>2. flight'[d]["stop"].pc = "idle"
    BY <1>29 DEF Restart, NoFlight
  <2>3. CreateMarked(d)' /\ AgentMarked(d)'
    BY <2>1
  <2>4. AbortMarked(d)'
    BY <2>1, <2>2
  <2>5. QED
    BY <2>3, <2>4
<1>30. CASE World
  <2> SUFFICES ASSUME NEW d \in Children
               PROVE  CreateMarked(d)' /\ AgentMarked(d)' /\ AbortMarked(d)'
    OBVIOUS
  <2>1. UNCHANGED <<setup, send, stop, landed, flight>>
    BY <1>30 DEF World, Hold, Revoke, Connect, Reregister, Reselect, RestartRuntime
  <2>2. wire' = wire \/ wire' = [a \in Children |-> [m \in Calls |-> 0]]
    BY <1>30 DEF World, Hold, Revoke, Connect, Reregister, Reselect, RestartRuntime
  <2>3. CASE wire' = wire
    BY <2>1, <2>3
  <2>4. CASE wire' = [a \in Children |-> [m \in Calls |-> 0]]
    <3>1. \A m \in Calls : wire'[d][m] = 0 /\ wire[d][m] \in Nat /\ landed[d][m] \in Nat
      BY <2>4
    <3>2. QED
      BY <2>1, <3>1
  <2>5. QED
    BY <2>2, <2>3, <2>4
<1>31. CASE UNCHANGED vars
  BY <1>31 DEF vars
<1>32. QED
  <2> HIDE DEF TypeOK, Marked, CreateMarked, AgentMarked, AbortMarked, durable, service, world,
         native, Kinds, Calls, Phase, Stop, Flight
  <2>1. QED
    BY <1>1, <1>2, <1>3, <1>4, <1>5, <1>6, <1>7, <1>8, <1>9, <1>10, <1>11, <1>12, <1>13, <1>14,
       <1>15, <1>16, <1>17, <1>18, <1>19, <1>20, <1>21, <1>22, <1>23, <1>24, <1>25, <1>26, <1>27,
       <1>28, <1>29, <1>30, <1>31 DEF Next, Command, Reply, End, Native

\* No step separates a marker from its proof, or one proof from another.
LEMMA LineageStep == TypeOK /\ Marked /\ LineageInv /\ [Next]_vars => LineageInv'
<1> SUFFICES ASSUME TypeOK /\ Marked /\ LineageInv, [Next]_vars PROVE LineageInv'
  OBVIOUS
<1> USE DEF TypeOK, LineageInv, Lineage, CreateMarked, AgentMarked, Marked, Sent, Settled,
        durable, service, world, native, Kinds, Calls, Phase, Stop, Flight
<1>1. ASSUME NEW c \in Children, AdmitSetup(c) PROVE LineageInv'
  BY <1>1 DEF AdmitSetup, Preparing, Launch
<1>2. ASSUME NEW c \in Children, AdmitSend(c) PROVE LineageInv'
  BY <1>2 DEF AdmitSend, Preparing, Launch
<1>3. ASSUME NEW c \in Children, ContinueSetup(c) PROVE LineageInv'
  BY <1>3 DEF ContinueSetup, Preparing, Launch, Continuable
<1>4. ASSUME NEW c \in Children, ContinueSend(c) PROVE LineageInv'
  BY <1>4 DEF ContinueSend, Preparing, Launch, Continuable
<1>5. ASSUME NEW c \in Children, AdmitStop(c) PROVE LineageInv'
  BY <1>5 DEF AdmitStop, Launch, NoFlight
<1>6. ASSUME NEW c \in Children, ContinueStop(c) PROVE LineageInv'
  BY <1>6 DEF ContinueStop, Launch
<1>7. ASSUME NEW c \in Children, Observe(c) PROVE LineageInv'
  BY <1>7 DEF Observe, Launch
<1>8. ASSUME NEW c \in Children, SetupDispatch(c) PROVE LineageInv'
  <2> SUFFICES ASSUME NEW d \in Children PROVE Lineage(d)'
    OBVIOUS
  <2>1. /\ UNCHANGED <<send, lease>>
        /\ d # c => setup'[d] = setup[d]
        /\ setup[c].state # "ready" /\ ~setup[c].started
        /\ setup'[c].started /\ setup'[c].proof # NoProof
    <3> HIDE DEF LineageInv, Marked, TypeOK
    <3>1. QED
      BY <1>8, DispatchMoves
  <2>2. Lineage(c) /\ Lineage(d) /\ send \in [Children -> Phase]
    OBVIOUS
  <2> HIDE DEF LineageInv, Marked, TypeOK, Phase
  <2>3. CASE d # c
    BY <2>1, <2>2, <2>3
  <2>4. CASE d = c
    BY <2>1, <2>2, <2>4
  <2>5. QED
    BY <2>3, <2>4
<1>9. ASSUME NEW c \in Children, CreateReply(c) PROVE LineageInv'
  BY <1>9 DEF CreateReply, Goto
<1>10. ASSUME NEW c \in Children, SetupReady(c) PROVE LineageInv'
  BY <1>10 DEF SetupReady, RetainReady, Done
<1>11. ASSUME NEW c \in Children, HistoryReply(c) PROVE LineageInv'
  BY <1>11 DEF HistoryReply
<1>12. ASSUME NEW c \in Children, SendDispatch(c) PROVE LineageInv'
  <2> SUFFICES ASSUME NEW d \in Children PROVE Lineage(d)'
    OBVIOUS
  <2>1. /\ UNCHANGED setup /\ setup[c].proof # NoProof /\ send[c].state # "none"
        /\ d # c => send'[d] = send[d] /\ lease'[d] = lease[d]
        /\ send'[c].started /\ send'[c].state = "dispatching"
        /\ send'[c].proof = setup[c].proof /\ lease'[c] = setup[c].proof
    BY <1>12, ObservedType, ConstantsAssumption DEF SendDispatch
  <2>2. setup[c].started /\ setup[c].state = "ready"
    BY <2>1
  <2>3. CASE d = c
    BY <2>1, <2>2, <2>3
  <2>4. CASE d # c
    BY <2>1, <2>4
  <2>5. QED
    BY <2>3, <2>4
<1>13. ASSUME NEW c \in Children, SendAck(c) PROVE LineageInv'
  <2> SUFFICES ASSUME NEW d \in Children PROVE Lineage(d)'
    OBVIOUS
  <2>1. UNCHANGED <<setup, lease, stop, bound, landed, run>>
    BY <1>13 DEF SendAck
  <2>2. /\ send'[d].started = send[d].started /\ send'[d].proof = send[d].proof
        /\ send'[d].state # send[d].state =>
             Sent(d) /\ send'[d].state = "accepted" /\ landed[d]["agent"] > 0
    BY <1>13, AckMoves
  <2>9. QED
    BY <2>1, <2>2
<1>14. ASSUME NEW c \in Children, StopDispatch(c) PROVE LineageInv'
  BY <1>14 DEF StopDispatch, Issue, Goto
<1>15. ASSUME NEW c \in Children, ObserveSetup(c) PROVE LineageInv'
  BY <1>15 DEF ObserveSetup, RetainReady, Done
<1>16. ASSUME NEW c \in Children, ObserveSend(c) PROVE LineageInv'
  BY <1>16 DEF ObserveSend, Goto
<1>17. ASSUME NEW c \in Children, WaitReply(c) PROVE LineageInv'
  BY <1>17 DEF WaitReply
<1>18. ASSUME NEW c \in Children, ObserveVerdict(c) PROVE LineageInv'
  BY <1>18 DEF ObserveVerdict, RetainVerdict, Done
<1>19. ASSUME NEW c \in Children, AbortedEvent(c) PROVE LineageInv'
  BY <1>19 DEF AbortedEvent, RetainVerdict
<1>20. ASSUME NEW c \in Children, FailSetup(c) PROVE LineageInv'
  <2> SUFFICES ASSUME NEW d \in Children PROVE Lineage(d)'
    OBVIOUS
  <2>1. /\ UNCHANGED <<send, lease, stop, bound, landed, run, wire>>
        /\ \/ setup'[d] = setup[d]
           \/ /\ setup'[d] = PhaseFailure(setup[d])
              /\ setup[d].state \in {"preparing", "dispatching"}
    BY <1>20 DEF FailSetup, Fails
  <2>2. /\ setup'[d].started = setup[d].started /\ setup'[d].proof = setup[d].proof
        /\ setup'[d].state # setup[d].state =>
             /\ setup[d].state \in {"preparing", "dispatching"}
             /\ setup'[d].state = IF setup[d].started THEN "unknown" ELSE "failed"
    BY <2>1, FailurePhase
  <2>3. QED
    BY <2>1, <2>2
<1>21. ASSUME NEW c \in Children, FailSend(c) PROVE LineageInv'
  <2> SUFFICES ASSUME NEW d \in Children PROVE Lineage(d)'
    OBVIOUS
  <2>1. /\ UNCHANGED <<setup, lease, stop, bound, landed, run, wire>>
        /\ \/ send'[d] = send[d]
           \/ /\ send'[d] = PhaseFailure(send[d])
              /\ send[d].state \in {"preparing", "dispatching"}
    BY <1>21 DEF FailSend, Fails
  <2>2. /\ send'[d].started = send[d].started /\ send'[d].proof = send[d].proof
        /\ send'[d].state # send[d].state =>
             /\ send[d].state \in {"preparing", "dispatching"}
             /\ send'[d].state = IF send[d].started THEN "unknown" ELSE "failed"
    BY <2>1, FailurePhase
  <2>3. QED
    BY <2>1, <2>2
<1>22. ASSUME NEW c \in Children, EndStop(c) PROVE LineageInv'
  BY <1>22 DEF EndStop, Done, NoFlight
<1>23. ASSUME NEW c \in Children, EndObserve(c) PROVE LineageInv'
  BY <1>23 DEF EndObserve, Done
<1>24. ASSUME NEW c \in Children, Finish(c) PROVE LineageInv'
  BY <1>24 DEF Finish
<1>25. ASSUME NEW c \in Children, NEW k \in Kinds, PolicyReply(c, k) PROVE LineageInv'
  BY <1>25 DEF PolicyReply
<1>26. ASSUME NEW c \in Children, NEW m \in Calls, Deliver(c, m) PROVE LineageInv'
  BY <1>26 DEF Deliver
<1>27. ASSUME NEW c \in Children, NEW m \in Calls, Drop(c, m) PROVE LineageInv'
  BY <1>27 DEF Drop
<1>28. CASE Close
  BY <1>28 DEF Close
<1>29. CASE Restart
  BY <1>29 DEF Restart, NoFlight
<1>30. CASE World
  BY <1>30 DEF World, Hold, Revoke, Connect, Reregister, Reselect, RestartRuntime
<1>31. CASE UNCHANGED vars
  BY <1>31 DEF vars
<1>32. QED
  <2> HIDE DEF TypeOK, LineageInv, Lineage, CreateMarked, AgentMarked, Marked, Sent, Settled,
         durable, service, world, native, Kinds, Calls, Phase, Stop, Flight
  <2>1. QED
    BY <1>1, <1>2, <1>3, <1>4, <1>5, <1>6, <1>7, <1>8, <1>9, <1>10, <1>11, <1>12, <1>13, <1>14,
       <1>15, <1>16, <1>17, <1>18, <1>19, <1>20, <1>21, <1>22, <1>23, <1>24, <1>25, <1>26, <1>27,
       <1>28, <1>29, <1>30, <1>31 DEF Next, Command, Reply, End, Native

\* What a flight saw of the runtime stays so while it waits.
LEMMA WitnessStep == TypeOK /\ Marked /\ Witness /\ [Next]_vars => Witness'
<1> SUFFICES ASSUME TypeOK /\ Marked /\ Witness, [Next]_vars PROVE Witness'
  OBVIOUS
<1> USE DEF TypeOK, Witness, Witnessed, Marked, AgentMarked, CreateMarked, Sent, Settled,
        durable, service, world, native, Kinds, Calls, Phase, Stop, Flight
<1>1. ASSUME NEW c \in Children, AdmitSetup(c) PROVE Witness'
  <2>1. UNCHANGED <<landed, run>>
    BY <1>1 DEF AdmitSetup
  <2>2. \A d \in Children, j \in Kinds :
          IF d = c /\ j = "setup" THEN flight'[d][j].pc = "policy" /\ ~flight'[d][j].seen
          ELSE flight'[d][j] = flight[d][j]
    BY <1>1, LaunchFlight DEF AdmitSetup
  <2>3. QED
    BY <2>1, <2>2
<1>2. ASSUME NEW c \in Children, AdmitSend(c) PROVE Witness'
  <2>1. UNCHANGED <<landed, run>>
    BY <1>2 DEF AdmitSend
  <2>2. \A d \in Children, j \in Kinds :
          IF d = c /\ j = "send" THEN flight'[d][j].pc = "history" /\ ~flight'[d][j].seen
          ELSE flight'[d][j] = flight[d][j]
    BY <1>2, LaunchFlight DEF AdmitSend
  <2>3. QED
    BY <2>1, <2>2
<1>3. ASSUME NEW c \in Children, ContinueSetup(c) PROVE Witness'
  <2>1. UNCHANGED <<landed, run>>
    BY <1>3 DEF ContinueSetup
  <2>2. \A d \in Children, j \in Kinds :
          IF d = c /\ j = "setup" THEN flight'[d][j].pc = "policy" /\ ~flight'[d][j].seen
          ELSE flight'[d][j] = flight[d][j]
    BY <1>3, LaunchFlight DEF ContinueSetup
  <2>3. QED
    BY <2>1, <2>2
<1>4. ASSUME NEW c \in Children, ContinueSend(c) PROVE Witness'
  <2>1. UNCHANGED <<landed, run>>
    BY <1>4 DEF ContinueSend
  <2>2. \A d \in Children, j \in Kinds :
          IF d = c /\ j = "send" THEN flight'[d][j].pc = "history" /\ ~flight'[d][j].seen
          ELSE flight'[d][j] = flight[d][j]
    BY <1>4, LaunchFlight DEF ContinueSend
  <2>3. QED
    BY <2>1, <2>2
<1>5. ASSUME NEW c \in Children, AdmitStop(c) PROVE Witness'
  <2>1. UNCHANGED <<landed, run>>
    BY <1>5 DEF AdmitStop
  <2>2. \A d \in Children, j \in Kinds :
          IF d = c /\ j = "stop" THEN flight'[d][j].pc = "policy" /\ ~flight'[d][j].seen
          ELSE flight'[d][j] = flight[d][j]
    BY <1>5, LaunchFlight DEF AdmitStop
  <2>3. QED
    BY <2>1, <2>2
<1>6. ASSUME NEW c \in Children, ContinueStop(c) PROVE Witness'
  <2>1. UNCHANGED <<landed, run>>
    BY <1>6 DEF ContinueStop
  <2>2. \A d \in Children, j \in Kinds :
          IF d = c /\ j = "stop" THEN flight'[d][j].pc = "policy" /\ ~flight'[d][j].seen
          ELSE flight'[d][j] = flight[d][j]
    BY <1>6, LaunchFlight DEF ContinueStop
  <2>3. QED
    BY <2>1, <2>2
<1>7. ASSUME NEW c \in Children, Observe(c) PROVE Witness'
  <2>1. UNCHANGED <<landed, run>>
    BY <1>7 DEF Observe
  <2>2. \A d \in Children, j \in Kinds :
          IF d = c /\ j = "observe" THEN flight'[d][j].pc = "policy" /\ ~flight'[d][j].seen
          ELSE flight'[d][j] = flight[d][j]
    BY <1>7, LaunchFlight DEF Observe
  <2>3. QED
    BY <2>1, <2>2
<1>8. ASSUME NEW c \in Children, SetupDispatch(c) PROVE Witness'
  BY <1>8 DEF SetupDispatch, Issue, Goto
<1>9. ASSUME NEW c \in Children, CreateReply(c) PROVE Witness'
  BY <1>9 DEF CreateReply, Goto
<1>10. ASSUME NEW c \in Children, SetupReady(c) PROVE Witness'
  <2>1. UNCHANGED <<landed, run>>
    BY <1>10 DEF SetupReady
  <2>2. \A d \in Children, j \in Kinds :
          IF d = c /\ j = "setup" THEN flight'[d][j].pc = "idle" /\ ~flight'[d][j].seen
          ELSE flight'[d][j] = flight[d][j]
    BY <1>10, DoneFlight DEF SetupReady
  <2>3. QED
    BY <2>1, <2>2
<1>11. ASSUME NEW c \in Children, HistoryReply(c) PROVE Witness'
  BY <1>11 DEF HistoryReply
<1>12. ASSUME NEW c \in Children, SendDispatch(c) PROVE Witness'
  BY <1>12 DEF SendDispatch, Issue
<1>13. ASSUME NEW c \in Children, SendAck(c) PROVE Witness'
  <2>1. UNCHANGED <<landed, run>>
    BY <1>13 DEF SendAck
  <2>2. \A d \in Children, j \in Kinds :
          IF d = c /\ j = "send" THEN flight'[d][j].pc = "idle" /\ ~flight'[d][j].seen
          ELSE flight'[d][j] = flight[d][j]
    BY <1>13, DoneFlight DEF SendAck
  <2>3. QED
    BY <2>1, <2>2
<1>14. ASSUME NEW c \in Children, StopDispatch(c) PROVE Witness'
  BY <1>14 DEF StopDispatch, Issue, Goto
<1>15. ASSUME NEW c \in Children, ObserveSetup(c) PROVE Witness'
  <2>1. UNCHANGED <<landed, run>>
    BY <1>15 DEF ObserveSetup
  <2>2. \A d \in Children, j \in Kinds :
          IF d = c /\ j = "observe" THEN flight'[d][j].pc = "idle" /\ ~flight'[d][j].seen
          ELSE flight'[d][j] = flight[d][j]
    BY <1>15, DoneFlight DEF ObserveSetup
  <2>3. QED
    BY <2>1, <2>2
<1>16. ASSUME NEW c \in Children, ObserveSend(c) PROVE Witness'
  BY <1>16 DEF ObserveSend, Goto
<1>17. ASSUME NEW c \in Children, WaitReply(c) PROVE Witness'
  BY <1>17 DEF WaitReply
<1>18. ASSUME NEW c \in Children, ObserveVerdict(c) PROVE Witness'
  <2>1. UNCHANGED <<landed, run>>
    BY <1>18 DEF ObserveVerdict
  <2>2. \A d \in Children, j \in Kinds :
          IF d = c /\ j = "observe" THEN flight'[d][j].pc = "idle" /\ ~flight'[d][j].seen
          ELSE flight'[d][j] = flight[d][j]
    BY <1>18, DoneFlight DEF ObserveVerdict
  <2>3. QED
    BY <2>1, <2>2
<1>19. ASSUME NEW c \in Children, AbortedEvent(c) PROVE Witness'
  BY <1>19 DEF AbortedEvent, RetainVerdict
<1>20. ASSUME NEW c \in Children, FailSetup(c) PROVE Witness'
  <2>1. UNCHANGED <<landed, run>>
    BY <1>20 DEF FailSetup
  <2>2. \A d \in Children, j \in Kinds :
          IF d = c /\ j = "setup" THEN flight'[d][j].pc = "idle" /\ ~flight'[d][j].seen
          ELSE flight'[d][j] = flight[d][j]
    BY <1>20, DoneFlight DEF FailSetup
  <2>3. QED
    BY <2>1, <2>2
<1>21. ASSUME NEW c \in Children, FailSend(c) PROVE Witness'
  <2>1. UNCHANGED <<landed, run>>
    BY <1>21 DEF FailSend
  <2>2. \A d \in Children, j \in Kinds :
          IF d = c /\ j = "send" THEN flight'[d][j].pc = "idle" /\ ~flight'[d][j].seen
          ELSE flight'[d][j] = flight[d][j]
    BY <1>21, DoneFlight DEF FailSend
  <2>3. QED
    BY <2>1, <2>2
<1>22. ASSUME NEW c \in Children, EndStop(c) PROVE Witness'
  <2>1. UNCHANGED <<landed, run>>
    BY <1>22 DEF EndStop
  <2>2. \A d \in Children, j \in Kinds :
          IF d = c /\ j = "stop" THEN flight'[d][j].pc = "idle" /\ ~flight'[d][j].seen
          ELSE flight'[d][j] = flight[d][j]
    BY <1>22, DoneFlight DEF EndStop
  <2>3. QED
    BY <2>1, <2>2
<1>23. ASSUME NEW c \in Children, EndObserve(c) PROVE Witness'
  <2>1. UNCHANGED <<landed, run>>
    BY <1>23 DEF EndObserve
  <2>2. \A d \in Children, j \in Kinds :
          IF d = c /\ j = "observe" THEN flight'[d][j].pc = "idle" /\ ~flight'[d][j].seen
          ELSE flight'[d][j] = flight[d][j]
    BY <1>23, DoneFlight DEF EndObserve
  <2>3. QED
    BY <2>1, <2>2
<1>24. ASSUME NEW c \in Children, Finish(c) PROVE Witness'
  BY <1>24 DEF Finish
<1>25. ASSUME NEW c \in Children, NEW k \in Kinds, PolicyReply(c, k) PROVE Witness'
  BY <1>25 DEF PolicyReply
<1>26. ASSUME NEW c \in Children, NEW m \in Calls, Deliver(c, m) PROVE Witness'
  BY <1>26 DEF Deliver
<1>27. ASSUME NEW c \in Children, NEW m \in Calls, Drop(c, m) PROVE Witness'
  BY <1>27 DEF Drop
<1>28. CASE Close
  BY <1>28 DEF Close
<1>29. CASE Restart
  BY <1>29 DEF Restart, NoFlight
<1>30. CASE World
  BY <1>30 DEF World, Hold, Revoke, Connect, Reregister, Reselect, RestartRuntime
<1>31. CASE UNCHANGED vars
  BY <1>31 DEF vars
<1>32. QED
  <2> HIDE DEF TypeOK, Witness, Witnessed, Marked, AgentMarked, CreateMarked, Sent, Settled,
         durable, service, world, native, Kinds, Calls, Phase, Stop, Flight
  <2>1. QED
    BY <1>1, <1>2, <1>3, <1>4, <1>5, <1>6, <1>7, <1>8, <1>9, <1>10, <1>11, <1>12, <1>13, <1>14,
       <1>15, <1>16, <1>17, <1>18, <1>19, <1>20, <1>21, <1>22, <1>23, <1>24, <1>25, <1>26, <1>27,
       <1>28, <1>29, <1>30, <1>31 DEF Next, Command, Reply, End, Native

\* Every verdict that is written is what the runtime did, and stays so.
LEMMA TruthStep == TypeOK /\ Marked /\ Witness /\ TruthInv /\ [Next]_vars => TruthInv'
<1> SUFFICES ASSUME TypeOK /\ Marked /\ Witness /\ TruthInv, [Next]_vars PROVE TruthInv'
  OBVIOUS
<1> USE DEF TypeOK, TruthInv, Truth, Witness, Witnessed, Marked, AgentMarked, CreateMarked,
        Sent, Settled, durable, service, world, native, Kinds, Calls, Phase, Stop, Flight
<1>1. ASSUME NEW c \in Children, AdmitSetup(c) PROVE TruthInv'
  BY <1>1 DEF AdmitSetup, Preparing, Launch
<1>2. ASSUME NEW c \in Children, AdmitSend(c) PROVE TruthInv'
  BY <1>2 DEF AdmitSend, Preparing, Launch
<1>3. ASSUME NEW c \in Children, ContinueSetup(c) PROVE TruthInv'
  BY <1>3 DEF ContinueSetup, Preparing, Launch, Continuable
<1>4. ASSUME NEW c \in Children, ContinueSend(c) PROVE TruthInv'
  BY <1>4 DEF ContinueSend, Preparing, Launch, Continuable
<1>5. ASSUME NEW c \in Children, AdmitStop(c) PROVE TruthInv'
  BY <1>5 DEF AdmitStop, Launch, NoFlight
<1>6. ASSUME NEW c \in Children, ContinueStop(c) PROVE TruthInv'
  BY <1>6 DEF ContinueStop, Launch
<1>7. ASSUME NEW c \in Children, Observe(c) PROVE TruthInv'
  BY <1>7 DEF Observe, Launch
<1>8. ASSUME NEW c \in Children, SetupDispatch(c) PROVE TruthInv'
  BY <1>8 DEF SetupDispatch, Issue, Goto
<1>9. ASSUME NEW c \in Children, CreateReply(c) PROVE TruthInv'
  BY <1>9 DEF CreateReply, Goto
<1>10. ASSUME NEW c \in Children, SetupReady(c) PROVE TruthInv'
  <2> SUFFICES ASSUME NEW d \in Children PROVE Truth(d)'
    OBVIOUS
  <2>1. /\ UNCHANGED <<send, stop, landed, run>>
        /\ d # c => setup'[d] = setup[d] /\ bound'[d] = bound[d]
        /\ bound'[c] /\ flight[c]["setup"].seen
    <3> HIDE DEF TruthInv, Marked, Witness
    <3>1. QED
      BY <1>10 DEF SetupReady, RetainReady
  <2>2. landed[c]["create"] > 0
    BY <2>1
  <2>3. wire[c]["create"] + landed[c]["create"] <= 1
    OBVIOUS
  <2>4. landed[c]["create"] = 1
    BY <2>2, <2>3, CountOnce
  <2>5. QED
    BY <2>1, <2>4
<1>11. ASSUME NEW c \in Children, HistoryReply(c) PROVE TruthInv'
  BY <1>11 DEF HistoryReply
<1>12. ASSUME NEW c \in Children, SendDispatch(c) PROVE TruthInv'
  BY <1>12 DEF SendDispatch, Issue
<1>13. ASSUME NEW c \in Children, SendAck(c) PROVE TruthInv'
  <2> SUFFICES ASSUME NEW d \in Children PROVE Truth(d)'
    OBVIOUS
  <2>1. UNCHANGED <<setup, lease, stop, bound, landed, run>>
    BY <1>13 DEF SendAck
  <2>2. /\ send'[d].started = send[d].started /\ send'[d].proof = send[d].proof
        /\ send'[d].state # send[d].state =>
             Sent(d) /\ send'[d].state = "accepted" /\ landed[d]["agent"] > 0
    BY <1>13, AckMoves
  <2>3. landed[d]["agent"] > 0 => landed[d]["agent"] = 1
    BY CountOnce
  <2>9. QED
    BY <2>1, <2>2, <2>3
<1>14. ASSUME NEW c \in Children, StopDispatch(c) PROVE TruthInv'
  <2> SUFFICES ASSUME NEW d \in Children PROVE Truth(d)'
    OBVIOUS
  <2>1. UNCHANGED <<setup, send, bound, landed, run>>
    BY <1>14 DEF StopDispatch
  <2>2. stop'[d].state = stop[d].state
    BY <1>14, StopMoves
  <2>3. QED
    BY <2>1, <2>2
<1>15. ASSUME NEW c \in Children, ObserveSetup(c) PROVE TruthInv'
  <2> SUFFICES ASSUME NEW d \in Children PROVE Truth(d)'
    OBVIOUS
  <2>1. /\ UNCHANGED <<send, stop, landed, run>>
        /\ d # c => setup'[d] = setup[d] /\ bound'[d] = bound[d]
        /\ bound'[c] /\ flight[c]["observe"].seen
    BY <1>15 DEF ObserveSetup, RetainReady
  <2>2. landed[c]["create"] > 0
    BY <2>1
  <2>3. wire[c]["create"] + landed[c]["create"] <= 1
    OBVIOUS
  <2>4. landed[c]["create"] = 1
    BY <2>2, <2>3, CountOnce
  <2>5. QED
    BY <2>1, <2>4
<1>16. ASSUME NEW c \in Children, ObserveSend(c) PROVE TruthInv'
  BY <1>16 DEF ObserveSend, Goto
<1>17. ASSUME NEW c \in Children, WaitReply(c) PROVE TruthInv'
  BY <1>17 DEF WaitReply
<1>18. ASSUME NEW c \in Children, ObserveVerdict(c) PROVE TruthInv'
  BY <1>18 DEF ObserveVerdict, RetainVerdict, Done
<1>19. ASSUME NEW c \in Children, AbortedEvent(c) PROVE TruthInv'
  BY <1>19 DEF AbortedEvent, RetainVerdict
<1>20. ASSUME NEW c \in Children, FailSetup(c) PROVE TruthInv'
  <2> SUFFICES ASSUME NEW d \in Children PROVE Truth(d)'
    OBVIOUS
  <2>1. /\ UNCHANGED <<send, lease, stop, bound, landed, run, wire>>
        /\ \/ setup'[d] = setup[d]
           \/ /\ setup'[d] = PhaseFailure(setup[d])
              /\ setup[d].state \in {"preparing", "dispatching"}
    BY <1>20 DEF FailSetup, Fails
  <2>2. /\ setup'[d].started = setup[d].started /\ setup'[d].proof = setup[d].proof
        /\ setup'[d].state # setup[d].state =>
             /\ setup[d].state \in {"preparing", "dispatching"}
             /\ setup'[d].state = IF setup[d].started THEN "unknown" ELSE "failed"
    BY <2>1, FailurePhase
  <2>3. QED
    BY <2>1, <2>2
<1>21. ASSUME NEW c \in Children, FailSend(c) PROVE TruthInv'
  <2> SUFFICES ASSUME NEW d \in Children PROVE Truth(d)'
    OBVIOUS
  <2>1. /\ UNCHANGED <<setup, lease, stop, bound, landed, run, wire>>
        /\ \/ send'[d] = send[d]
           \/ /\ send'[d] = PhaseFailure(send[d])
              /\ send[d].state \in {"preparing", "dispatching"}
    BY <1>21 DEF FailSend, Fails
  <2>2. /\ send'[d].started = send[d].started /\ send'[d].proof = send[d].proof
        /\ send'[d].state # send[d].state =>
             /\ send[d].state \in {"preparing", "dispatching"}
             /\ send'[d].state = IF send[d].started THEN "unknown" ELSE "failed"
    BY <2>1, FailurePhase
  <2>3. QED
    BY <2>1, <2>2
<1>22. ASSUME NEW c \in Children, EndStop(c) PROVE TruthInv'
  <2> SUFFICES ASSUME NEW d \in Children PROVE Truth(d)'
    OBVIOUS
  <2>1. UNCHANGED <<setup, send, bound, landed, run>>
    BY <1>22 DEF EndStop
  <2>2. stop'[d].state = stop[d].state \/ stop'[d].state \in {"failed", "unconfirmed"}
    BY <1>22, EndStopMoves
  <2>3. QED
    BY <2>1, <2>2
<1>23. ASSUME NEW c \in Children, EndObserve(c) PROVE TruthInv'
  BY <1>23 DEF EndObserve, Done
<1>24. ASSUME NEW c \in Children, Finish(c) PROVE TruthInv'
  BY <1>24 DEF Finish
<1>25. ASSUME NEW c \in Children, NEW k \in Kinds, PolicyReply(c, k) PROVE TruthInv'
  BY <1>25 DEF PolicyReply
<1>26. ASSUME NEW c \in Children, NEW m \in Calls, Deliver(c, m) PROVE TruthInv'
  BY <1>26 DEF Deliver
<1>27. ASSUME NEW c \in Children, NEW m \in Calls, Drop(c, m) PROVE TruthInv'
  BY <1>27 DEF Drop
<1>28. CASE Close
  BY <1>28 DEF Close
<1>29. CASE Restart
  BY <1>29 DEF Restart, NoFlight
<1>30. CASE World
  BY <1>30 DEF World, Hold, Revoke, Connect, Reregister, Reselect, RestartRuntime
<1>31. CASE UNCHANGED vars
  BY <1>31 DEF vars
<1>32. QED
  <2> HIDE DEF TypeOK, TruthInv, Truth, Witness, Witnessed, Marked, AgentMarked, CreateMarked,
         Sent, Settled, durable, service, world, native, Kinds, Calls, Phase, Stop, Flight
  <2>1. QED
    BY <1>1, <1>2, <1>3, <1>4, <1>5, <1>6, <1>7, <1>8, <1>9, <1>10, <1>11, <1>12, <1>13, <1>14,
       <1>15, <1>16, <1>17, <1>18, <1>19, <1>20, <1>21, <1>22, <1>23, <1>24, <1>25, <1>26, <1>27,
       <1>28, <1>29, <1>30, <1>31 DEF Next, Command, Reply, End, Native

\* A phase that may be asked again is left without a flight.
LEMMA OverlapStep == TypeOK /\ NoOverlap /\ [Next]_vars => NoOverlap'
<1> SUFFICES ASSUME TypeOK /\ NoOverlap, [Next]_vars PROVE NoOverlap'
  OBVIOUS
<1> USE DEF TypeOK, NoOverlap, Sent, durable, service, world, native, Kinds, Calls, Phase,
        Stop, Flight
<1>1. ASSUME NEW c \in Children, AdmitSetup(c) PROVE NoOverlap'
  BY <1>1 DEF AdmitSetup, Preparing, Launch
<1>2. ASSUME NEW c \in Children, AdmitSend(c) PROVE NoOverlap'
  BY <1>2 DEF AdmitSend, Preparing, Launch
<1>3. ASSUME NEW c \in Children, ContinueSetup(c) PROVE NoOverlap'
  BY <1>3 DEF ContinueSetup, Preparing, Launch, Continuable
<1>4. ASSUME NEW c \in Children, ContinueSend(c) PROVE NoOverlap'
  BY <1>4 DEF ContinueSend, Preparing, Launch, Continuable
<1>5. ASSUME NEW c \in Children, AdmitStop(c) PROVE NoOverlap'
  BY <1>5 DEF AdmitStop, Launch, NoFlight
<1>6. ASSUME NEW c \in Children, ContinueStop(c) PROVE NoOverlap'
  BY <1>6 DEF ContinueStop, Launch
<1>7. ASSUME NEW c \in Children, Observe(c) PROVE NoOverlap'
  BY <1>7 DEF Observe, Launch
<1>8. ASSUME NEW c \in Children, SetupDispatch(c) PROVE NoOverlap'
  BY <1>8 DEF SetupDispatch, Issue, Goto
<1>9. ASSUME NEW c \in Children, CreateReply(c) PROVE NoOverlap'
  BY <1>9 DEF CreateReply, Goto
<1>10. ASSUME NEW c \in Children, SetupReady(c) PROVE NoOverlap'
  BY <1>10 DEF SetupReady, RetainReady, Done
<1>11. ASSUME NEW c \in Children, HistoryReply(c) PROVE NoOverlap'
  BY <1>11 DEF HistoryReply
<1>12. ASSUME NEW c \in Children, SendDispatch(c) PROVE NoOverlap'
  BY <1>12 DEF SendDispatch, Issue
<1>13. ASSUME NEW c \in Children, SendAck(c) PROVE NoOverlap'
  BY <1>13 DEF SendAck, Done
<1>14. ASSUME NEW c \in Children, StopDispatch(c) PROVE NoOverlap'
  BY <1>14 DEF StopDispatch, Issue, Goto
<1>15. ASSUME NEW c \in Children, ObserveSetup(c) PROVE NoOverlap'
  BY <1>15 DEF ObserveSetup, RetainReady, Done
<1>16. ASSUME NEW c \in Children, ObserveSend(c) PROVE NoOverlap'
  BY <1>16 DEF ObserveSend, Goto
<1>17. ASSUME NEW c \in Children, WaitReply(c) PROVE NoOverlap'
  BY <1>17 DEF WaitReply
<1>18. ASSUME NEW c \in Children, ObserveVerdict(c) PROVE NoOverlap'
  <2>1. UNCHANGED setup
    BY <1>18 DEF ObserveVerdict
  <2>2. PICK v \in {"completed", "failed"}, p \in Proof \cup {NoProof} : RetainVerdict(c, p, v)
    BY <1>18, ObservedType DEF ObserveVerdict
  <2>3. \A d \in Children : /\ \/ send'[d] = send[d]
                              \/ (send'[d].started /\ send'[d].state # "none")
                           /\ stop'[d].state \in {stop[d].state, "confirmed"}
    <3>1. v \in PhaseStates /\ v # "none"
      BY DEF PhaseStates
    <3>2. QED
      BY <2>2, <3>1, VerdictMoves
  <2>4. \A d \in Children, k \in {"setup", "send", "stop"} : flight'[d][k] = flight[d][k]
    BY <1>18, DoneFlight DEF ObserveVerdict
  <2>5. QED
    BY <2>1, <2>3, <2>4
<1>19. ASSUME NEW c \in Children, AbortedEvent(c) PROVE NoOverlap'
  <2>1. UNCHANGED setup
    BY <1>19 DEF AbortedEvent
  <2>2. PICK v \in {"cancelled"}, p \in Proof \cup {NoProof} : RetainVerdict(c, p, v)
    BY <1>19 DEF AbortedEvent
  <2>3. \A d \in Children : /\ \/ send'[d] = send[d]
                              \/ (send'[d].started /\ send'[d].state # "none")
                           /\ stop'[d].state \in {stop[d].state, "confirmed"}
    <3>1. v \in PhaseStates /\ v # "none"
      BY DEF PhaseStates
    <3>2. QED
      BY <2>2, <3>1, VerdictMoves
  <2>4. \A d \in Children, k \in {"setup", "send", "stop"} : flight'[d][k] = flight[d][k]
    BY <1>19 DEF AbortedEvent
  <2>5. QED
    BY <2>1, <2>3, <2>4
<1>20. ASSUME NEW c \in Children, FailSetup(c) PROVE NoOverlap'
  <2>1. UNCHANGED <<send, stop>>
    BY <1>20 DEF FailSetup
  <2>2. \A d \in Children : d # c => setup'[d] = setup[d]
    BY <1>20 DEF FailSetup
  <2>3. \A d \in Children, k \in Kinds :
          IF d = c /\ k = "setup" THEN flight'[d][k].pc = "idle"
          ELSE flight'[d][k] = flight[d][k]
    BY <1>20, DoneFlight DEF FailSetup
  <2>4. \A d \in Children : setup'[d].state \in {"none", "failed"} => flight'[d]["setup"].pc = "idle"
    BY <2>2, <2>3
  <2>5. \A d \in Children, k \in {"send", "stop"} : flight'[d][k] = flight[d][k]
    BY <2>3
  <2>6. QED
    BY <2>1, <2>4, <2>5
<1>21. ASSUME NEW c \in Children, FailSend(c) PROVE NoOverlap'
  <2>1. UNCHANGED <<setup, stop>>
    BY <1>21 DEF FailSend
  <2>2. \A d \in Children : d # c => send'[d] = send[d]
    BY <1>21 DEF FailSend
  <2>3. \A d \in Children, k \in Kinds :
          IF d = c /\ k = "send" THEN flight'[d][k].pc = "idle"
          ELSE flight'[d][k] = flight[d][k]
    BY <1>21, DoneFlight DEF FailSend
  <2>4. \A d \in Children : send'[d].state = "none" \/ (send'[d].state = "failed" /\ ~send'[d].started)
                             => flight'[d]["send"].pc = "idle"
    BY <2>2, <2>3
  <2>5. \A d \in Children, k \in {"setup", "stop"} : flight'[d][k] = flight[d][k]
    BY <2>3
  <2>6. QED
    BY <2>1, <2>4, <2>5
<1>22. ASSUME NEW c \in Children, EndStop(c) PROVE NoOverlap'
  BY <1>22 DEF EndStop, Done, NoFlight
<1>23. ASSUME NEW c \in Children, EndObserve(c) PROVE NoOverlap'
  BY <1>23 DEF EndObserve, Done
<1>24. ASSUME NEW c \in Children, Finish(c) PROVE NoOverlap'
  BY <1>24 DEF Finish
<1>25. ASSUME NEW c \in Children, NEW k \in Kinds, PolicyReply(c, k) PROVE NoOverlap'
  BY <1>25 DEF PolicyReply
<1>26. ASSUME NEW c \in Children, NEW m \in Calls, Deliver(c, m) PROVE NoOverlap'
  BY <1>26 DEF Deliver
<1>27. ASSUME NEW c \in Children, NEW m \in Calls, Drop(c, m) PROVE NoOverlap'
  BY <1>27 DEF Drop
<1>28. CASE Close
  BY <1>28 DEF Close
<1>29. CASE Restart
  BY <1>29 DEF Restart, NoFlight
<1>30. CASE World
  BY <1>30 DEF World, Hold, Revoke, Connect, Reregister, Reselect, RestartRuntime
<1>31. CASE UNCHANGED vars
  BY <1>31 DEF vars
<1>32. QED
  <2> HIDE DEF TypeOK, NoOverlap, Sent, durable, service, world, native, Kinds, Calls, Phase,
         Stop, Flight
  <2>1. QED
    BY <1>1, <1>2, <1>3, <1>4, <1>5, <1>6, <1>7, <1>8, <1>9, <1>10, <1>11, <1>12, <1>13, <1>14,
       <1>15, <1>16, <1>17, <1>18, <1>19, <1>20, <1>21, <1>22, <1>23, <1>24, <1>25, <1>26, <1>27,
       <1>28, <1>29, <1>30, <1>31 DEF Next, Command, Reply, End, Native

\* The inductive invariant holds initially.
LEMMA SafeInit == Init => SafeInv
<1> SUFFICES ASSUME Init PROVE SafeInv
  OBVIOUS
<1>1. TypeOK
  BY TypeInit
<1>2. Marked /\ NoOverlap
  BY ConstantsAssumption DEF Init, Marked, CreateMarked, AgentMarked, AbortMarked, NoOverlap,
     NoPhase, NoStop, NoFlight, Calls, Kinds
<1>3. LineageInv /\ Witness /\ TruthInv
  BY ConstantsAssumption DEF Init, LineageInv, Lineage, Witness, Witnessed, TruthInv, Truth,
     NoPhase, NoStop, NoFlight, Calls, Kinds
<1>4. QED
  BY <1>1, <1>2, <1>3 DEF SafeInv

\* The inductive invariant holds in every reachable state.
THEOREM SafeInvHolds == Spec => []SafeInv
<1>1. SafeInv /\ [Next]_vars => SafeInv'
  BY TypeStep, MarkStep, LineageStep, WitnessStep, TruthStep, OverlapStep DEF SafeInv
<1>2. QED
  BY <1>1, SafeInit, PTL DEF Spec

\* sessions.create, agent and sessions.abort are called at most once for a
\* child, whatever fails, is continued or restarts.
THEOREM AtMostOneCallHolds == Spec => []AtMostOneCall
<1>1. SafeInv => AtMostOneCall
  BY DEF SafeInv, AtMostOneCall, Marked, CreateMarked, AgentMarked, AbortMarked, Calls
<1>2. QED
  BY <1>1, SafeInvHolds, PTL

\* A phase the owner may continue as unsent has never reached the runtime.
THEOREM UnsentIsTrueHolds == Spec => []UnsentIsTrue
<1>1. ASSUME SafeInv, NEW c \in Children, NEW m \in Calls, wire[c][m] + landed[c][m] = 0
      PROVE  wire[c][m] = 0 /\ landed[c][m] = 0
  <2>1. wire[c][m] \in Nat /\ landed[c][m] \in Nat
    BY <1>1 DEF SafeInv, TypeOK
  <2>2. QED
    BY <1>1, <2>1
<1>2. SafeInv => UnsentIsTrue
  BY <1>1 DEF SafeInv, UnsentIsTrue, Marked, CreateMarked, AgentMarked, AbortMarked, Calls
<1>3. QED
  BY <1>2, SafeInvHolds, PTL

\* What the records say of a session, a turn and a stop is what natively
\* happened, in whatever order replies, observations and events arrived.
THEOREM VerdictIsTrueHolds == Spec => []VerdictIsTrue
<1>1. SafeInv => VerdictIsTrue
  BY DEF SafeInv, TruthInv, Truth, VerdictIsTrue
<1>2. QED
  BY <1>1, SafeInvHolds, PTL

\* Setup, send and the event lease of a child share one runtime proof.
THEOREM OneLineageHolds == Spec => []OneLineage
<1>1. SafeInv => OneLineage
  BY DEF SafeInv, LineageInv, Lineage, OneLineage
<1>2. QED
  BY <1>1, SafeInvHolds, PTL

\* No flight of an earlier attempt is left when a phase may be asked again.
THEOREM NoOverlapHolds == Spec => []NoOverlap
<1>1. QED
  BY SafeInvHolds, PTL DEF SafeInv

-----------------------------------------------------------------------------
(* Single steps.                                                           *)

\* Every writing or calling step re-reads the hold and the close.
LEMMA QuietStep == TypeOK /\ [Next]_vars => Quiet
<1> SUFFICES ASSUME TypeOK, [Next]_vars PROVE Quiet
  OBVIOUS
<1> USE DEF TypeOK, durable, service, world, native, Calls, Quiet, Issued, Authority
<1>1. ASSUME NEW c \in Children, AdmitSetup(c) PROVE Quiet
  BY <1>1 DEF AdmitSetup
<1>2. ASSUME NEW c \in Children, AdmitSend(c) PROVE Quiet
  BY <1>2 DEF AdmitSend
<1>3. ASSUME NEW c \in Children, ContinueSetup(c) PROVE Quiet
  BY <1>3 DEF ContinueSetup
<1>4. ASSUME NEW c \in Children, ContinueSend(c) PROVE Quiet
  BY <1>4 DEF ContinueSend
<1>5. ASSUME NEW c \in Children, AdmitStop(c) PROVE Quiet
  BY <1>5 DEF AdmitStop
<1>6. ASSUME NEW c \in Children, ContinueStop(c) PROVE Quiet
  BY <1>6 DEF ContinueStop
<1>7. ASSUME NEW c \in Children, Observe(c) PROVE Quiet
  BY <1>7 DEF Observe
<1>8. ASSUME NEW c \in Children, SetupDispatch(c) PROVE Quiet
  BY <1>8 DEF SetupDispatch, Issue, Confirmed, Current
<1>9. ASSUME NEW c \in Children, CreateReply(c) PROVE Quiet
  BY <1>9 DEF CreateReply
<1>10. ASSUME NEW c \in Children, SetupReady(c) PROVE Quiet
  BY <1>10 DEF SetupReady, Confirmed, Current
<1>11. ASSUME NEW c \in Children, HistoryReply(c) PROVE Quiet
  BY <1>11 DEF HistoryReply
<1>12. ASSUME NEW c \in Children, SendDispatch(c) PROVE Quiet
  BY <1>12 DEF SendDispatch, Issue, Confirmed, Current
<1>13. ASSUME NEW c \in Children, SendAck(c) PROVE Quiet
  BY <1>13 DEF SendAck, Current
<1>14. ASSUME NEW c \in Children, StopDispatch(c) PROVE Quiet
  BY <1>14 DEF StopDispatch, Issue, Confirmed, Current
<1>15. ASSUME NEW c \in Children, ObserveSetup(c) PROVE Quiet
  BY <1>15 DEF ObserveSetup, Confirmed, Current
<1>16. ASSUME NEW c \in Children, ObserveSend(c) PROVE Quiet
  BY <1>16 DEF ObserveSend
<1>17. ASSUME NEW c \in Children, WaitReply(c) PROVE Quiet
  BY <1>17 DEF WaitReply
<1>18. ASSUME NEW c \in Children, ObserveVerdict(c) PROVE Quiet
  BY <1>18 DEF ObserveVerdict, Confirmed, Current
<1>19. ASSUME NEW c \in Children, AbortedEvent(c) PROVE Quiet
  BY <1>19 DEF AbortedEvent, Current
<1>20. ASSUME NEW c \in Children, FailSetup(c) PROVE Quiet
  BY <1>20 DEF FailSetup, Fails
<1>21. ASSUME NEW c \in Children, FailSend(c) PROVE Quiet
  BY <1>21 DEF FailSend, Fails
<1>22. ASSUME NEW c \in Children, EndStop(c) PROVE Quiet
  BY <1>22 DEF EndStop
<1>23. ASSUME NEW c \in Children, EndObserve(c) PROVE Quiet
  BY <1>23 DEF EndObserve
<1>24. ASSUME NEW c \in Children, Finish(c) PROVE Quiet
  BY <1>24 DEF Finish
<1>25. ASSUME NEW c \in Children, NEW k \in Kinds, PolicyReply(c, k) PROVE Quiet
  BY <1>25 DEF PolicyReply
<1>26. ASSUME NEW c \in Children, NEW m \in Calls, Deliver(c, m) PROVE Quiet
  BY <1>26 DEF Deliver
<1>27. ASSUME NEW c \in Children, NEW m \in Calls, Drop(c, m) PROVE Quiet
  BY <1>27 DEF Drop
<1>28. CASE Close
  BY <1>28 DEF Close
<1>29. CASE Restart
  BY <1>29 DEF Restart
<1>30. CASE World
  BY <1>30 DEF World, Hold, Revoke, Connect, Reregister, Reselect, RestartRuntime
<1>31. CASE UNCHANGED vars
  BY <1>31 DEF vars
<1>32. QED
  BY <1>1, <1>2, <1>3, <1>4, <1>5, <1>6, <1>7, <1>8, <1>9, <1>10, <1>11, <1>12, <1>13, <1>14,
     <1>15, <1>16, <1>17, <1>18, <1>19, <1>20, <1>21, <1>22, <1>23, <1>24, <1>25, <1>26, <1>27,
     <1>28, <1>29, <1>30, <1>31 DEF Next, Command, Reply, End, Native

\* The only step that sends a turn re-reads everything it depends on.
LEMMA AuthorisedStep == SafeInv /\ [Next]_vars => Authorised
<1> SUFFICES ASSUME SafeInv, [Next]_vars PROVE Authorised
  OBVIOUS
<1> USE DEF TypeOK, durable, service, world, native, Calls, SafeInv, Authorised, Issued, Authority
<1>1. ASSUME NEW c \in Children, AdmitSetup(c) PROVE Authorised
  BY <1>1 DEF AdmitSetup
<1>2. ASSUME NEW c \in Children, AdmitSend(c) PROVE Authorised
  BY <1>2 DEF AdmitSend
<1>3. ASSUME NEW c \in Children, ContinueSetup(c) PROVE Authorised
  BY <1>3 DEF ContinueSetup
<1>4. ASSUME NEW c \in Children, ContinueSend(c) PROVE Authorised
  BY <1>4 DEF ContinueSend
<1>5. ASSUME NEW c \in Children, AdmitStop(c) PROVE Authorised
  BY <1>5 DEF AdmitStop
<1>6. ASSUME NEW c \in Children, ContinueStop(c) PROVE Authorised
  BY <1>6 DEF ContinueStop
<1>7. ASSUME NEW c \in Children, Observe(c) PROVE Authorised
  BY <1>7 DEF Observe
<1>8. ASSUME NEW c \in Children, SetupDispatch(c) PROVE Authorised
  BY <1>8 DEF SetupDispatch, Issue, Confirmed, Current
<1>9. ASSUME NEW c \in Children, CreateReply(c) PROVE Authorised
  BY <1>9 DEF CreateReply
<1>10. ASSUME NEW c \in Children, SetupReady(c) PROVE Authorised
  BY <1>10 DEF SetupReady, Confirmed, Current
<1>11. ASSUME NEW c \in Children, HistoryReply(c) PROVE Authorised
  BY <1>11 DEF HistoryReply
<1>12. ASSUME NEW c \in Children, SendDispatch(c) PROVE Authorised
  <2>1. /\ available /\ up /\ stop[c].state = "none"
        /\ send[c].state = "preparing" /\ ~send[c].started
        /\ setup[c].proof = Observed(c, "send") /\ flight[c]["send"].life = life
    BY <1>12 DEF SendDispatch, Confirmed, Current, Observed
  <2>2. setup[c].state = "ready"
    BY <2>1 DEF LineageInv, Lineage
  <2>3. run[c] = "none"
    <3>1. landed[c]["agent"] \in Nat /\ wire[c]["agent"] \in Nat
      OBVIOUS
    <3>2. wire[c]["agent"] + landed[c]["agent"] = 0
      BY <2>1 DEF Marked, AgentMarked
    <3>3. run[c] # "none" => landed[c]["agent"] > 0
      BY DEF Witness, Witnessed
    <3>4. QED
      BY <3>1, <3>2, <3>3
  <2>4. setup[c].proof.life = life /\ setup[c].proof.acct = acct
    BY <2>1 DEF Observed
  <2>5. ASSUME NEW d \in Children, Issued(d, "agent") PROVE d = c
    <3>1. wire[d]["agent"] \in Nat
      OBVIOUS
    <3>2. d # c => wire'[d]["agent"] = wire[d]["agent"]
      BY <1>12 DEF SendDispatch, Issue
    <3>3. QED
      BY <2>5, <3>1, <3>2
  <2>6. QED
    BY <2>1, <2>2, <2>3, <2>4, <2>5
<1>13. ASSUME NEW c \in Children, SendAck(c) PROVE Authorised
  BY <1>13 DEF SendAck, Current
<1>14. ASSUME NEW c \in Children, StopDispatch(c) PROVE Authorised
  BY <1>14 DEF StopDispatch, Issue, Confirmed, Current
<1>15. ASSUME NEW c \in Children, ObserveSetup(c) PROVE Authorised
  BY <1>15 DEF ObserveSetup, Confirmed, Current
<1>16. ASSUME NEW c \in Children, ObserveSend(c) PROVE Authorised
  BY <1>16 DEF ObserveSend
<1>17. ASSUME NEW c \in Children, WaitReply(c) PROVE Authorised
  BY <1>17 DEF WaitReply
<1>18. ASSUME NEW c \in Children, ObserveVerdict(c) PROVE Authorised
  BY <1>18 DEF ObserveVerdict, Confirmed, Current
<1>19. ASSUME NEW c \in Children, AbortedEvent(c) PROVE Authorised
  BY <1>19 DEF AbortedEvent, Current
<1>20. ASSUME NEW c \in Children, FailSetup(c) PROVE Authorised
  BY <1>20 DEF FailSetup, Fails
<1>21. ASSUME NEW c \in Children, FailSend(c) PROVE Authorised
  BY <1>21 DEF FailSend, Fails
<1>22. ASSUME NEW c \in Children, EndStop(c) PROVE Authorised
  BY <1>22 DEF EndStop
<1>23. ASSUME NEW c \in Children, EndObserve(c) PROVE Authorised
  BY <1>23 DEF EndObserve
<1>24. ASSUME NEW c \in Children, Finish(c) PROVE Authorised
  BY <1>24 DEF Finish
<1>25. ASSUME NEW c \in Children, NEW k \in Kinds, PolicyReply(c, k) PROVE Authorised
  BY <1>25 DEF PolicyReply
<1>26. ASSUME NEW c \in Children, NEW m \in Calls, Deliver(c, m) PROVE Authorised
  BY <1>26 DEF Deliver
<1>27. ASSUME NEW c \in Children, NEW m \in Calls, Drop(c, m) PROVE Authorised
  BY <1>27 DEF Drop
<1>28. CASE Close
  BY <1>28 DEF Close
<1>29. CASE Restart
  BY <1>29 DEF Restart
<1>30. CASE World
  BY <1>30 DEF World, Hold, Revoke, Connect, Reregister, Reselect, RestartRuntime
<1>31. CASE UNCHANGED vars
  BY <1>31 DEF vars
<1>32. QED
  BY <1>1, <1>2, <1>3, <1>4, <1>5, <1>6, <1>7, <1>8, <1>9, <1>10, <1>11, <1>12, <1>13, <1>14,
     <1>15, <1>16, <1>17, <1>18, <1>19, <1>20, <1>21, <1>22, <1>23, <1>24, <1>25, <1>26, <1>27,
     <1>28, <1>29, <1>30, <1>31 DEF Next, Command, Reply, End, Native

\* No step takes back a verdict, a marker, a proof or a session.
LEMMA KeptStep == SafeInv /\ [Next]_vars => Kept
<1> SUFFICES ASSUME SafeInv, [Next]_vars PROVE Kept
  OBVIOUS
<1> USE DEF TypeOK, durable, service, world, native, Calls, SafeInv, Kept, Terminal, Sent,
        Settled, Phase, Stop, Written, Marked, CreateMarked, AgentMarked, AbortMarked
<1>1. ASSUME NEW c \in Children, AdmitSetup(c) PROVE Kept
  BY <1>1 DEF AdmitSetup, Preparing, Launch
<1>2. ASSUME NEW c \in Children, AdmitSend(c) PROVE Kept
  BY <1>2 DEF AdmitSend, Preparing, Launch
<1>3. ASSUME NEW c \in Children, ContinueSetup(c) PROVE Kept
  BY <1>3 DEF ContinueSetup, Preparing, Launch, Continuable
<1>4. ASSUME NEW c \in Children, ContinueSend(c) PROVE Kept
  BY <1>4 DEF ContinueSend, Preparing, Launch, Continuable
<1>5. ASSUME NEW c \in Children, AdmitStop(c) PROVE Kept
  BY <1>5 DEF AdmitStop, Launch, NoFlight
<1>6. ASSUME NEW c \in Children, ContinueStop(c) PROVE Kept
  BY <1>6 DEF ContinueStop, Launch
<1>7. ASSUME NEW c \in Children, Observe(c) PROVE Kept
  BY <1>7 DEF Observe, Launch
<1>8. ASSUME NEW c \in Children, SetupDispatch(c) PROVE Kept
  BY <1>8 DEF SetupDispatch, Issue, Goto
<1>9. ASSUME NEW c \in Children, CreateReply(c) PROVE Kept
  BY <1>9 DEF CreateReply, Goto
<1>10. ASSUME NEW c \in Children, SetupReady(c) PROVE Kept
  BY <1>10 DEF SetupReady, RetainReady, Done
<1>11. ASSUME NEW c \in Children, HistoryReply(c) PROVE Kept
  BY <1>11 DEF HistoryReply
<1>12. ASSUME NEW c \in Children, SendDispatch(c) PROVE Kept
  BY <1>12 DEF SendDispatch, Issue
<1>13. ASSUME NEW c \in Children, SendAck(c) PROVE Kept
  <2> SUFFICES ASSUME NEW d \in Children
               PROVE  /\ Terminal(d) => send'[d] = send[d]
                      /\ setup[d].started => setup'[d].started /\ setup'[d].proof = setup[d].proof
                      /\ send[d].started => send'[d].started /\ send'[d].proof = send[d].proof
                      /\ stop[d].started => stop'[d].started
                      /\ bound[d] => bound'[d]
                      /\ revision'[d] \in {revision[d], revision[d] + 1}
    OBVIOUS
  <2>1. revision'[d] \in {revision[d], revision[d] + 1}
    BY <1>13 DEF SendAck
  <2>2. UNCHANGED <<setup, stop, bound>>
    BY <1>13 DEF SendAck
  <2>3. QED
    BY <1>13, <2>1, <2>2, AckMoves DEF Terminal, Sent
<1>14. ASSUME NEW c \in Children, StopDispatch(c) PROVE Kept
  BY <1>14 DEF StopDispatch, Issue, Goto
<1>15. ASSUME NEW c \in Children, ObserveSetup(c) PROVE Kept
  BY <1>15 DEF ObserveSetup, RetainReady, Done
<1>16. ASSUME NEW c \in Children, ObserveSend(c) PROVE Kept
  BY <1>16 DEF ObserveSend, Goto
<1>17. ASSUME NEW c \in Children, WaitReply(c) PROVE Kept
  BY <1>17 DEF WaitReply
<1>18. ASSUME NEW c \in Children, ObserveVerdict(c) PROVE Kept
  BY <1>18 DEF ObserveVerdict, RetainVerdict, Done
<1>19. ASSUME NEW c \in Children, AbortedEvent(c) PROVE Kept
  BY <1>19 DEF AbortedEvent, RetainVerdict
<1>20. ASSUME NEW c \in Children, FailSetup(c) PROVE Kept
  <2> SUFFICES ASSUME NEW d \in Children
               PROVE  /\ Terminal(d) => send'[d] = send[d]
                      /\ setup[d].started => setup'[d].started /\ setup'[d].proof = setup[d].proof
                      /\ send[d].started => send'[d].started /\ send'[d].proof = send[d].proof
                      /\ stop[d].started => stop'[d].started
                      /\ bound[d] => bound'[d]
                      /\ revision'[d] \in {revision[d], revision[d] + 1}
    OBVIOUS
  <2>1. revision'[d] \in {revision[d], revision[d] + 1}
    BY <1>20 DEF FailSetup
  <2>2. UNCHANGED <<stop, bound>>
    BY <1>20 DEF FailSetup
  <2>3. QED
    BY <1>20, <2>1, <2>2, FailMoves DEF Terminal, Sent
<1>21. ASSUME NEW c \in Children, FailSend(c) PROVE Kept
  <2> SUFFICES ASSUME NEW d \in Children
               PROVE  /\ Terminal(d) => send'[d] = send[d]
                      /\ setup[d].started => setup'[d].started /\ setup'[d].proof = setup[d].proof
                      /\ send[d].started => send'[d].started /\ send'[d].proof = send[d].proof
                      /\ stop[d].started => stop'[d].started
                      /\ bound[d] => bound'[d]
                      /\ revision'[d] \in {revision[d], revision[d] + 1}
    OBVIOUS
  <2>1. revision'[d] \in {revision[d], revision[d] + 1}
    BY <1>21 DEF FailSend
  <2>2. UNCHANGED <<stop, bound>>
    BY <1>21 DEF FailSend
  <2>3. QED
    BY <1>21, <2>1, <2>2, FailMoves DEF Terminal, Sent
<1>22. ASSUME NEW c \in Children, EndStop(c) PROVE Kept
  <2> SUFFICES ASSUME NEW d \in Children
               PROVE  /\ Terminal(d) => send'[d] = send[d]
                      /\ setup[d].started => setup'[d].started /\ setup'[d].proof = setup[d].proof
                      /\ send[d].started => send'[d].started /\ send'[d].proof = send[d].proof
                      /\ stop[d].started => stop'[d].started
                      /\ bound[d] => bound'[d]
                      /\ revision'[d] \in {revision[d], revision[d] + 1}
    OBVIOUS
  <2>1. revision'[d] \in {revision[d], revision[d] + 1}
    BY <1>22 DEF EndStop
  <2>2. UNCHANGED <<setup, send, bound>>
    BY <1>22 DEF EndStop
  <2>3. QED
    BY <1>22, <2>1, <2>2, EndStopMoves DEF Terminal, Sent
<1>23. ASSUME NEW c \in Children, EndObserve(c) PROVE Kept
  BY <1>23 DEF EndObserve, Done
<1>24. ASSUME NEW c \in Children, Finish(c) PROVE Kept
  BY <1>24 DEF Finish
<1>25. ASSUME NEW c \in Children, NEW k \in Kinds, PolicyReply(c, k) PROVE Kept
  BY <1>25 DEF PolicyReply
<1>26. ASSUME NEW c \in Children, NEW m \in Calls, Deliver(c, m) PROVE Kept
  BY <1>26 DEF Deliver
<1>27. ASSUME NEW c \in Children, NEW m \in Calls, Drop(c, m) PROVE Kept
  BY <1>27 DEF Drop
<1>28. CASE Close
  BY <1>28 DEF Close
<1>29. CASE Restart
  BY <1>29 DEF Restart
<1>30. CASE World
  BY <1>30 DEF World, Hold, Revoke, Connect, Reregister, Reselect, RestartRuntime
<1>31. CASE UNCHANGED vars
  BY <1>31 DEF vars
<1>32. QED
  BY <1>1, <1>2, <1>3, <1>4, <1>5, <1>6, <1>7, <1>8, <1>9, <1>10, <1>11, <1>12, <1>13, <1>14,
     <1>15, <1>16, <1>17, <1>18, <1>19, <1>20, <1>21, <1>22, <1>23, <1>24, <1>25, <1>26, <1>27,
     <1>28, <1>29, <1>30, <1>31 DEF Next, Command, Reply, End, Native

\* Nothing is written and nothing is called under a hold, a recovery pause or
\* after close, whichever flight or event resumes then.
THEOREM NothingWhilePausedHolds == Spec => NothingWhilePaused
<1>1. QED
  BY QuietStep, TypeCorrect, PTL DEF Spec, NothingWhilePaused

\* The turn of a child is sent only under the authority, runtime and account
\* that are current at that moment and were those of its session.
THEOREM SendUnderAuthorityHolds == Spec => SendUnderAuthority
<1>1. QED
  BY AuthorisedStep, SafeInvHolds, PTL DEF Spec, SendUnderAuthority

\* Verdicts are final; markers, proofs and bound sessions are never taken back.
THEOREM NothingUnsaidHolds == Spec => NothingUnsaid
<1>1. QED
  BY KeptStep, SafeInvHolds, PTL DEF Spec, NothingUnsaid

-----------------------------------------------------------------------------
(* Each native call implements DurableEffect.                              *)

\* What the state of a record tells of its marker, and of a live stop.
Told(c) ==
  /\ setup[c].state \in {"none", "preparing", "dispatching", "unknown", "ready", "failed"}
  /\ setup[c].started <=> setup[c].state \in {"dispatching", "unknown", "ready"}
  /\ send[c].state # "ready"
  /\ send[c].state \in {"none", "preparing"} => ~send[c].started
  /\ send[c].state \in {"dispatching", "unknown", "accepted", "completed", "cancelled"}
       => send[c].started
  /\ flight[c]["stop"].pc # "idle" => stop[c].state \in {"requested", "confirmed"}
  /\ stop[c].state = "confirmed" => send[c].state = "cancelled"

ToldInv == \A c \in Children : Told(c)

\* The stop flight of d waits where it waited, as far as a claim depends on it.
SameStop(d) ==
  /\ stop'[d] = stop[d]
  /\ flight'[d]["stop"].pc = "idle" <=> flight[d]["stop"].pc = "idle"
  /\ flight'[d]["stop"].pc \in {"policy", "account"} <=> flight[d]["stop"].pc \in {"policy", "account"}

\* What a step makes of the setup of c, with the calls it makes.
SetupWork(c) ==
  LET p == setup[c]
      q == setup'[c] IN
  /\ \A d \in Children : d # c => setup'[d] = setup[d]
  /\ \A d \in Children : send'[d] = send[d] /\ SameStop(d)
  /\ landed' = landed
  /\ \/ q = p /\ wire' = wire
     \/ p.state \in {"none", "failed"} /\ q.state = "preparing" /\ ~q.started /\ wire' = wire
     \/ /\ p.state = "preparing" /\ ~p.started /\ q.state = "dispatching" /\ q.started
        /\ Issue(c, "create")
     \/ /\ p.state \in {"dispatching", "unknown"} /\ p.started /\ q.state = "ready" /\ q.started
        /\ landed[c]["create"] > 0 /\ wire' = wire
     \/ /\ p.state \in {"preparing", "dispatching"} /\ q.started = p.started
        /\ q.state = (IF p.started THEN "unknown" ELSE "failed") /\ wire' = wire

LEMMA SetupWorks ==
  ASSUME TypeOK, Witness, NEW c \in Children,
         \/ AdmitSetup(c) \/ ContinueSetup(c) \/ SetupDispatch(c)
         \/ SetupReady(c) \/ ObserveSetup(c) \/ FailSetup(c)
  PROVE  SetupWork(c)
<1>0. setup[c] \in Phase /\ (\A d \in Children : d # c /\ setup' = [setup EXCEPT ![c] = setup'[c]]
                              => setup'[d] = setup[d])
  BY DEF TypeOK
<1>1. CASE AdmitSetup(c)
  <2>1. \A d \in Children : flight'[d]["stop"] = flight[d]["stop"]
    BY <1>1, LaunchFlight DEF AdmitSetup, Kinds
  <2>2. setup'[c] = Preparing(1) /\ \A d \in Children : d # c => setup'[d] = setup[d]
    BY <1>1 DEF AdmitSetup, TypeOK
  <2>3. QED
    BY <1>1, <2>1, <2>2 DEF SetupWork, SameStop, AdmitSetup, Preparing, native
<1>2. CASE ContinueSetup(c)
  <2>1. \A d \in Children : flight'[d]["stop"] = flight[d]["stop"]
    BY <1>2, LaunchFlight DEF ContinueSetup, Kinds
  <2>2. /\ setup'[c] = Preparing(setup[c].attempts + 1)
        /\ \A d \in Children : d # c => setup'[d] = setup[d]
    BY <1>2 DEF ContinueSetup, TypeOK
  <2>3. QED
    BY <1>2, <2>1, <2>2 DEF SetupWork, SameStop, ContinueSetup, Continuable, Preparing, native
<1>3. CASE SetupDispatch(c)
  <2>1. \A d \in Children : flight'[d]["stop"] = flight[d]["stop"]
    BY <1>3, GotoFlight DEF SetupDispatch, Kinds
  <2>2. /\ \A d \in Children : d # c => setup'[d] = setup[d]
        /\ setup'[c].state = "dispatching" /\ setup'[c].started
    BY <1>0, <1>3 DEF SetupDispatch, TypeOK, Phase
  <2>3. QED
    BY <1>3, <2>1, <2>2 DEF SetupWork, SameStop, SetupDispatch
<1>4. CASE SetupReady(c) \/ ObserveSetup(c)
  <2>1. \A d \in Children : flight'[d]["stop"] = flight[d]["stop"]
    BY <1>4, DoneFlight DEF SetupReady, ObserveSetup, Kinds
  <2>2. PICK k \in Kinds : RetainReady(c, k) /\ flight[c][k].seen
    BY <1>4 DEF SetupReady, ObserveSetup, Kinds
  <2>3. /\ \A d \in Children : d # c => setup'[d] = setup[d]
        /\ setup'[c].state = "ready" /\ setup'[c].started = setup[c].started
    BY <1>0, <2>2 DEF RetainReady, TypeOK, Phase
  <2>4. landed[c]["create"] > 0
    BY <2>2 DEF Witness, Witnessed
  <2>5. setup[c].started /\ setup[c].state \in {"dispatching", "unknown"}
    BY <2>2 DEF RetainReady
  <2>6. UNCHANGED <<send, stop, wire, landed>>
    BY <1>4 DEF SetupReady, ObserveSetup, native
  <2>7. QED
    BY <2>1, <2>3, <2>4, <2>5, <2>6 DEF SetupWork, SameStop
<1>5. CASE FailSetup(c)
  <2>1. \A d \in Children : flight'[d]["stop"] = flight[d]["stop"]
    BY <1>5, DoneFlight DEF FailSetup, Kinds
  <2>2. UNCHANGED <<send, stop, wire, landed>>
    BY <1>5 DEF FailSetup, native
  <2>3. CASE UNCHANGED setup
    BY <2>1, <2>2, <2>3 DEF SetupWork, SameStop
  <2>4. CASE ~UNCHANGED setup
    <3>1. /\ \A d \in Children : d # c => setup'[d] = setup[d]
          /\ setup'[c] = PhaseFailure(setup[c])
          /\ setup[c].state \in {"preparing", "dispatching"}
      BY <1>5, <2>4 DEF FailSetup, Fails, TypeOK
    <3>2. QED
      BY <1>0, <2>1, <2>2, <3>1, FailurePhase DEF SetupWork, SameStop
  <2>5. QED
    BY <2>3, <2>4
<1>6. QED
  BY <1>1, <1>2, <1>3, <1>4, <1>5

\* What a step makes of the turn of c, with the calls it makes. A verdict may
\* confirm a stop that was asked for.
SendWork(c) ==
  LET p == send[c]
      q == send'[c] IN
  /\ \A d \in Children : d # c => send'[d] = send[d]
  /\ \A d \in Children : setup'[d] = setup[d] /\ (d # c => SameStop(d))
  /\ landed' = landed
  /\ \/ q = p /\ SameStop(c) /\ wire' = wire
     \/ /\ p.state = "none" \/ (p.state = "failed" /\ ~p.started)
        /\ q.state = "preparing" /\ ~q.started /\ SameStop(c) /\ wire' = wire
     \/ /\ p.state = "preparing" /\ ~p.started /\ q.state = "dispatching" /\ q.started
        /\ SameStop(c) /\ Issue(c, "agent")
     \/ /\ p.state \in {"dispatching", "unknown"} /\ p.started
        /\ q.state = "accepted" /\ q.started
        /\ landed[c]["agent"] > 0 /\ SameStop(c) /\ wire' = wire
     \/ /\ p.started /\ p.state \notin Settled
        /\ q.state \in Settled /\ q.started
        /\ landed[c]["agent"] > 0 /\ wire' = wire
        /\ \/ SameStop(c)
           \/ /\ q.state = "cancelled" /\ stop[c].state # "none" /\ stop'[c].state = "confirmed"
              /\ stop'[c].tracked = stop[c].tracked /\ stop'[c].started = stop[c].started
              /\ flight'[c]["stop"] = flight[c]["stop"]
     \/ /\ p.state \in {"preparing", "dispatching"} /\ q.started = p.started
        /\ q.state = (IF p.started THEN "unknown" ELSE "failed") /\ SameStop(c) /\ wire' = wire

LEMMA VerdictWorks ==
  ASSUME TypeOK, Witness, NEW c \in Children, ObserveVerdict(c) \/ AbortedEvent(c)
  PROVE  SendWork(c)
<1>0. send[c] \in Phase /\ stop[c] \in Stop
  BY DEF TypeOK
<1>1. \E v \in Settled : \E p : RetainVerdict(c, p, v)
  <2>1. CASE ObserveVerdict(c)
    <3>1. RetainVerdict(c, Observed(c, "observe"),
                        IF flight[c]["observe"].result = "ok" THEN "completed" ELSE "failed")
      BY <2>1 DEF ObserveVerdict
    <3>2. QED
      BY <3>1 DEF Settled
  <2>2. CASE AbortedEvent(c)
    BY <2>2 DEF AbortedEvent, Settled
  <2>3. QED
    BY <2>1, <2>2
<1> PICK v \in Settled : \E p : RetainVerdict(c, p, v)
  BY <1>1
<1>2. \A d \in Children : flight'[d]["stop"] = flight[d]["stop"]
  BY DoneFlight DEF ObserveVerdict, AbortedEvent, Kinds
<1>3. UNCHANGED <<setup, wire, landed>>
  BY DEF ObserveVerdict, AbortedEvent, native
<1>4. run[c] # "none"
  BY DEF ObserveVerdict, AbortedEvent, Witness, Witnessed
<1>5. landed[c]["agent"] > 0
  BY <1>4 DEF Witness, Witnessed
<1>6. /\ \A d \in Children : d # c => send'[d] = send[d] /\ stop'[d] = stop[d]
      /\ send'[c].state = v /\ send'[c].started /\ send[c].started /\ send[c].state \notin Settled
  <2>1. send' = [send EXCEPT ![c].state = v] /\ send[c].started /\ send[c].state \notin Settled
    BY <1>1 DEF RetainVerdict, Sent
  <2>2. \A d \in Children : d # c => send'[d] = send[d] /\ stop'[d] = stop[d]
    BY <1>1, <2>1 DEF RetainVerdict, TypeOK
  <2>3. send'[c] = [send[c] EXCEPT !.state = v]
    BY <2>1 DEF TypeOK
  <2>4. [send[c] EXCEPT !.state = v].started = send[c].started /\ [send[c] EXCEPT !.state = v].state = v
    BY <1>0, RestatedPhase
  <2>5. QED
    BY <2>1, <2>2, <2>3, <2>4
<1>7. \/ stop'[c] = stop[c]
      \/ /\ v = "cancelled" /\ stop[c].state # "none" /\ stop'[c].state = "confirmed"
         /\ stop'[c].tracked = stop[c].tracked /\ stop'[c].started = stop[c].started
  BY <1>0, <1>1 DEF RetainVerdict, TypeOK, Stop
<1>8. QED
  BY <1>2, <1>3, <1>5, <1>6, <1>7 DEF SendWork, SameStop

LEMMA SendWorks ==
  ASSUME TypeOK, NEW c \in Children,
         AdmitSend(c) \/ ContinueSend(c) \/ SendDispatch(c) \/ SendAck(c) \/ FailSend(c)
  PROVE  SendWork(c)
<1>0. send[c] \in Phase
  BY DEF TypeOK
<1>1. CASE AdmitSend(c)
  <2>1. \A d \in Children : flight'[d]["stop"] = flight[d]["stop"]
    BY <1>1, LaunchFlight DEF AdmitSend, Kinds
  <2>2. send'[c] = Preparing(1) /\ \A d \in Children : d # c => send'[d] = send[d]
    BY <1>1 DEF AdmitSend, TypeOK
  <2>3. QED
    BY <1>1, <2>1, <2>2 DEF SendWork, SameStop, AdmitSend, Preparing, native
<1>2. CASE ContinueSend(c)
  <2>1. \A d \in Children : flight'[d]["stop"] = flight[d]["stop"]
    BY <1>2, LaunchFlight DEF ContinueSend, Kinds
  <2>2. /\ send'[c] = Preparing(send[c].attempts + 1)
        /\ \A d \in Children : d # c => send'[d] = send[d]
    BY <1>2 DEF ContinueSend, TypeOK
  <2>3. QED
    BY <1>2, <2>1, <2>2 DEF SendWork, SameStop, ContinueSend, Continuable, Preparing, native
<1>3. CASE SendDispatch(c)
  <2>1. \A d \in Children : flight'[d]["stop"] = flight[d]["stop"]
    BY <1>3 DEF SendDispatch, TypeOK, Kinds
  <2>2. /\ \A d \in Children : d # c => send'[d] = send[d]
        /\ send'[c].state = "dispatching" /\ send'[c].started
    BY <1>0, <1>3 DEF SendDispatch, TypeOK, Phase
  <2>3. QED
    BY <1>3, <2>1, <2>2 DEF SendWork, SameStop, SendDispatch
<1>4. CASE SendAck(c)
  <2>1. \A d \in Children : flight'[d]["stop"] = flight[d]["stop"]
    BY <1>4, DoneFlight DEF SendAck, Kinds
  <2>2. UNCHANGED <<setup, stop, wire, landed>>
    BY <1>4 DEF SendAck, native
  <2>3. CASE UNCHANGED send
    BY <2>1, <2>2, <2>3 DEF SendWork, SameStop
  <2>4. CASE ~UNCHANGED send
    <3>1. /\ send[c].started /\ send[c].state \in {"dispatching", "unknown"}
          /\ send' = [send EXCEPT ![c].state = "accepted"] /\ landed[c]["agent"] > 0
      BY <1>4, <2>4 DEF SendAck
    <3>2. /\ \A d \in Children : d # c => send'[d] = send[d]
          /\ send'[c].state = "accepted" /\ send'[c].started
      BY <1>0, <3>1, RestatedPhase DEF TypeOK
    <3>3. QED
      BY <2>1, <2>2, <3>1, <3>2 DEF SendWork, SameStop
  <2>5. QED
    BY <2>3, <2>4
<1>5. CASE FailSend(c)
  <2>1. \A d \in Children : flight'[d]["stop"] = flight[d]["stop"]
    BY <1>5, DoneFlight DEF FailSend, Kinds
  <2>2. UNCHANGED <<setup, stop, wire, landed>>
    BY <1>5 DEF FailSend, native
  <2>3. CASE UNCHANGED send
    BY <2>1, <2>2, <2>3 DEF SendWork, SameStop
  <2>4. CASE ~UNCHANGED send
    <3>1. /\ \A d \in Children : d # c => send'[d] = send[d]
          /\ send'[c] = PhaseFailure(send[c])
          /\ send[c].state \in {"preparing", "dispatching"}
      BY <1>5, <2>4 DEF FailSend, Fails, TypeOK
    <3>2. QED
      BY <1>0, <2>1, <2>2, <3>1, FailurePhase DEF SendWork, SameStop
  <2>5. QED
    BY <2>3, <2>4
<1>6. QED
  BY <1>1, <1>2, <1>3, <1>4, <1>5

\* What a step makes of the stop of c, with the call it makes.
StopWork(c) ==
  LET p == stop[c]
      q == stop'[c]
      f == flight[c]["stop"].pc
      g == flight'[c]["stop"].pc IN
  /\ \A d \in Children : setup'[d] = setup[d] /\ send'[d] = send[d] /\ (d # c => SameStop(d))
  /\ landed' = landed
  /\ \/ /\ p.state = "none" /\ q.state = "requested" /\ ~q.started /\ g = "policy"
        /\ wire' = wire
     \/ /\ p.tracked /\ p.state = "failed" /\ ~p.started
        /\ q.tracked /\ q.state = "requested" /\ ~q.started /\ g = "policy" /\ wire' = wire
     \/ /\ f = "account" /\ g = "aborting" /\ Sent(c)
        /\ q.state = p.state /\ q.tracked = p.tracked
        /\ p.tracked => p.state = "requested" /\ ~p.started /\ q.started
        /\ Issue(c, "abort")
     \/ /\ f # "idle" /\ g = "idle" /\ q.tracked = p.tracked /\ q.started = p.started
        /\ \/ q.state = p.state
           \/ /\ p.state = "requested"
              /\ q.state = (IF p.tracked /\ ~p.started THEN "failed" ELSE "unconfirmed")
        /\ wire' = wire

LEMMA StopWorks ==
  ASSUME TypeOK, NEW c \in Children,
         AdmitStop(c) \/ ContinueStop(c) \/ StopDispatch(c) \/ EndStop(c)
  PROVE  StopWork(c)
<1>0. stop[c] \in Stop
  BY DEF TypeOK
<1>1. CASE AdmitStop(c)
  <2>1. /\ flight'[c]["stop"].pc = "policy"
        /\ \A d \in Children : d # c => flight'[d]["stop"] = flight[d]["stop"]
    BY <1>1, LaunchFlight DEF AdmitStop, Kinds
  <2>2. /\ stop'[c].state = "requested" /\ ~stop'[c].started /\ stop[c].state = "none"
        /\ \A d \in Children : d # c => stop'[d] = stop[d]
    BY <1>1 DEF AdmitStop, TypeOK
  <2>3. QED
    BY <1>1, <2>1, <2>2 DEF StopWork, SameStop, AdmitStop, native
<1>2. CASE ContinueStop(c)
  <2>1. /\ flight'[c]["stop"].pc = "policy"
        /\ \A d \in Children : d # c => flight'[d]["stop"] = flight[d]["stop"]
    BY <1>2, LaunchFlight DEF ContinueStop, Kinds
  <2>2. /\ stop'[c].state = "requested" /\ ~stop'[c].started /\ stop'[c].tracked
        /\ \A d \in Children : d # c => stop'[d] = stop[d]
    BY <1>0, <1>2 DEF ContinueStop, TypeOK, Stop
  <2>3. QED
    BY <1>2, <2>1, <2>2 DEF StopWork, SameStop, ContinueStop, native
<1>3. CASE StopDispatch(c)
  <2>1. /\ flight'[c]["stop"].pc = "aborting" /\ flight[c]["stop"].pc = "account"
        /\ \A d \in Children : d # c => flight'[d]["stop"] = flight[d]["stop"]
    BY <1>3, GotoFlight DEF StopDispatch, Kinds
  <2>2. /\ stop'[c].state = stop[c].state /\ stop'[c].tracked = stop[c].tracked
        /\ stop[c].tracked => stop[c].state = "requested" /\ ~stop[c].started /\ stop'[c].started
        /\ \A d \in Children : d # c => stop'[d] = stop[d]
    BY <1>0, <1>3 DEF StopDispatch, TypeOK, Stop
  <2>3. QED
    BY <1>3, <2>1, <2>2 DEF StopWork, SameStop, StopDispatch
<1>4. CASE EndStop(c)
  <2>1. /\ flight'[c]["stop"].pc = "idle" /\ flight[c]["stop"].pc # "idle"
        /\ \A d \in Children : d # c => flight'[d]["stop"] = flight[d]["stop"]
    BY <1>4, DoneFlight DEF EndStop, Kinds
  <2>2. UNCHANGED <<setup, send, wire, landed>>
    BY <1>4 DEF EndStop, native
  <2>3. CASE UNCHANGED stop
    BY <2>1, <2>2, <2>3 DEF StopWork, SameStop
  <2>4. CASE ~UNCHANGED stop
    <3>1. PICK s \in {"failed", "unconfirmed"} :
            /\ stop[c].state = "requested" /\ stop' = [stop EXCEPT ![c].state = s]
            /\ s = IF stop[c].tracked /\ ~stop[c].started THEN "failed" ELSE "unconfirmed"
      BY <1>4, <2>4 DEF EndStop
    <3>2. /\ stop'[c].state = s /\ stop'[c].tracked = stop[c].tracked
          /\ stop'[c].started = stop[c].started
          /\ \A d \in Children : d # c => stop'[d] = stop[d]
      BY <1>0, <3>1 DEF TypeOK, Stop
    <3>3. QED
      BY <2>1, <2>2, <3>1, <3>2 DEF StopWork, SameStop
  <2>5. QED
    BY <2>3, <2>4
<1>5. QED
  BY <1>1, <1>2, <1>3, <1>4

\* The records stay, and every stop waits where it waited.
Elsewhere == \A d \in Children : setup'[d] = setup[d] /\ send'[d] = send[d] /\ SameStop(d)

OtherStep ==
  \/ \E c \in Children :
       \/ Observe(c) \/ CreateReply(c) \/ HistoryReply(c) \/ ObserveSend(c) \/ WaitReply(c)
       \/ EndObserve(c) \/ Native(c) \/ \E k \in Kinds : PolicyReply(c, k)
  \/ Close \/ World \/ UNCHANGED vars

LEMMA OtherSteps == TypeOK /\ OtherStep => Elsewhere
<1> SUFFICES ASSUME TypeOK, OtherStep PROVE Elsewhere
  OBVIOUS
<1>1. ASSUME NEW c \in Children,
             Observe(c) \/ CreateReply(c) \/ HistoryReply(c) \/ ObserveSend(c)
               \/ WaitReply(c) \/ EndObserve(c)
      PROVE  Elsewhere
  <2>1. \A d \in Children : flight'[d]["stop"] = flight[d]["stop"]
    <3>1. CASE Observe(c)
      BY <3>1, LaunchFlight DEF Observe, Kinds
    <3>2. CASE CreateReply(c)
      BY <3>2, GotoFlight DEF CreateReply, Kinds
    <3>3. CASE ObserveSend(c)
      BY <3>3, GotoFlight DEF ObserveSend, Kinds
    <3>4. CASE EndObserve(c)
      BY <3>4, DoneFlight DEF EndObserve, Kinds
    <3>5. CASE HistoryReply(c)
      BY <3>5 DEF HistoryReply, TypeOK, Kinds
    <3>6. CASE WaitReply(c)
      BY <3>6 DEF WaitReply, TypeOK, Kinds
    <3>7. QED
      BY <1>1, <3>1, <3>2, <3>3, <3>4, <3>5, <3>6
  <2>2. UNCHANGED durable
    BY <1>1 DEF Observe, CreateReply, HistoryReply, ObserveSend, WaitReply, EndObserve
  <2>3. QED
    BY <2>1, <2>2 DEF Elsewhere, SameStop, durable
<1>2. ASSUME NEW c \in Children, NEW k \in Kinds, PolicyReply(c, k) PROVE Elsewhere
  <2>1. UNCHANGED durable
    BY <1>2 DEF PolicyReply
  <2>2. ASSUME NEW d \in Children
        PROVE  /\ flight'[d]["stop"].pc = "idle" <=> flight[d]["stop"].pc = "idle"
               /\ flight'[d]["stop"].pc \in {"policy", "account"} <=>
                    flight[d]["stop"].pc \in {"policy", "account"}
    <3>1. CASE d = c /\ k = "stop"
      <4>1. /\ flight[c]["stop"].pc \in {"policy", "policy2"}
            /\ flight'[c]["stop"].pc = IF flight[c]["stop"].pc = "policy" THEN "account" ELSE "account2"
        <5>1. flight[c]["stop"] \in Flight
          BY DEF TypeOK, Kinds
        <5>2. \A x \in Flight : \A pc, r, b : [x EXCEPT !.pc = pc, !.reg = r, !.seen = b].pc = pc
          BY DEF Flight
        <5>3. /\ flight[c]["stop"].pc \in {"policy", "policy2"}
              /\ flight'[c]["stop"] = [flight[c]["stop"] EXCEPT
                   !.pc = IF flight[c]["stop"].pc = "policy" THEN "account" ELSE "account2",
                   !.reg = reg, !.seen = (landed[c]["create"] > 0)]
          BY <1>2, <3>1 DEF PolicyReply, TypeOK, Kinds
        <5>4. QED
          BY <5>1, <5>2, <5>3
      <4>2. QED
        BY <3>1, <4>1
    <3>2. CASE ~(d = c /\ k = "stop")
      BY <1>2, <3>2 DEF PolicyReply, TypeOK, Kinds
    <3>3. QED
      BY <3>1, <3>2
  <2>3. QED
    BY <2>1, <2>2 DEF Elsewhere, SameStop, durable
<1>3. CASE UNCHANGED <<setup, send, stop, flight>>
  BY <1>3 DEF Elsewhere, SameStop
<1>4. ASSUME NEW c \in Children, Native(c) PROVE UNCHANGED <<setup, send, stop, flight>>
  BY <1>4 DEF Native, Finish, Deliver, Drop, durable, service
<1>5. Close \/ World \/ UNCHANGED vars => UNCHANGED <<setup, send, stop, flight>>
  BY DEF Close, World, Hold, Revoke, Connect, Reregister, Reselect, RestartRuntime, vars,
         durable, service
<1>6. QED
  BY <1>1, <1>2, <1>3, <1>4, <1>5 DEF OtherStep

\* Every step is one of these.
LEMMA Steps ==
  ASSUME TypeOK, Witness, [Next]_vars
  PROVE  \/ \E c \in Children : SetupWork(c) \/ SendWork(c) \/ StopWork(c)
         \/ OtherStep \/ Restart
BY SetupWorks, SendWorks, VerdictWorks, StopWorks DEF OtherStep, Next, Command, Reply, End

LEMMA ToldStep == TypeOK /\ Witness /\ ToldInv /\ [Next]_vars => ToldInv'
<1> SUFFICES ASSUME TypeOK, Witness, ToldInv, [Next]_vars, NEW d \in Children PROVE Told(d)'
  BY DEF ToldInv
<1>0. Told(d)
  BY DEF ToldInv
<1>1. ASSUME NEW c \in Children, SetupWork(c) PROVE Told(d)'
  BY <1>0, <1>1 DEF Told, SetupWork, SameStop
<1>2. ASSUME NEW c \in Children, SendWork(c) PROVE Told(d)'
  BY <1>0, <1>2 DEF Told, SendWork, SameStop, Settled
<1>3. ASSUME NEW c \in Children, StopWork(c) PROVE Told(d)'
  BY <1>0, <1>3 DEF Told, StopWork, SameStop, Sent, Settled
<1>4. CASE OtherStep
  BY <1>0, <1>4, OtherSteps DEF Told, Elsewhere, SameStop
<1>5. CASE Restart
  BY <1>0, <1>5 DEF Told, Restart, durable, NoFlight, Kinds
<1>6. QED
  BY <1>1, <1>2, <1>3, <1>4, <1>5, Steps

LEMMA ToldHolds == Spec => []ToldInv
<1>1. Init => ToldInv
  BY DEF Init, ToldInv, Told, NoPhase, NoStop, NoFlight, Kinds
<1>2. SafeInv => TypeOK /\ Witness
  BY DEF SafeInv
<1>3. QED
  BY <1>1, <1>2, ToldStep, SafeInvHolds, PTL DEF Spec

Shown == INSTANCE DurableEffectProofs WITH Effects <- Children \X Calls, effect <- Abstract

\* What a step does to one native call, as the records, the call under way and
\* its effect tell it.
Turn(c, m) ==
  LET from(x, y) == Claim(c, m) = x /\ Claim(c, m)' = y
      quiet == wire[c][m] = 0 /\ wire'[c][m] = 0 /\ landed'[c][m] = landed[c][m] IN
  \/ /\ Claim(c, m)' = Claim(c, m)
     /\ wire'[c][m] = wire[c][m] /\ landed'[c][m] = landed[c][m]
  \/ /\ Claim(c, m)' = Claim(c, m)
     /\ wire[c][m] = 1 /\ wire'[c][m] = 0 /\ landed'[c][m] \in {landed[c][m], landed[c][m] + 1}
  \/ from("unsent", "pending") /\ quiet
  \/ /\ from("pending", "maybe") /\ wire[c][m] = 0 /\ wire'[c][m] = 1
     /\ landed'[c][m] = landed[c][m]
  \/ from("pending", "unsent") /\ quiet
  \/ from("pending", "maybe") /\ quiet
  \/ from("maybe", "known") /\ quiet /\ landed[c][m] = 1

LEMMA TurnIsMove ==
  ASSUME NEW c \in Children, NEW m \in Calls, landed[c][m] \in Nat, Turn(c, m)
  PROVE  LET e == <<c, m>> IN
         Abstract'[e] = Abstract[e] \/ Promise!Move(Abstract[e], Abstract'[e])
<1> DEFINE e == <<c, m>>
<1>1. /\ Abstract[e] = Shown!E(Claim(c, m), wire[c][m], landed[c][m])
      /\ Abstract'[e] = Shown!E(Claim(c, m)', wire'[c][m], landed'[c][m])
  BY DEF Abstract, Shown!E
<1>2. \A x, y : Shown!Move(x, y) <=> Promise!Move(x, y)
  BY DEF Promise!Move, Promise!Ask, Promise!Dispatch, Promise!Withdraw, Promise!Doubt, Promise!Refuse,
         Promise!Learn, Promise!Land, Promise!Lose, Shown!Move, Shown!Ask, Shown!Dispatch,
         Shown!Withdraw, Shown!Doubt, Shown!Refuse, Shown!Learn, Shown!Land, Shown!Lose
<1>3. \A n \in Nat :
        /\ Shown!Move(Shown!E("unsent", 0, n), Shown!E("pending", 0, n))
        /\ Shown!Move(Shown!E("pending", 0, n), Shown!E("maybe", 1, n))
        /\ Shown!Move(Shown!E("pending", 0, n), Shown!E("unsent", 0, n))
        /\ Shown!Move(Shown!E("pending", 0, n), Shown!E("maybe", 0, n))
        /\ Shown!Move(Shown!E("maybe", 0, 1), Shown!E("known", 0, 1))
        /\ \A x : /\ Shown!Move(Shown!E(x, 1, n), Shown!E(x, 0, n + 1))
                  /\ Shown!Move(Shown!E(x, 1, n), Shown!E(x, 0, n))
  BY Shown!Moves
<1>4. QED
  BY <1>1, <1>2, <1>3 DEF Turn

\* A call that is not made, and a record that stays: nothing is claimed anew.
LEMMA SameClaims ==
  ASSUME NEW d \in Children
  PROVE  /\ setup'[d] = setup[d] => CreateClaim(d)' = CreateClaim(d)
         /\ send'[d] = send[d] => AgentClaim(d)' = AgentClaim(d)
         /\ SameStop(d) => AbortClaim(d)' = AbortClaim(d)
<1>1. setup'[d] = setup[d] => CreateClaim(d)' = CreateClaim(d)
  BY DEF CreateClaim
<1>2. send'[d] = send[d] => AgentClaim(d)' = AgentClaim(d)
  BY DEF AgentClaim
<1>3. SameStop(d) => AbortClaim(d)' = AbortClaim(d)
  BY DEF AbortClaim, SameStop
<1>4. QED
  BY <1>1, <1>2, <1>3

LEMMA ClaimsOf ==
  \A d : /\ Claim(d, "create") = CreateClaim(d) /\ Claim(d, "create")' = CreateClaim(d)'
         /\ Claim(d, "agent") = AgentClaim(d) /\ Claim(d, "agent")' = AgentClaim(d)'
         /\ Claim(d, "abort") = AbortClaim(d) /\ Claim(d, "abort")' = AbortClaim(d)'
BY DEF Claim

LEMMA IssueCounts ==
  ASSUME TypeOK, NEW c \in Children, NEW m \in Calls, Issue(c, m)
  PROVE  \A d \in Children, n \in Calls :
           wire'[d][n] = IF d = c /\ n = m THEN wire[d][n] + 1 ELSE wire[d][n]
BY DEF TypeOK, Issue

\* What the counts of a call can be.
LEMMA Counts ==
  ASSUME SafeInv, NEW c \in Children, NEW m \in Calls
  PROVE  /\ wire[c][m] \in {0, 1} /\ landed[c][m] \in {0, 1}
         /\ wire[c][m] = 0 \/ landed[c][m] = 0
         /\ wire[c][m] + landed[c][m] = 0 => wire[c][m] = 0 /\ landed[c][m] = 0
<1>1. wire[c][m] \in Nat /\ landed[c][m] \in Nat
  BY DEF SafeInv, TypeOK
<1>2. wire[c][m] + landed[c][m] <= 1
  BY DEF SafeInv, Marked, CreateMarked, AgentMarked, AbortMarked, Calls
<1>3. QED
  BY <1>1, <1>2

LEMMA SetupTurns ==
  ASSUME SafeInv, ToldInv, NEW c \in Children, SetupWork(c), NEW d \in Children, NEW m \in Calls
  PROVE  Turn(d, m)
<1>0. TypeOK /\ "create" \in Calls
  BY DEF SafeInv, Calls
<1>1. landed' = landed /\ \A n \in Calls : (d # c \/ n # "create") => wire'[d][n] = wire[d][n]
  BY <1>0, IssueCounts DEF SetupWork
<1>2. CASE m # "create" \/ d # c
  <2>1. Claim(d, m)' = Claim(d, m)
    BY <1>2, ClaimsOf, SameClaims DEF SetupWork, Calls
  <2>2. QED
    BY <1>1, <1>2, <2>1 DEF Turn
<1>3. CASE m = "create" /\ d = c
  <2> DEFINE p == setup[c]
             q == setup'[c]
  <2>1. Told(c) /\ CreateMarked(c) /\ (p.state = "ready" => landed[c]["create"] = 1)
    BY DEF ToldInv, SafeInv, Marked, TruthInv, Truth
  <2>2. /\ wire[c]["create"] \in {0, 1} /\ landed[c]["create"] \in {0, 1}
        /\ wire[c]["create"] = 0 \/ landed[c]["create"] = 0
        /\ ~p.started => wire[c]["create"] = 0 /\ landed[c]["create"] = 0
    BY <1>0, <2>1, Counts DEF CreateMarked
  <2>3. Claim(c, "create") = CreateClaim(c) /\ Claim(c, "create")' = CreateClaim(c)'
    BY ClaimsOf
  <2>4. CASE q = p /\ wire' = wire
    BY <1>1, <1>3, <2>3, <2>4, SameClaims DEF Turn
  <2>5. CASE p.state \in {"none", "failed"} /\ q.state = "preparing" /\ ~q.started /\ wire' = wire
    <3>1. CreateClaim(c) = "unsent" /\ CreateClaim(c)' = "pending" /\ ~p.started
      BY <2>1, <2>5 DEF CreateClaim, Told
    <3>2. QED
      BY <1>1, <1>3, <2>2, <2>3, <2>5, <3>1 DEF Turn
  <2>6. CASE /\ p.state = "preparing" /\ ~p.started /\ q.state = "dispatching" /\ q.started
             /\ Issue(c, "create")
    <3>1. CreateClaim(c) = "pending" /\ CreateClaim(c)' = "maybe"
      BY <2>6 DEF CreateClaim
    <3>2. wire'[c]["create"] = wire[c]["create"] + 1
      BY <1>0, <2>6, IssueCounts
    <3>3. QED
      BY <1>1, <1>3, <2>2, <2>3, <2>6, <3>1, <3>2 DEF Turn
  <2>7. CASE /\ p.state \in {"dispatching", "unknown"} /\ p.started /\ q.state = "ready" /\ q.started
             /\ landed[c]["create"] > 0 /\ wire' = wire
    <3>1. CreateClaim(c) = "maybe" /\ CreateClaim(c)' = "known"
      BY <2>7 DEF CreateClaim
    <3>2. QED
      BY <1>1, <1>3, <2>2, <2>3, <2>7, <3>1 DEF Turn
  <2>8. CASE /\ p.state \in {"preparing", "dispatching"} /\ q.started = p.started
             /\ q.state = (IF p.started THEN "unknown" ELSE "failed") /\ wire' = wire
    <3>1. CASE p.started
      <4>1. CreateClaim(c) = "maybe" /\ CreateClaim(c)' = "maybe"
        BY <2>1, <2>8, <3>1 DEF CreateClaim, Told
      <4>2. QED
        BY <1>1, <1>3, <2>3, <2>8, <4>1 DEF Turn
    <3>2. CASE ~p.started
      <4>1. CreateClaim(c) = "pending" /\ CreateClaim(c)' = "unsent"
        BY <2>1, <2>8, <3>2 DEF CreateClaim, Told
      <4>2. QED
        BY <1>1, <1>3, <2>2, <2>3, <2>8, <3>2, <4>1 DEF Turn
    <3>3. QED
      BY <3>1, <3>2
  <2>9. QED
    BY <2>4, <2>5, <2>6, <2>7, <2>8 DEF SetupWork
<1>4. QED
  BY <1>2, <1>3

LEMMA SendTurns ==
  ASSUME SafeInv, ToldInv, NEW c \in Children, SendWork(c), NEW d \in Children, NEW m \in Calls
  PROVE  Turn(d, m)
<1>0. TypeOK /\ "agent" \in Calls /\ send[c] \in Phase
  BY DEF SafeInv, Calls, TypeOK
<1>1. landed' = landed /\ \A n \in Calls : (d # c \/ n # "agent") => wire'[d][n] = wire[d][n]
  BY <1>0, IssueCounts DEF SendWork
<1>2. CASE ~(m \in {"agent", "abort"} /\ d = c)
  <2>1. Claim(d, m)' = Claim(d, m)
    BY <1>2, ClaimsOf, SameClaims DEF SendWork, Calls
  <2>2. QED
    BY <1>1, <1>2, <2>1 DEF Turn
<1> DEFINE p == send[c]
           q == send'[c]
<1>3. CASE m = "agent" /\ d = c
  <2>1. Told(c) /\ AgentMarked(c)
    BY DEF ToldInv, SafeInv, Marked
  <2>2. /\ wire[c]["agent"] \in {0, 1} /\ landed[c]["agent"] \in {0, 1}
        /\ wire[c]["agent"] = 0 \/ landed[c]["agent"] = 0
        /\ ~p.started => wire[c]["agent"] = 0 /\ landed[c]["agent"] = 0
    BY <1>0, <2>1, Counts DEF AgentMarked
  <2>3. Claim(c, "agent") = AgentClaim(c) /\ Claim(c, "agent")' = AgentClaim(c)'
    BY ClaimsOf
  <2>4. CASE q = p /\ wire' = wire
    BY <1>1, <1>3, <2>3, <2>4, SameClaims DEF Turn
  <2>5. CASE /\ p.state = "none" \/ (p.state = "failed" /\ ~p.started)
             /\ q.state = "preparing" /\ ~q.started /\ wire' = wire
    <3>1. AgentClaim(c) = "unsent" /\ AgentClaim(c)' = "pending" /\ ~p.started
      BY <2>1, <2>5 DEF AgentClaim, Told
    <3>2. QED
      BY <1>1, <1>3, <2>2, <2>3, <2>5, <3>1 DEF Turn
  <2>6. CASE /\ p.state = "preparing" /\ ~p.started /\ q.state = "dispatching" /\ q.started
             /\ Issue(c, "agent")
    <3>1. AgentClaim(c) = "pending" /\ AgentClaim(c)' = "maybe"
      BY <2>6 DEF AgentClaim
    <3>2. wire'[c]["agent"] = wire[c]["agent"] + 1
      BY <1>0, <2>6, IssueCounts
    <3>3. QED
      BY <1>1, <1>3, <2>2, <2>3, <2>6, <3>1, <3>2 DEF Turn
  <2>7. CASE /\ p.started /\ p.state \notin Settled
             /\ q.state \in Settled \cup {"accepted"} /\ q.started
             /\ landed[c]["agent"] > 0 /\ wire' = wire
    <3>1. AgentClaim(c)' = "known"
      BY <2>7 DEF AgentClaim, Settled
    <3>2. p.state \in {"dispatching", "unknown", "accepted"}
      BY <1>0, <2>1, <2>7 DEF Told, Settled, Phase, PhaseStates
    <3>3. AgentClaim(c) \in {"maybe", "known"}
      BY <3>2 DEF AgentClaim
    <3>4. QED
      BY <1>1, <1>3, <2>2, <2>3, <2>7, <3>1, <3>3 DEF Turn
  <2>8. CASE /\ p.state \in {"preparing", "dispatching"} /\ q.started = p.started
             /\ q.state = (IF p.started THEN "unknown" ELSE "failed") /\ wire' = wire
    <3>1. CASE p.started
      <4>1. AgentClaim(c) = "maybe" /\ AgentClaim(c)' = "maybe"
        BY <2>1, <2>8, <3>1 DEF AgentClaim, Told
      <4>2. QED
        BY <1>1, <1>3, <2>3, <2>8, <4>1 DEF Turn
    <3>2. CASE ~p.started
      <4>1. AgentClaim(c) = "pending" /\ AgentClaim(c)' = "unsent"
        BY <2>1, <2>8, <3>2 DEF AgentClaim, Told
      <4>2. QED
        BY <1>1, <1>3, <2>2, <2>3, <2>8, <3>2, <4>1 DEF Turn
    <3>3. QED
      BY <3>1, <3>2
  <2>9. QED
    BY <2>4, <2>5, <2>6, <2>7, <2>8 DEF SendWork, Settled
<1>4. CASE m = "abort" /\ d = c
  <2>1. CASE SameStop(c)
    BY <1>1, <1>4, <2>1, SameClaims, ClaimsOf DEF Turn
  <2>2. CASE ~SameStop(c)
    <3>1. /\ stop[c].state # "none" /\ stop'[c].state = "confirmed"
          /\ stop'[c].tracked = stop[c].tracked /\ stop'[c].started = stop[c].started
          /\ p.state \notin Settled
      BY <2>2 DEF SendWork
    <3>2. Told(c) /\ AbortMarked(c)
      BY DEF ToldInv, SafeInv, Marked
    <3>3. stop[c].state # "confirmed"
      BY <3>1, <3>2 DEF Told, Settled
    <3>4. CASE stop[c].tracked
      <4>1. AbortClaim(c)' = IF stop[c].started THEN "maybe" ELSE "unsent"
        BY <3>1, <3>4 DEF AbortClaim
      <4>2. AbortClaim(c) \in (IF stop[c].started THEN {"maybe"} ELSE {"pending", "unsent"})
        BY <3>1, <3>3, <3>4 DEF AbortClaim
      <4>3. ~stop[c].started => wire[c]["abort"] = 0
        BY <3>2, <3>4, Counts DEF AbortMarked, Calls
      <4>4. QED
        BY <1>1, <1>4, <4>1, <4>2, <4>3, ClaimsOf DEF Turn
    <3>5. CASE ~stop[c].tracked
      <4>1. AbortClaim(c)' = "maybe"
        BY <3>1, <3>5 DEF AbortClaim
      <4>2. \/ AbortClaim(c) = "maybe"
            \/ AbortClaim(c) = "pending" /\ flight[c]["stop"].pc \in {"policy", "account"}
        BY <3>1, <3>5 DEF AbortClaim
      <4>3. flight[c]["stop"].pc \in {"policy", "account"} => wire[c]["abort"] = 0
        BY <3>2, <3>5, Counts DEF AbortMarked, Calls
      <4>4. QED
        BY <1>1, <1>4, <4>1, <4>2, <4>3, ClaimsOf DEF Turn
    <3>6. QED
      BY <3>4, <3>5
  <2>3. QED
    BY <2>1, <2>2
<1>5. QED
  BY <1>2, <1>3, <1>4

LEMMA StopTurns ==
  ASSUME SafeInv, ToldInv, NEW c \in Children, StopWork(c), NEW d \in Children, NEW m \in Calls
  PROVE  Turn(d, m)
<1>0. TypeOK /\ "abort" \in Calls
  BY DEF SafeInv, Calls
<1>1. landed' = landed /\ \A n \in Calls : (d # c \/ n # "abort") => wire'[d][n] = wire[d][n]
  BY <1>0, IssueCounts DEF StopWork
<1>2. CASE m # "abort" \/ d # c
  <2>1. Claim(d, m)' = Claim(d, m)
    BY <1>2, ClaimsOf, SameClaims DEF StopWork, Calls
  <2>2. QED
    BY <1>1, <1>2, <2>1 DEF Turn
<1>3. CASE m = "abort" /\ d = c
  <2> DEFINE p == stop[c]
             q == stop'[c]
             f == flight[c]["stop"].pc
             g == flight'[c]["stop"].pc
  <2>1. Told(c) /\ AbortMarked(c)
    BY DEF ToldInv, SafeInv, Marked
  <2>2. /\ wire[c]["abort"] = 0 \/ landed[c]["abort"] = 0
        /\ \/ p.state = "none"
           \/ p.tracked /\ ~p.started
           \/ ~p.tracked /\ f \in {"policy", "account"}
           => wire[c]["abort"] = 0 /\ landed[c]["abort"] = 0
    BY <1>0, <2>1, Counts DEF AbortMarked
  <2>3. Claim(c, "abort") = AbortClaim(c) /\ Claim(c, "abort")' = AbortClaim(c)'
    BY ClaimsOf
  <2>4. CASE /\ \/ p.state = "none"
                \/ p.tracked /\ p.state = "failed" /\ ~p.started /\ q.tracked
             /\ q.state = "requested" /\ ~q.started /\ g = "policy" /\ wire' = wire
    <3>1. AbortClaim(c) = "unsent" /\ AbortClaim(c)' = "pending"
      BY <2>4 DEF AbortClaim
    <3>2. QED
      BY <1>1, <1>3, <2>2, <2>3, <2>4, <3>1 DEF Turn
  <2>5. CASE /\ f = "account" /\ g = "aborting" /\ Sent(c)
             /\ q.state = p.state /\ q.tracked = p.tracked
             /\ p.tracked => p.state = "requested" /\ ~p.started /\ q.started
             /\ Issue(c, "abort")
    <3>1. p.state = "requested"
      BY <2>1, <2>5 DEF Told, Sent, Settled
    <3>2. AbortClaim(c) = "pending" /\ AbortClaim(c)' = "maybe"
      BY <2>5, <3>1 DEF AbortClaim
    <3>3. wire'[c]["abort"] = wire[c]["abort"] + 1
      BY <1>0, <2>5, IssueCounts
    <3>4. wire[c]["abort"] = 0
      BY <2>2, <2>5
    <3>5. QED
      BY <1>1, <1>3, <2>3, <3>2, <3>3, <3>4 DEF Turn
  <2>6. CASE /\ f # "idle" /\ g = "idle" /\ q.tracked = p.tracked /\ q.started = p.started
             /\ \/ q.state = p.state
                \/ /\ p.state = "requested"
                   /\ q.state = (IF p.tracked /\ ~p.started THEN "failed" ELSE "unconfirmed")
             /\ wire' = wire
    <3>1. p.state \in {"requested", "confirmed"}
      BY <2>1, <2>6 DEF Told
    <3>2. CASE p.tracked
      <4>1. AbortClaim(c)' = AbortClaim(c) \/
              (~p.started /\ AbortClaim(c) = "pending" /\ AbortClaim(c)' = "unsent")
        BY <2>6, <3>1, <3>2 DEF AbortClaim
      <4>2. QED
        BY <1>1, <1>3, <2>2, <2>3, <2>6, <3>2, <4>1 DEF Turn
    <3>3. CASE ~p.tracked
      <4>1. AbortClaim(c)' = "maybe"
        BY <2>6, <3>1, <3>3 DEF AbortClaim
      <4>2. AbortClaim(c) = "maybe" \/ (AbortClaim(c) = "pending" /\ f \in {"policy", "account"})
        BY <3>1, <3>3 DEF AbortClaim
      <4>3. QED
        BY <1>1, <1>3, <2>2, <2>3, <2>6, <3>3, <4>1, <4>2 DEF Turn
    <3>4. QED
      BY <3>2, <3>3
  <2>7. QED
    BY <2>4, <2>5, <2>6 DEF StopWork
<1>4. QED
  BY <1>2, <1>3

\* The world and the runtime: a call arrives or is lost, and nothing is claimed.
LEMMA OtherTurns ==
  ASSUME SafeInv, OtherStep, NEW d \in Children, NEW m \in Calls
  PROVE  Turn(d, m)
<1>0. TypeOK
  BY DEF SafeInv
<1>1. Claim(d, m)' = Claim(d, m)
  BY <1>0, OtherSteps, ClaimsOf, SameClaims DEF Elsewhere, Calls
<1>2. wire[d][m] \in {0, 1} /\ landed[d][m] \in Nat
  BY Counts
<1>3. \/ UNCHANGED <<wire, landed>>
      \/ \E c \in Children, n \in Calls : Deliver(c, n) \/ Drop(c, n)
      \/ RestartRuntime
  BY DEF OtherStep, Observe, CreateReply, HistoryReply, ObserveSend, WaitReply, EndObserve, PolicyReply,
         Native, Finish, Close, World, Hold, Revoke, Connect, Reregister, Reselect, vars, native
<1>4. CASE UNCHANGED <<wire, landed>>
  BY <1>1, <1>4 DEF Turn
<1>5. ASSUME NEW c \in Children, NEW n \in Calls, Deliver(c, n) \/ Drop(c, n)
      PROVE  Turn(d, m)
  <2>1. wire[c][n] > 0 /\ wire' = [wire EXCEPT ![c][n] = wire[c][n] - 1]
    BY <1>5 DEF Deliver, Drop
  <2>2. landed' = landed \/ landed' = [landed EXCEPT ![c][n] = landed[c][n] + 1]
    BY <1>5 DEF Deliver, Drop
  <2>3. CASE c = d /\ n = m
    <3>1. /\ wire'[d][m] = wire[d][m] - 1 /\ wire[d][m] > 0
          /\ landed'[d][m] \in {landed[d][m], landed[d][m] + 1}
      BY <1>0, <2>1, <2>2, <2>3 DEF TypeOK
    <3>2. QED
      BY <1>1, <1>2, <3>1 DEF Turn
  <2>4. CASE ~(c = d /\ n = m)
    <3>1. wire'[d][m] = wire[d][m] /\ landed'[d][m] = landed[d][m]
      BY <1>0, <2>1, <2>2, <2>4 DEF TypeOK
    <3>2. QED
      BY <1>1, <3>1 DEF Turn
  <2>5. QED
    BY <2>3, <2>4
<1>6. CASE RestartRuntime
  <2>1. wire'[d][m] = 0 /\ landed' = landed
    BY <1>6 DEF RestartRuntime
  <2>2. QED
    BY <1>1, <1>2, <2>1 DEF Turn
<1>7. QED
  BY <1>3, <1>4, <1>5, <1>6

\* After a restart nobody knows whether a stop without a marker was sent.
LEMMA RestartTurns ==
  ASSUME SafeInv, Restart, NEW d \in Children, NEW m \in Calls
  PROVE  Turn(d, m)
<1>1. UNCHANGED <<setup, send, stop, wire, landed>> /\ flight'[d]["stop"].pc = "idle"
  BY DEF Restart, durable, native, NoFlight, Kinds
<1>2. CASE m # "abort"
  BY <1>1, <1>2, SameClaims, ClaimsOf DEF Turn, Calls
<1>3. CASE m = "abort"
  <2>1. AbortMarked(d)
    BY DEF SafeInv, Marked
  <2>2. AbortClaim(d)' = AbortClaim(d) \/
          (/\ AbortClaim(d) = "pending" /\ AbortClaim(d)' = "maybe"
           /\ ~stop[d].tracked /\ flight[d]["stop"].pc \in {"policy", "account"})
    BY <1>1 DEF AbortClaim
  <2>3. ~stop[d].tracked /\ flight[d]["stop"].pc \in {"policy", "account"} => wire[d]["abort"] = 0
    BY <2>1, Counts DEF AbortMarked, Calls
  <2>4. QED
    BY <1>1, <1>3, <2>2, <2>3, ClaimsOf DEF Turn
<1>4. QED
  BY <1>2, <1>3

\* Every native session, turn and abort of a Group reply implements
\* DurableEffect: it takes place at most once and its record never claims less
\* than what may have happened, whatever is lost, continued or restarted.
THEOREM CallsAreDurable == Spec => EachCallIsDurable
<1>1. Init => Promise!Init
  <2>1. ASSUME Init, NEW c \in Children, NEW m \in Calls
        PROVE  Abstract[<<c, m>>] = Promise!Untouched
    <3>1. /\ setup[c].state = "none" /\ send[c].state = "none" /\ stop[c].state = "none"
          /\ wire[c][m] = 0 /\ landed[c][m] = 0
      BY <2>1 DEF Init, NoPhase, NoStop
    <3>2. Claim(c, m) = "unsent"
      BY <3>1 DEF Claim, Calls, CreateClaim, AgentClaim, AbortClaim
    <3>3. QED
      BY <3>1, <3>2 DEF Abstract, Promise!Untouched
  <2>2. Abstract = [e \in Children \X Calls |-> Abstract[e]]
    BY DEF Abstract
  <2>3. ASSUME Init, NEW e \in Children \X Calls PROVE Abstract[e] = Promise!Untouched
    <3>1. PICK c \in Children, m \in Calls : e = <<c, m>>
      OBVIOUS
    <3> HIDE DEF Abstract
    <3>2. QED
      BY <2>1, <2>3, <3>1
  <2> HIDE DEF Abstract
  <2>4. QED
    BY <2>2, <2>3 DEF Promise!Init
<1>2. SafeInv /\ ToldInv /\ [Next]_vars => [Promise!Next]_Abstract
  <2> SUFFICES ASSUME SafeInv, ToldInv, [Next]_vars PROVE Promise!Next
    OBVIOUS
  <2>1. TypeOK /\ Witness
    BY DEF SafeInv
  <2>2. \A c \in Children, m \in Calls : Turn(c, m)
    BY <2>1, Steps, SetupTurns, SendTurns, StopTurns, OtherTurns, RestartTurns
  <2>3. \A c \in Children, m \in Calls :
          LET e == <<c, m>> IN
          Abstract'[e] = Abstract[e] \/ Promise!Move(Abstract[e], Abstract'[e])
    BY <2>1, <2>2, TurnIsMove DEF TypeOK
  <2>4. \A e \in Children \X Calls : \E c \in Children, m \in Calls : e = <<c, m>>
    OBVIOUS
  <2>5. Abstract' = [e \in Children \X Calls |-> Abstract'[e]]
    BY DEF Abstract
  <2> HIDE DEF Abstract
  <2>6. QED
    BY <2>3, <2>4, <2>5 DEF Promise!Next
<1>3. QED
  BY <1>1, <1>2, SafeInvHolds, ToldHolds, PTL DEF Spec, EachCallIsDurable, Promise!Spec
=============================================================================
