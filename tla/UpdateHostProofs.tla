---------------------------- MODULE UpdateHostProofs ----------------------------
(***************************************************************************)
(* Of every instance of UpdateHost, whatever saves throw and however often *)
(* its controller dies.                                                    *)
(*                                                                         *)
(* First part: the shape of its state, and that an installation, operator  *)
(* maintenance and a frontend switch exclude each other. Second part: that *)
(* an installation is held from its launch to its result, that a settled   *)
(* job states what happened, that a stopped application is held by its     *)
(* operator lease, that a job starts only when the workspace admits it,    *)
(* that a cancelled job stays cancelled, and that each installation is a   *)
(* DurableEffect. Each part begins with what the supervisor's functions    *)
(* keep, and goes on with what the steps of the host do with them.         *)
(***************************************************************************)
EXTENDS UpdatePromises, TLAPS

\* The jobs that are in the journal.
Filed(h) == {k \in Jobs : h.journal[k] \in Job}

\* The journal: at least the jobs of J, each under its own key, among them the
\* one the supervisor has in memory.
FiledOK(h, J) ==
  /\ h \in Supervisor /\ J \subseteq Filed(h)
  /\ \A k \in Jobs : h.journal[k] # NoJob => h.journal[k].id = k
  /\ h.mem # NoJob => h.mem.id \in Filed(h)

\* The supervisor's state, and a job for whatever it awaits.
SupOK(h, J) ==
  FiledOK(h, J) /\ (h.at # "idle" => h.up /\ h.mem \in Job /\ h.for \in Filed(h))

\* The supervisor has a job, and its function was started for one.
Ready(h, J) == FiledOK(h, J) /\ h.up /\ h.mem \in Job /\ h.for \in Filed(h)

\* An environment as the handlers read it.
Envs == [beat : Beat \cup {NoBeat}, fresh : BOOLEAN, feed : Revisions \cup {"checking", "lost"},
         selected : Nat]

\* A supervisor that works on a job, in the eyes of the other authorities.
Works(h) == h.at # "idle" \/ Unsettled(h.mem)

-----------------------------------------------------------------------------
(* Changes of one job.                                                     *)

LEMMA JobState ==
  ASSUME NEW j \in Job, NEW s \in States
  PROVE  [j EXCEPT !.state = s] \in Job /\ [j EXCEPT !.state = s].id = j.id
BY DEF Job

LEMMA JobStateHold ==
  ASSUME NEW j \in Job, NEW s \in States, NEW b \in BOOLEAN
  PROVE  /\ [j EXCEPT !.state = s, !.hold = b] \in Job
         /\ [j EXCEPT !.hold = b, !.state = s] \in Job
BY DEF Job

LEMMA JobPrepared ==
  ASSUME NEW j \in Job, NEW s \in States
  PROVE  /\ [j EXCEPT !.state = s, !.prepared = TRUE] \in Job
         /\ [j EXCEPT !.state = s, !.started = TRUE] \in Job
BY DEF Job

LEMMA JobFields ==
  ASSUME NEW j \in Job
  PROVE  j.id \in Jobs /\ j.hold \in BOOLEAN /\ j.started \in BOOLEAN /\ j.prepared \in BOOLEAN
         /\ j.from \in Nat /\ j.state \in States
BY DEF Job

-----------------------------------------------------------------------------
(* Changes of the supervisor.                                              *)

LEMMA OntoKeeps ==
  ASSUME NEW h, NEW J, FiledOK(h, J), NEW j \in Job
  PROVE  /\ FiledOK(Onto(h, j), J)
         /\ Filed(h) \subseteq Filed(Onto(h, j)) /\ j.id \in Filed(Onto(h, j))
         /\ Onto(h, j).mem = h.mem /\ Onto(h, j).at = h.at /\ Onto(h, j).for = h.for
         /\ Onto(h, j).up = h.up
<1> DEFINE g == Onto(h, j)
<1>1. j.id \in Jobs /\ h \in Supervisor
  BY JobFields DEF FiledOK
<1>2. g \in Supervisor
  BY <1>1 DEF Onto, Supervisor
<1>3. g.mem = h.mem /\ g.at = h.at /\ g.for = h.for /\ g.up = h.up
  BY <1>1 DEF Onto, Supervisor
<1>4. g.journal = [h.journal EXCEPT ![j.id] = j]
  BY <1>1 DEF Onto, Supervisor
<1>5. h.journal \in [Jobs -> Job \cup {NoJob}]
  BY <1>1 DEF Supervisor
<1> HIDE DEF g
<1>6. \A k \in Jobs : g.journal[k] = IF k = j.id THEN j ELSE h.journal[k]
  BY <1>4, <1>5
<1>7. Filed(h) \subseteq Filed(g) /\ j.id \in Filed(g)
  BY <1>1, <1>6 DEF Filed
<1>8. FiledOK(g, J)
  BY <1>2, <1>3, <1>6, <1>7 DEF FiledOK
<1> QED
  BY <1>3, <1>7, <1>8 DEF g

LEMMA AwaitKeeps ==
  ASSUME NEW h, NEW J, FiledOK(h, J), NEW a \in Awaits
  PROVE  /\ FiledOK(Await(h, a), J) /\ Filed(Await(h, a)) = Filed(h)
         /\ Await(h, a).mem = h.mem /\ Await(h, a).at = a /\ Await(h, a).up = h.up
         /\ a # "idle" => Await(h, a).for = h.for
<1> DEFINE g == Await(h, a)
<1>1. h \in Supervisor
  BY DEF FiledOK
<1>2. g \in Supervisor /\ g.mem = h.mem /\ g.at = a /\ g.up = h.up /\ g.journal = h.journal
  BY <1>1 DEF Await, Supervisor
<1>3. a # "idle" => g.for = h.for
  BY <1>1 DEF Await, Supervisor
<1> HIDE DEF g
<1>4. Filed(g) = Filed(h)
  BY <1>2 DEF Filed
<1> QED
  BY <1>2, <1>3, <1>4 DEF FiledOK, g

LEMMA IdleKeeps ==
  ASSUME NEW h, NEW J, FiledOK(h, J)
  PROVE  SupOK(Idle(h), J) /\ Idle(h).mem = h.mem
BY AwaitKeeps DEF Idle, Awaits, SupOK

LEMMA ExitedKeeps ==
  ASSUME NEW h, NEW J, FiledOK(h, J)
  PROVE  SupOK(Exited(h), J) /\ ~Works(Exited(h))
<1> DEFINE i == Idle(h)
           g == Exited(h)
<1>1. FiledOK(i, J) /\ i.at = "idle"
  BY AwaitKeeps DEF Idle, Awaits
<1>2. g = [i EXCEPT !.mem = NoJob, !.stopped = FALSE, !.up = FALSE]
  BY DEF Exited
<1> HIDE DEF i
<1>3. g \in Supervisor /\ g.mem = NoJob /\ g.at = "idle" /\ ~g.up /\ g.journal = i.journal
  BY <1>1, <1>2 DEF FiledOK, Supervisor
<1> HIDE DEF g
<1>4. Filed(g) = Filed(i)
  BY <1>3 DEF Filed
<1> QED
  BY <1>1, <1>3, <1>4 DEF SupOK, FiledOK, Works, Unsettled, g

\* A job of the journal becomes the supervisor's own.
LEMMA MemKeeps ==
  ASSUME NEW h, NEW J, FiledOK(h, J), NEW j \in Job, j.id \in Filed(h)
  PROVE  /\ FiledOK([h EXCEPT !.mem = j], J) /\ Filed([h EXCEPT !.mem = j]) = Filed(h)
         /\ [h EXCEPT !.mem = j].mem = j /\ [h EXCEPT !.mem = j].at = h.at
         /\ [h EXCEPT !.mem = j].for = h.for /\ [h EXCEPT !.mem = j].up = h.up
<1> DEFINE g == [h EXCEPT !.mem = j]
<1>1. h \in Supervisor
  BY DEF FiledOK
<1>2. /\ g \in Supervisor /\ g.mem = j /\ g.at = h.at /\ g.for = h.for /\ g.up = h.up
      /\ g.journal = h.journal
  BY <1>1 DEF Supervisor
<1> HIDE DEF g
<1>3. Filed(g) = Filed(h)
  BY <1>2 DEF Filed
<1> QED
  BY <1>2, <1>3 DEF FiledOK, g

LEMMA WrittenKeeps ==
  ASSUME NEW h, NEW J, FiledOK(h, J), NEW j \in Job, NEW g \in Written(h, j)
  PROVE  /\ FiledOK(g, J) /\ Filed(h) \subseteq Filed(g)
         /\ g.mem = j /\ g.at = h.at /\ g.for = h.for /\ g.up = h.up
<1>1. CASE g = [Onto(h, j) EXCEPT !.mem = j]
  <2> DEFINE o == Onto(h, j)
  <2>1. /\ FiledOK(o, J) /\ Filed(h) \subseteq Filed(o) /\ j.id \in Filed(o)
        /\ o.at = h.at /\ o.for = h.for /\ o.up = h.up
    BY OntoKeeps
  <2> HIDE DEF o
  <2>2. g = [o EXCEPT !.mem = j]
    BY <1>1 DEF o
  <2> QED
    BY <2>1, <2>2, MemKeeps
<1>2. CASE g = h /\ j = h.mem
  BY <1>2
<1> QED
  BY <1>1, <1>2 DEF Written

LEMMA BrokenKeeps ==
  ASSUME NEW h, NEW J, FiledOK(h, J), NEW j \in Job, NEW g \in Broken(h, j)
  PROVE  /\ FiledOK(g, J) /\ Filed(h) \subseteq Filed(g)
         /\ g.mem = h.mem /\ g.at = h.at /\ g.for = h.for /\ g.up = h.up
BY OntoKeeps DEF Broken

\* A save of the supervisor outside of its function, whether it throws or not.
LEMMA SavedKeeps ==
  ASSUME NEW h, NEW J, SupOK(h, J), NEW j \in Job, NEW g \in Written(h, j) \cup Broken(h, j)
  PROVE  SupOK(g, J) /\ g.up = h.up /\ g.at = h.at /\ g.mem \in {j, h.mem}
<1>1. FiledOK(h, J)
  BY DEF SupOK
<1>2. /\ FiledOK(g, J) /\ Filed(h) \subseteq Filed(g)
      /\ g.mem \in {j, h.mem} /\ g.at = h.at /\ g.for = h.for /\ g.up = h.up
  BY <1>1, WrittenKeeps, BrokenKeeps
<1> QED
  BY <1>2 DEF SupOK

-----------------------------------------------------------------------------
(* The asynchronous function.                                              *)

LEMMA FailsKeeps ==
  ASSUME NEW h, NEW J, Ready(h, J), NEW g \in Fails(h)
  PROVE  SupOK(g, J)
<1> DEFINE j == [h.mem EXCEPT !.state = "failed", !.hold = h.mem.started]
<1>1. FiledOK(h, J) /\ j \in Job
  BY JobFields, JobStateHold DEF Ready, States, Terminal
<1> HIDE DEF j
<1>2. CASE \E w \in Written(h, j) : g = Idle(w)
  BY <1>1, <1>2, WrittenKeeps, IdleKeeps
<1>3. CASE \E w \in Broken(h, j) : g = Exited(w)
  BY <1>1, <1>3, BrokenKeeps, ExitedKeeps
<1>4. CASE g = Idle(h)
  BY <1>1, <1>4, IdleKeeps
<1>5. \/ \E w \in Written(h, j) : g = Idle(w)
      \/ \E w \in Broken(h, j) : g = Exited(w)
      \/ g = Idle(h)
  BY DEF Fails, j
<1> QED
  BY <1>2, <1>3, <1>4, <1>5

LEMMA ChangeKeeps ==
  ASSUME NEW h, NEW J, Ready(h, J), NEW j \in Job, NEW a \in Awaits, NEW g \in Change(h, j, a)
  PROVE  SupOK(g, J)
<1>1. CASE \E w \in Written(h, j) : g = Await(w, a)
  <2>1. PICK w \in Written(h, j) : g = Await(w, a)
    BY <1>1
  <2>2. FiledOK(w, J) /\ w.mem = j /\ w.for \in Filed(w) /\ w.up
    BY WrittenKeeps DEF Ready
  <2>3. /\ FiledOK(g, J) /\ Filed(g) = Filed(w) /\ g.mem = j /\ g.at = a /\ g.up
        /\ a # "idle" => g.for = w.for
    BY <2>1, <2>2, AwaitKeeps
  <2> QED
    BY <2>2, <2>3 DEF SupOK
<1>2. CASE \E w \in Broken(h, j) : g \in Fails(w)
  <2>1. PICK w \in Broken(h, j) : g \in Fails(w)
    BY <1>2
  <2>2. Ready(w, J)
    BY BrokenKeeps DEF Ready
  <2> QED
    BY <2>1, <2>2, FailsKeeps
<1> QED
  BY <1>1, <1>2 DEF Change

LEMMA WaitsKeeps ==
  ASSUME NEW h, NEW J, Ready(h, J), NEW g \in Waits(h)
  PROVE  SupOK(g, J)
BY JobState, ChangeKeeps DEF Waits, Ready, States, Preparing, Awaits

LEMMA UnverifiedKeeps ==
  ASSUME NEW h, NEW J, Ready(h, J), NEW e, NEW g \in Unverified(h, e)
  PROVE  SupOK(g, J)
<1>1. CASE e.feed = "checking"
  BY <1>1, IdleKeeps DEF Unverified, Ready
<1>2. CASE e.feed # "checking"
  BY <1>2, JobStateHold, ChangeKeeps DEF Unverified, Ready, States, Terminal, Awaits
<1> QED
  BY <1>1, <1>2

LEMMA QualifyKeeps ==
  ASSUME NEW h, NEW J, Ready(h, J), NEW e, NEW g \in Qualify(h, e)
  PROVE  SupOK(g, J)
<1>1. FiledOK(h, J) /\ SupOK(Idle(h), J)
  BY IdleKeeps DEF Ready
<1>2. SupOK(Await(h, "preflight"), J)
  BY AwaitKeeps DEF Ready, SupOK, Awaits
<1>3. g = Idle(h) \/ g \in Waits(h) \/ g = Await(h, "preflight")
  BY DEF Qualify
<1> QED
  BY <1>1, <1>2, <1>3, WaitsKeeps

LEMMA AdvanceKeeps ==
  ASSUME NEW h, NEW J, Ready(h, J), NEW e, NEW g \in Advance(h, e)
  PROVE  SupOK(g, J)
<1> DEFINE j == [h.mem EXCEPT !.state = "downloading"]
<1>1. SupOK(Await(h, "reconcile"), J)
  BY AwaitKeeps DEF Ready, SupOK, Awaits
<1>2. j \in Job /\ "prepare" \in Awaits
  BY JobState DEF Ready, States, Preparing, Awaits
<1>3. \/ g = Await(h, "reconcile") \/ g \in Unverified(h, e) \/ g \in Fails(h)
      \/ g \in Waits(h) \/ g \in Qualify(h, e) \/ g \in Change(h, j, "prepare")
  BY DEF Advance
<1> HIDE DEF j
<1> QED
  BY <1>1, <1>2, <1>3, UnverifiedKeeps, FailsKeeps, WaitsKeeps, QualifyKeeps, ChangeKeeps

\* The function is started only while no other authority is active.
LEMMA KickKeeps ==
  ASSUME NEW h, NEW J, SupOK(h, J), h.up, NEW e, NEW busy, NEW g \in Kick(h, e, busy)
  PROVE  SupOK(g, J) /\ (g = h \/ ~busy)
<1> DEFINE k == [h EXCEPT !.for = h.mem.id]
<1>1. CASE h.at # "idle" \/ h.stopped \/ busy \/ ~Restless(h.mem)
  BY <1>1 DEF Kick
<1>2. CASE ~(h.at # "idle" \/ h.stopped \/ busy \/ ~Restless(h.mem))
  <2>1. FiledOK(h, J) /\ h \in Supervisor /\ h.mem \in Job /\ h.mem.id \in Filed(h)
    BY <1>2 DEF Restless, SupOK, FiledOK, Supervisor
  <2>2. h.mem.id \in Jobs
    BY <2>1, JobFields
  <2>3. /\ k \in Supervisor /\ k.mem = h.mem /\ k.journal = h.journal /\ k.up = h.up
        /\ k.for = h.mem.id
    BY <2>1, <2>2 DEF Supervisor
  <2>4. g \in Advance(k, e)
    BY <1>2 DEF Kick
  <2> HIDE DEF k
  <2>5. Filed(k) = Filed(h)
    BY <2>3 DEF Filed
  <2>6. Ready(k, J)
    BY <2>1, <2>3, <2>5 DEF Ready, FiledOK
  <2> QED
    BY <1>2, <2>4, <2>6, AdvanceKeeps
<1> QED
  BY <1>1, <1>2

-----------------------------------------------------------------------------
(* Requests: besides their shape, that they make an idle supervisor work   *)
(* only when no other authority is active.                                 *)

LEMMA HeardKeeps ==
  ASSUME NEW h, NEW J, SupOK(h, J), h.up, NEW e, NEW busy \in BOOLEAN, NEW g \in Heard(h, e, busy)
  PROVE  SupOK(g, J) /\ (Works(g) /\ busy => Works(h))
<1> DEFINE j == [h.mem EXCEPT !.hold = FALSE, !.state = "waiting"]
<1>1. CASE h.mem # NoJob /\ h.mem.hold
  <2>1. Works(h) /\ h.mem \in Job
    BY <1>1 DEF Works, Unsettled, SupOK, FiledOK, Supervisor
  <2>2. j \in Job
    BY <2>1, JobStateHold DEF States, Preparing
  <2>3. \/ \E w \in Written(h, j) : g \in Kick(w, e, busy)
        \/ g \in Broken(h, j)
        \/ g \in Kick(h, e, busy)
    BY DEF Heard
  <2> HIDE DEF j
  <2>4. ASSUME NEW w \in Written(h, j) \cup Broken(h, j) PROVE SupOK(w, J) /\ w.up
    BY <2>2, SavedKeeps
  <2> QED
    BY <2>1, <2>3, <2>4, KickKeeps
<1>2. CASE ~(h.mem # NoJob /\ h.mem.hold)
  BY <1>2, KickKeeps DEF Heard
<1> QED
  BY <1>1, <1>2

LEMMA ReplayedKeeps ==
  ASSUME NEW h, NEW J, SupOK(h, J), h.up, NEW e, NEW k \in Jobs, NEW busy \in BOOLEAN,
         h.journal[k] # NoJob, NEW g \in Replayed(h, e, k, busy)
  PROVE  SupOK(g, J)
<1> DEFINE j == h.journal[k]
           r == [h EXCEPT !.mem = j]
<1>1. CASE h.at = "idle" /\ g \in Kick(r, e, busy)
  <2>1. FiledOK(h, J) /\ j \in Job /\ j.id = k
    BY DEF SupOK, FiledOK, Supervisor
  <2>2. j.id \in Filed(h)
    BY <2>1 DEF Filed
  <2> HIDE DEF j
  <2>3. FiledOK(r, J) /\ r.at = "idle" /\ r.up
    BY <1>1, <2>1, <2>2, MemKeeps
  <2> HIDE DEF r
  <2> QED
    BY <1>1, <2>3, KickKeeps DEF SupOK
<1>2. g = h \/ (h.at = "idle" /\ g \in Kick(r, e, busy))
  BY DEF Replayed
<1> QED
  BY <1>1, <1>2

LEMMA RequestedKeeps ==
  ASSUME NEW h, NEW J, SupOK(h, J), h.up, NEW e \in Envs, NEW k \in Jobs, NEW when,
         NEW busy \in BOOLEAN, NEW g \in Requested(h, e, k, when, busy)
  PROVE  SupOK(g, J) /\ (Works(g) /\ busy => Works(h))
<1> DEFINE j == [id |-> k, epoch |-> e.beat.epoch, from |-> e.selected, release |-> e.feed,
                 state |-> "waiting", hold |-> FALSE, started |-> FALSE, prepared |-> FALSE]
<1>1. CASE busy
  BY <1>1 DEF Requested
<1>2. CASE ~busy /\ h.journal[k] # NoJob
  BY <1>2, ReplayedKeeps DEF Requested
<1>3. CASE ~busy /\ h.journal[k] = NoJob /\ e.beat # NoBeat /\ e.feed \in Revisions
  <2>1. e.beat \in Beat /\ e.selected \in Nat
    BY <1>3 DEF Envs
  <2>2. e.beat.epoch \in Epochs
    BY <2>1 DEF Beat
  <2>3. j \in Job
    BY <1>3, <2>1, <2>2 DEF Job, States, Preparing
  <2>4. \/ g = h
        \/ \E w \in Written(h, j) : g \in Kick(w, e, busy)
        \/ g \in Broken(h, j)
    BY <1>3 DEF Requested
  <2> HIDE DEF j
  <2>5. ASSUME NEW w \in Written(h, j) \cup Broken(h, j) PROVE SupOK(w, J) /\ w.up
    BY <2>3, SavedKeeps
  <2> QED
    BY <1>3, <2>4, <2>5, KickKeeps
<1>4. CASE ~busy /\ h.journal[k] = NoJob /\ ~(e.beat # NoBeat /\ e.feed \in Revisions)
  BY <1>4 DEF Requested
<1> QED
  BY <1>1, <1>2, <1>3, <1>4

LEMMA CancelledKeeps ==
  ASSUME NEW h, NEW J, SupOK(h, J), NEW k, NEW g \in Cancelled(h, k)
  PROVE  SupOK(g, J) /\ (Works(g) => Works(h))
<1> DEFINE j == [h.mem EXCEPT !.state = "cancelled", !.hold = FALSE]
<1>1. CASE g = h
  BY <1>1
<1>2. CASE h.mem # NoJob /\ g \in Written(h, j) \cup Broken(h, j)
  <2>1. h.mem \in Job
    BY <1>2 DEF SupOK, FiledOK, Supervisor
  <2>2. j \in Job
    BY <2>1, JobStateHold DEF States, Terminal
  <2>3. j.state = "cancelled" /\ j.hold = FALSE
    BY <2>1 DEF Job
  <2> HIDE DEF j
  <2>4. SupOK(g, J) /\ g.at = h.at /\ g.mem \in {j, h.mem}
    BY <1>2, <2>2, SavedKeeps
  <2> QED
    BY <2>3, <2>4 DEF Works, Unsettled, Terminal
<1> QED
  BY <1>1, <1>2 DEF Cancelled

-----------------------------------------------------------------------------
(* What follows each await.                                                *)

LEMMA PreparedKeeps ==
  ASSUME NEW h, NEW J, Ready(h, J), NEW e, NEW g \in Prepared(h, e)
  PROVE  SupOK(g, J)
<1> DEFINE j == [h.mem EXCEPT !.state = "verifying", !.prepared = TRUE]
<1>1. FiledOK(h, J) /\ j \in Job
  BY JobPrepared DEF Ready, States, Preparing
<1>2. \/ g = Idle(h) \/ \E w \in Written(h, j) : g \in Qualify(w, e)
      \/ \E w \in Broken(h, j) : g \in Fails(w)
  BY DEF Prepared
<1> HIDE DEF j
<1>3. ASSUME NEW w \in Written(h, j) PROVE Ready(w, J)
  BY <1>1, WrittenKeeps DEF Ready
<1>4. ASSUME NEW w \in Broken(h, j) PROVE Ready(w, J)
  BY <1>1, BrokenKeeps DEF Ready
<1> QED
  BY <1>1, <1>2, <1>3, <1>4, IdleKeeps, QualifyKeeps, FailsKeeps

LEMMA QualifiedKeeps ==
  ASSUME NEW h, NEW J, Ready(h, J), NEW e, NEW g \in Qualified(h, e)
  PROVE  SupOK(g, J)
<1> DEFINE j1 == [h.mem EXCEPT !.state = "waiting", !.hold = TRUE]
           j2 == [h.mem EXCEPT !.state = "preparing", !.started = TRUE]
<1>1. FiledOK(h, J) /\ j1 \in Job /\ j2 \in Job /\ {"idle", "run"} \subseteq Awaits
  BY JobStateHold, JobPrepared DEF Ready, States, Preparing, Awaits
<1>2. \/ g = Idle(h) \/ g \in Waits(h) \/ g \in Unverified(h, e) \/ g \in Fails(h)
      \/ g \in Change(h, j1, "idle") \/ g \in Change(h, j2, "run")
  BY DEF Qualified
<1> HIDE DEF j1, j2
<1> QED
  BY <1>1, <1>2, IdleKeeps, WaitsKeeps, UnverifiedKeeps, FailsKeeps, ChangeKeeps

LEMMA AcceptedKeeps ==
  ASSUME NEW h, NEW J, Ready(h, J), NEW e, NEW v \in {"completed", "restored", "unchanged"},
         NEW g \in Accepted(h, e, v)
  PROVE  SupOK(g, J)
<1> DEFINE s == IF v = "unchanged" THEN "failed" ELSE v
           j == [h.mem EXCEPT !.state = s, !.hold = FALSE]
<1>1. s \in States
  BY DEF States, Terminal
<1>2. g = Idle(h) \/ g \in Fails(h) \/ g \in Change(h, j, "idle")
  BY DEF Accepted
<1> HIDE DEF s
<1>3. FiledOK(h, J) /\ j \in Job /\ "idle" \in Awaits
  BY <1>1, JobStateHold DEF Ready, Awaits
<1> HIDE DEF j
<1> QED
  BY <1>2, <1>3, IdleKeeps, FailsKeeps, ChangeKeeps

LEMMA ReconciledKeeps ==
  ASSUME NEW h, NEW J, Ready(h, J), NEW e, NEW v \in {"none", "completed", "restored", "unchanged"},
         NEW g \in Reconciled(h, e, v)
  PROVE  SupOK(g, J)
<1>1. CASE v = "none"
  BY <1>1, JobStateHold, ChangeKeeps DEF Reconciled, Ready, States, Terminal, Awaits
<1>2. CASE v # "none"
  BY <1>2, AcceptedKeeps DEF Reconciled
<1> QED
  BY <1>1, <1>2

LEMMA ReportedKeeps ==
  ASSUME NEW h, NEW J, SupOK(h, J), NEW k, NEW s \in States, NEW g \in Reported(h, k, s)
  PROVE  SupOK(g, J) /\ g.up = h.up /\ (Works(g) => Works(h))
<1> DEFINE j == [h.mem EXCEPT !.state = s]
<1>1. CASE g = h
  BY <1>1
<1>2. CASE h.at = "run" /\ g \in Written(h, j) \cup Broken(h, j)
  <2>1. j \in Job
    BY <1>2, JobState DEF SupOK
  <2> HIDE DEF j
  <2>2. SupOK(g, J) /\ g.up = h.up
    BY <1>2, <2>1, SavedKeeps
  <2> QED
    BY <1>2, <2>2 DEF Works
<1> QED
  BY <1>1, <1>2 DEF Reported

-----------------------------------------------------------------------------
(* The host.                                                               *)

\* The jobs an installer was launched for.
Launched == {k \in Jobs : runner[k] # "none"}

\* Their jobs are in the journal, and whatever the supervisor awaits, it has a
\* job for it: what makes the two properties inductive.
Inv == TypeOK /\ SupOK(host, Launched) /\ OneAuthority

-----------------------------------------------------------------------------
(* The leases.                                                             *)

LEMMA OperatorSaves ==
  ASSUME NEW l \in OperatorLeases, NEW r \in Maintenance, NEW g \in Saves(l, r)
  PROVE  g \in OperatorLeases
<1> DEFINE d == [l EXCEPT !.disk[r.id] = r, !.current = r.id]
<1>1. r.id \in Maintenances
  BY DEF Maintenance
<1>2. d \in OperatorLeases
  BY <1>1 DEF OperatorLeases
<1>3. g = [d EXCEPT !.mem = r] \/ g = [d EXCEPT !.uncertain = TRUE] \/ g = [l EXCEPT !.uncertain = TRUE]
  BY DEF Saves
<1> HIDE DEF d
<1> QED
  BY <1>2, <1>3 DEF OperatorLeases

LEMMA FrontendSaves ==
  ASSUME NEW l \in FrontendLeases, NEW r \in Switch, NEW g \in Saves(l, r)
  PROVE  g \in FrontendLeases
<1> DEFINE d == [l EXCEPT !.disk[r.id] = r, !.current = r.id]
<1>1. r.id \in Switches
  BY DEF Switch
<1>2. d \in FrontendLeases
  BY <1>1 DEF FrontendLeases
<1>3. g = [d EXCEPT !.mem = r] \/ g = [d EXCEPT !.uncertain = TRUE] \/ g = [l EXCEPT !.uncertain = TRUE]
  BY DEF Saves
<1> HIDE DEF d
<1> QED
  BY <1>2, <1>3 DEF FrontendLeases

LEMMA LoadedKeeps ==
  /\ \A l \in OperatorLeases : Loaded(l) \in OperatorLeases /\ Forgotten(l) \in OperatorLeases
  /\ \A l \in FrontendLeases : Loaded(l) \in FrontendLeases /\ Forgotten(l) \in FrontendLeases
BY DEF Loaded, Forgotten, OperatorLeases, FrontendLeases

LEMMA MaintenancePhase ==
  ASSUME NEW r \in Maintenance, NEW p \in Phases
  PROVE  /\ [r EXCEPT !.phase = p] \in Maintenance
         /\ [r EXCEPT !.phase = p, !.stopMarked = TRUE] \in Maintenance
         /\ [r EXCEPT !.phase = p, !.releaseKind = "cancelled"] \in Maintenance
         /\ [r EXCEPT !.phase = p, !.releaseKind = "proved"] \in Maintenance
BY DEF Maintenance

\* A heartbeat makes no lease active.
LEMMA ObservedKeeps ==
  ASSUME NEW l \in OperatorLeases, NEW e, NEW g \in Observed(l, e)
  PROVE  g \in OperatorLeases /\ (OperatorActive(g) => OperatorActive(l))
<1>1. CASE l.uncertain \/ ~Open(l.mem)
  BY <1>1 DEF Observed
<1>2. CASE ~l.uncertain /\ Open(l.mem)
  <2>1. l.mem \in Maintenance
    BY <1>2 DEF Open, OperatorLeases
  <2>2. g = l \/ \E p \in Phases : g \in Saves(l, [l.mem EXCEPT !.phase = p])
    BY <1>2 DEF Observed, Conclusions, Phases
  <2> QED
    BY <1>2, <2>1, <2>2, MaintenancePhase, OperatorSaves DEF OperatorActive
<1> QED
  BY <1>1, <1>2

\* The operator's requests change the lease only when nothing else is active.
LEMMA OperatedKeeps ==
  ASSUME NEW l \in OperatorLeases, NEW e \in Envs, NEW i \in Maintenances, NEW epoch \in Epochs,
         NEW idle \in BOOLEAN,
         NEW g \in Entered(l, e, i, epoch, idle) \cup Marked(l, e, i, idle)
                     \cup OperatorCancelled(l, e, i, idle) \cup Released(l, e, i, idle)
  PROVE  g \in OperatorLeases /\ (g = l \/ idle)
<1> DEFINE n == [id |-> i, candidate |-> e.selected, epoch |-> epoch, phase |-> "entered",
                 stopMarked |-> FALSE, releaseKind |-> "none"]
<1>1. n \in Maintenance
  BY DEF Envs, Maintenance, Phases
<1>2. CASE g \in Entered(l, e, i, epoch, idle)
  BY <1>1, <1>2, OperatorSaves DEF Entered
<1>3. ASSUME idle, Owned(l, e, i) PROVE l.mem \in Maintenance
  BY <1>3 DEF Owned, OperatorLeases
<1>4. CASE g \in Marked(l, e, i, idle)
  <2>1. g = l \/ (idle /\ Owned(l, e, i)
                   /\ \E p \in Allowed(l.mem) : g \in Saves(l, [l.mem EXCEPT !.phase = p, !.stopMarked = TRUE]))
    BY <1>4 DEF Marked
  <2>2. Allowed(l.mem) \subseteq Phases
    BY DEF Allowed, Phases
  <2> QED
    BY <1>3, <2>1, <2>2, MaintenancePhase, OperatorSaves
<1>5. CASE g \in OperatorCancelled(l, e, i, idle)
  BY <1>3, <1>5, MaintenancePhase, OperatorSaves DEF OperatorCancelled, Phases
<1>6. CASE g \in Released(l, e, i, idle)
  BY <1>3, <1>6, MaintenancePhase, OperatorSaves DEF Released, Phases
<1> QED
  BY <1>2, <1>4, <1>5, <1>6

\* A frontend's lease becomes active only when nothing else is.
LEMMA SwitchedKeeps ==
  ASSUME NEW l \in FrontendLeases, NEW e \in Envs, NEW i \in Switches, NEW epoch \in Epochs,
         NEW idle \in BOOLEAN,
         NEW g \in Begun(l, e, i, epoch, idle) \cup Ended(l, e, i)
                     \cup CancelledBeforeBegin(l, e, i, epoch, idle)
  PROVE  g \in FrontendLeases /\ (FrontendActive(g) => FrontendActive(l) \/ idle)
<1> DEFINE n(b) == [id |-> i, candidate |-> e.selected, epoch |-> epoch, active |-> b]
<1>1. \A b \in BOOLEAN : n(b) \in Switch
  BY DEF Envs, Switch
<1>2. CASE g \in Begun(l, e, i, epoch, idle)
  BY <1>1, <1>2, FrontendSaves DEF Begun
<1>3. CASE g \in CancelledBeforeBegin(l, e, i, epoch, idle)
  BY <1>1, <1>3, FrontendSaves DEF CancelledBeforeBegin
<1>4. CASE g \in Ended(l, e, i)
  <2>1. CASE g = l
    BY <2>1
  <2>2. CASE l.mem # NoLease /\ l.mem.active /\ g \in Saves(l, [l.mem EXCEPT !.active = FALSE])
    <3>1. l.mem \in Switch
      BY <2>2 DEF FrontendLeases
    <3>2. [l.mem EXCEPT !.active = FALSE] \in Switch
      BY <3>1 DEF Switch
    <3> QED
      BY <2>2, <3>2, FrontendSaves DEF FrontendActive
  <2> QED
    BY <1>4, <2>1, <2>2 DEF Ended
<1> QED
  BY <1>2, <1>3, <1>4

-----------------------------------------------------------------------------
(* The controller's steps.                                                 *)

LEMMA EnvTyped ==
  ASSUME TypeOK
  PROVE  Env \in Envs /\ Busy \in BOOLEAN /\ (Installing <=> Works(host))
BY DEF TypeOK, Env, Envs, Busy, Installing, Works, OperatorActive, FrontendActive, OperatorLeases,
       FrontendLeases, Open

\* A step of the supervisor that begins to work only when nothing else does.
LEMMA SuperviseKeeps ==
  ASSUME Inv, NEW hs, Supervise(hs), SupOK(host', Launched),
         Works(host') /\ Busy => Works(host)
  PROVE  Inv'
<1>1. host' \in Supervisor /\ Launched' = Launched
  BY DEF SupOK, FiledOK, Supervise, installer, Launched
<1>2. TypeOK'
  BY <1>1, LoadedKeeps DEF Inv, TypeOK, Supervise, Remembers, installer
<1>3. OneAuthority'
  BY DEF Inv, OneAuthority, Installing, Works, Busy, Supervise, Remembers
<1> QED
  BY <1>1, <1>2, <1>3 DEF Inv

\* A heartbeat of any content starts no job beside another authority.
LEMMA HearsKeeps ==
  ASSUME Inv, NEW b \in Beat, Hears(b)
  PROVE  Inv'
<1> DEFINE e == [Env EXCEPT !.beat = b, !.fresh = TRUE]
<1>1. /\ host.up
      /\ \E o \in Observed(operator, e) :
           /\ host' \in IF o.uncertain THEN {host}
                        ELSE Heard(host, e, OperatorActive(o) \/ FrontendActive(frontend))
           /\ Remembers(o, b, TRUE)
      /\ UNCHANGED <<feed, installer>>
  BY DEF Hears
<1>2. PICK o \in Observed(operator, e) :
         /\ host' \in IF o.uncertain THEN {host}
                      ELSE Heard(host, e, OperatorActive(o) \/ FrontendActive(frontend))
         /\ Remembers(o, b, TRUE)
  BY <1>1
<1>3. o \in OperatorLeases /\ (OperatorActive(o) => OperatorActive(operator))
  BY <1>2, ObservedKeeps DEF Inv, TypeOK
<1> DEFINE busy == OperatorActive(o) \/ FrontendActive(frontend)
<1>5. busy \in BOOLEAN
  BY <1>3 DEF OperatorActive, FrontendActive, OperatorLeases, FrontendLeases, Open, Inv, TypeOK
<1>6. host' = host \/ host' \in Heard(host, e, busy)
  BY <1>2
<1> HIDE DEF e, busy
<1>7. SupOK(host', Launched) /\ (Works(host') /\ busy => Works(host))
  BY <1>1, <1>5, <1>6, HeardKeeps DEF Inv
<1>8. Launched' = Launched /\ host' \in Supervisor
  BY <1>1, <1>7 DEF Launched, installer, SupOK, FiledOK
<1>9. TypeOK'
  BY <1>1, <1>2, <1>3, <1>8, LoadedKeeps DEF Inv, TypeOK, Remembers, installer
<1>10. OneAuthority'
  BY <1>1, <1>2, <1>3, <1>7 DEF busy, Inv, OneAuthority, Installing, Works, Busy, Remembers
<1> QED
  BY <1>7, <1>8, <1>9, <1>10 DEF Inv

LEMMA HeartbeatKeeps ==
  ASSUME Inv, Heartbeat
  PROVE  Inv'
<1>1. PICK b \in [candidate : {selected}, epoch : Epochs, native : BOOLEAN,
            heldFor : {None} \cup {k \in Jobs : host.journal[k] # NoJob}
                             \cup {i \in Maintenances : operator.disk[i] # NoLease},
            blockers : {"none", "work", "switch"}] : Hears(b)
  BY DEF Heartbeat
<1>4. b \in Beat
  BY <1>1 DEF Beat, Inv, TypeOK
<1> QED
  BY <1>1, <1>4, HearsKeeps

\* The steps of the supervisor that answer nobody.
LEMMA FunctionKeeps ==
  ASSUME Inv, Poll \/ PrepareReturns \/ Progress \/ PreflightReturns \/ ReconcileReturns
                \/ AwaitFails \/ RunReturns
  PROVE  Inv'
<1>1. CASE Poll
  <2>1. host' \in Kick(host, Env, Busy) /\ host.up
    BY <1>1 DEF Poll, Supervise
  <2>2. SupOK(host', Launched) /\ (host' = host \/ ~Busy)
    BY <2>1, KickKeeps DEF Inv
  <2> QED
    BY <1>1, <2>2, SuperviseKeeps DEF Poll
<1>2. ASSUME host.at # "idle" PROVE Ready(host, Launched) /\ Works(host)
  BY <1>2 DEF Inv, SupOK, Ready, Works
<1>3. CASE PrepareReturns
  <2>1. host' \in Prepared(host, Env) /\ host.at # "idle"
    BY <1>3 DEF PrepareReturns, Supervise
  <2> QED
    BY <1>2, <1>3, <2>1, PreparedKeeps, SuperviseKeeps DEF PrepareReturns
<1>4. CASE Progress
  <2>1. host' \in Change(host, host.mem, "prepare") /\ host.at # "idle"
    BY <1>4 DEF Progress, Supervise
  <2>2. host.mem \in Job /\ "prepare" \in Awaits
    BY <1>2, <2>1 DEF Ready, Awaits
  <2> QED
    BY <1>2, <1>4, <2>1, <2>2, ChangeKeeps, SuperviseKeeps DEF Progress
<1>5. CASE PreflightReturns
  <2>1. host' \in Qualified(host, Env) /\ host.at # "idle"
    BY <1>5 DEF PreflightReturns, Supervise
  <2> QED
    BY <1>2, <1>5, <2>1, QualifiedKeeps, SuperviseKeeps DEF PreflightReturns
<1>6. CASE ReconcileReturns
  <2>1. host' \in Reconciled(host, Env, verdict[host.for]) /\ host.at # "idle"
    BY <1>6 DEF ReconcileReturns, Supervise
  <2>2. verdict[host.for] \in {"none", "completed", "restored", "unchanged"}
    BY <1>2, <2>1 DEF Ready, Filed, Inv, TypeOK, Verdicts
  <2> QED
    BY <1>2, <1>6, <2>1, <2>2, ReconciledKeeps, SuperviseKeeps DEF ReconcileReturns
<1>7. CASE AwaitFails
  <2>1. host' \in Fails(host) /\ host.at # "idle"
    BY <1>7 DEF AwaitFails, Supervise
  <2> QED
    BY <1>2, <1>7, <2>1, FailsKeeps, SuperviseKeeps DEF AwaitFails
<1>8. CASE RunReturns
  <2>1. host' \in Accepted(host, Env, verdict[host.for]) /\ host.at # "idle"
    BY <1>8 DEF RunReturns, Supervise
  <2>2. verdict[host.for] \in {"completed", "restored", "unchanged"}
    BY <1>2, <1>8, <2>1 DEF RunReturns, Ready, Filed, Inv, TypeOK, Verdicts
  <2> QED
    BY <1>2, <1>8, <2>1, <2>2, AcceptedKeeps, SuperviseKeeps DEF RunReturns
<1> QED
  BY <1>1, <1>3, <1>4, <1>5, <1>6, <1>7, <1>8

LEMMA RequestKeeps ==
  ASSUME Inv, Request \/ Cancel
  PROVE  Inv'
<1>1. CASE Request
  <2>1. PICK k \in Jobs, when \in {"now", "idle"} :
          Supervise(Requested(host, Env, k, when, Busy))
    BY <1>1 DEF Request
  <2>2. host' \in Requested(host, Env, k, when, Busy) /\ host.up
    BY <2>1 DEF Supervise
  <2>3. Env \in Envs /\ Busy \in BOOLEAN
    BY EnvTyped DEF Inv
  <2> QED
    BY <2>1, <2>2, <2>3, RequestedKeeps, SuperviseKeeps DEF Inv
<1>2. CASE Cancel
  <2>1. PICK k \in Jobs : Supervise(Cancelled(host, k))
    BY <1>2 DEF Cancel
  <2>2. host' \in Cancelled(host, k)
    BY <2>1 DEF Supervise
  <2> QED
    BY <2>1, <2>2, CancelledKeeps, SuperviseKeeps DEF Inv
<1> QED
  BY <1>1, <1>2

LEMMA OperateKeeps ==
  ASSUME Inv, Operate
  PROVE  Inv'
<1> DEFINE idle == ~Installing /\ ~FrontendActive(frontend)
<1>1. PICK i \in Maintenances, epoch \in Epochs :
        /\ operator' \in Entered(operator, Env, i, epoch, idle)
                           \cup Marked(operator, Env, i, idle)
                           \cup OperatorCancelled(operator, Env, i, idle)
                           \cup Released(operator, Env, i, idle)
        /\ UNCHANGED <<host, frontend, beat, fresh, feed, installer>>
  BY DEF Operate
<1>2. idle \in BOOLEAN /\ Env \in Envs /\ operator \in OperatorLeases
  BY EnvTyped DEF Inv, TypeOK
<1>3. operator' \in OperatorLeases /\ (operator' = operator \/ idle)
  <2> HIDE DEF idle
  <2> QED
    BY <1>1, <1>2, OperatedKeeps
<1>4. TypeOK' /\ Launched' = Launched
  BY <1>1, <1>3 DEF Inv, TypeOK, installer, Launched
<1>5. OneAuthority'
  BY <1>1, <1>3 DEF Inv, OneAuthority, Installing, Busy
<1> QED
  BY <1>1, <1>4, <1>5 DEF Inv

LEMMA SwitchKeeps ==
  ASSUME Inv, SwitchFrontend
  PROVE  Inv'
<1> DEFINE idle == ~Installing /\ ~OperatorActive(operator)
<1>1. PICK i \in Switches, epoch \in Epochs :
        /\ host.up
        /\ frontend' \in Begun(frontend, Env, i, epoch, idle)
                           \cup Ended(frontend, Env, i)
                           \cup CancelledBeforeBegin(frontend, Env, i, epoch, idle)
        /\ UNCHANGED <<host, operator, beat, fresh, feed, installer>>
  BY DEF SwitchFrontend
<1>2. idle \in BOOLEAN /\ Env \in Envs /\ frontend \in FrontendLeases
  BY EnvTyped DEF Inv, TypeOK
<1>3. /\ frontend' \in FrontendLeases
      /\ FrontendActive(frontend') => FrontendActive(frontend) \/ idle
  <2> HIDE DEF idle
  <2> QED
    BY <1>1, <1>2, SwitchedKeeps
<1>4. TypeOK' /\ Launched' = Launched
  BY <1>1, <1>3 DEF Inv, TypeOK, installer, Launched
<1>5. OneAuthority'
  BY <1>1, <1>3 DEF Inv, OneAuthority, Installing, Busy
<1> QED
  BY <1>1, <1>4, <1>5 DEF Inv

LEMMA RestartKeeps ==
  ASSUME Inv, Restart
  PROVE  Inv'
<1> DEFINE o == Loaded(operator)
           f == Loaded(frontend)
           j == IF host.current = None THEN NoJob ELSE host.journal[host.current]
<1>1. /\ ~host.up
      /\ OperatorActive(o) => ~FrontendActive(f) /\ ~Unsettled(j)
      /\ FrontendActive(f) => ~Unsettled(j)
      /\ host' = [host EXCEPT !.up = TRUE, !.mem = j]
      /\ operator' = o /\ frontend' = f
      /\ UNCHANGED <<beat, fresh, feed, installer>>
  BY DEF Restart
<1>2. o \in OperatorLeases /\ f \in FrontendLeases
  BY LoadedKeeps DEF Inv, TypeOK
<1>3. host \in Supervisor /\ host.at = "idle"
  BY <1>1 DEF Inv, SupOK, FiledOK
<1>4. j \in Job \cup {NoJob} /\ (j # NoJob => j.id \in Filed(host))
  BY <1>3 DEF Inv, SupOK, FiledOK, Supervisor, Filed
<1> HIDE DEF o, f, j
<1>5. /\ host' \in Supervisor /\ host'.mem = j /\ host'.at = "idle"
      /\ host'.journal = host.journal
  BY <1>1, <1>3, <1>4 DEF Supervisor
<1>6. Filed(host') = Filed(host) /\ Launched' = Launched
  BY <1>1, <1>5 DEF Filed, Launched, installer
<1>7. SupOK(host', Launched')
  BY <1>4, <1>5, <1>6 DEF Inv, SupOK, FiledOK
<1>8. TypeOK'
  BY <1>1, <1>2, <1>5 DEF Inv, TypeOK, installer
<1>9. OneAuthority'
  BY <1>1, <1>5 DEF OneAuthority, Installing, Busy
<1> QED
  BY <1>7, <1>8, <1>9 DEF Inv

\* What else happens to the controller and around it.
LEMMA LifeKeeps ==
  ASSUME Inv, Stale \/ Stop \/ Crash \/ Refresh
  PROVE  Inv'
<1>1. CASE Stale
  BY <1>1 DEF Stale, Inv, TypeOK, OneAuthority, Installing, Busy, Launched, installer
<1>2. CASE Refresh
  BY <1>2 DEF Refresh, Inv, TypeOK, OneAuthority, Installing, Busy, Launched, installer
<1>3. CASE Stop
  <2>1. host' = [host EXCEPT !.stopped = TRUE] /\ host \in Supervisor
    BY <1>3 DEF Stop, Supervise, Inv, SupOK, FiledOK
  <2>2. /\ host' \in Supervisor /\ host'.mem = host.mem /\ host'.at = host.at
        /\ host'.for = host.for /\ host'.up = host.up /\ host'.journal = host.journal
    BY <2>1 DEF Supervisor
  <2>3. Filed(host') = Filed(host)
    BY <2>2 DEF Filed
  <2>4. SupOK(host', Launched) /\ Works(host') = Works(host)
    BY <2>2, <2>3 DEF Inv, SupOK, FiledOK, Works
  <2> QED
    BY <1>3, <2>4, SuperviseKeeps DEF Stop
<1>4. CASE Crash
  <2>1. host' = Exited(host) /\ FiledOK(host, Launched)
    BY <1>4 DEF Crash, Supervise, Inv, SupOK
  <2>2. SupOK(host', Launched) /\ ~Works(host')
    BY <2>1, ExitedKeeps
  <2> QED
    BY <1>4, <2>2, SuperviseKeeps DEF Crash
<1> QED
  BY <1>1, <1>2, <1>3, <1>4

LEMMA LaunchKeeps ==
  ASSUME Inv, Launch
  PROVE  Inv'
<1>1. /\ host.at = "run" /\ runner' = [runner EXCEPT ![host.for] = "validating"]
      /\ UNCHANGED <<host, operator, frontend, beat, fresh, feed, selected, verdict>>
  BY DEF Launch
<1>2. SupOK(host, Launched) /\ host.for \in Filed(host) /\ host.for \in Jobs
  BY <1>1 DEF Inv, SupOK, Filed
<1>3. Launched' \subseteq Launched \cup {host.for}
  BY <1>1, <1>2 DEF Inv, TypeOK, Launched
<1>4. SupOK(host', Launched')
  BY <1>1, <1>2, <1>3 DEF SupOK, FiledOK
<1>5. TypeOK'
  BY <1>1, <1>2 DEF Inv, TypeOK, Stages
<1>6. OneAuthority'
  BY <1>1 DEF Inv, OneAuthority, Installing, Busy
<1> QED
  BY <1>4, <1>5, <1>6 DEF Inv

-----------------------------------------------------------------------------
(* The installer's steps.                                                  *)

\* An installer that is under way moves on; the supervisor may hear of it.
LEMMA MovesKeeps ==
  ASSUME Inv, NEW k \in Jobs, NEW from, NEW to \in Stages \ {"none"}, Moves(k, from, to),
         "none" \notin from, selected' \in Nat, verdict' \in [Jobs -> Verdicts],
         host' = host \/ \E s \in States : host' \in Reported(host, k, s)
  PROVE  Inv'
<1>1. /\ k \in Launched /\ runner' = [runner EXCEPT ![k] = to]
      /\ UNCHANGED <<operator, frontend, beat, fresh, feed>>
  BY DEF Moves, Launched
<1>2. Launched' = Launched
  BY <1>1 DEF Inv, TypeOK, Launched
<1>3. /\ SupOK(host', Launched) /\ host'.up = host.up
      /\ Works(host') => Works(host)
  BY ReportedKeeps DEF Inv
<1>4. TypeOK'
  BY <1>1, <1>3 DEF Inv, TypeOK, SupOK, FiledOK
<1>5. OneAuthority'
  BY <1>1, <1>3 DEF Inv, OneAuthority, Installing, Works, Busy
<1> QED
  BY <1>2, <1>3, <1>4, <1>5 DEF Inv

LEMMA SelectsNat ==
  ASSUME Inv, NEW k \in Jobs, runner[k] # "none", NEW n \in {0, 1}, Selects(k, n)
  PROVE  selected' \in Nat
<1>1. host.journal[k] \in Job
  BY DEF Inv, SupOK, FiledOK, Launched, Filed
<1>2. host.journal[k].from \in Nat
  BY <1>1, JobFields
<1> QED
  BY <1>2 DEF Selects

LEMMA RunnerKeeps ==
  ASSUME Inv, NEW k \in Jobs, Runner(k)
  PROVE  Inv'
<1>1. selected \in Nat /\ verdict \in [Jobs -> Verdicts] /\ runner \in [Jobs -> Stages]
  BY DEF Inv, TypeOK
<1>2. {"preparing", "installing", "checking"} \subseteq States
  BY DEF States
<1>3. CASE RunnerPrepares(k)
  BY <1>1, <1>2, <1>3, MovesKeeps DEF RunnerPrepares, Stages
<1>4. CASE RunnerAdmits(k)
  BY <1>1, <1>4, MovesKeeps DEF RunnerAdmits, Stages
<1>5. CASE RunnerStops(k)
  BY <1>1, <1>5, MovesKeeps DEF RunnerStops, Stages
<1>6. CASE RunnerSwitches(k)
  <2>1. selected' \in Nat
    BY <1>6, SelectsNat DEF RunnerSwitches, Moves
  <2> QED
    BY <1>1, <1>2, <1>6, <2>1, MovesKeeps DEF RunnerSwitches, Stages
<1>7. CASE RunnerChecks(k)
  BY <1>1, <1>2, <1>7, MovesKeeps DEF RunnerChecks, Stages
<1>8. CASE RunnerRestores(k)
  BY <1>1, <1>8, MovesKeeps DEF RunnerRestores, Stages
<1>9. CASE RunnerReturns(k)
  <2>1. selected' \in Nat
    BY <1>9, SelectsNat DEF RunnerReturns, Moves
  <2> QED
    BY <1>1, <1>2, <1>9, <2>1, MovesKeeps DEF RunnerReturns, Stages
<1>10. CASE RunnerAccepts(k)
  BY <1>1, <1>10, MovesKeeps DEF RunnerAccepts, Stages, Verdicts
<1>11. CASE RunnerPublishes(k)
  <2>1. runner[k] \in Verdicts /\ verdict' = [verdict EXCEPT ![k] = runner[k]]
    BY <1>11 DEF RunnerPublishes, Moves
  <2>2. verdict' \in [Jobs -> Verdicts]
    BY <1>1, <2>1
  <2> QED
    BY <1>1, <1>11, <2>2, MovesKeeps DEF RunnerPublishes, Stages
<1>12. CASE RunnerDies(k)
  BY <1>1, <1>12, MovesKeeps DEF RunnerDies, Stages
<1> QED
  BY <1>3, <1>4, <1>5, <1>6, <1>7, <1>8, <1>9, <1>10, <1>11, <1>12 DEF Runner

-----------------------------------------------------------------------------
(* The invariant, and the theorems.                                        *)

LEMMA InitInv ==
  ASSUME Init
  PROVE  Inv
<1>1. host \in Supervisor /\ host.at = "idle" /\ host.mem = NoJob
  BY DEF Init, Supervisor, Awaits
<1>2. operator \in OperatorLeases /\ frontend \in FrontendLeases
  BY DEF Init, NoLeases, OperatorLeases, FrontendLeases
<1>3. TypeOK
  BY <1>1, <1>2 DEF Init, TypeOK, Stages, Verdicts
<1>4. Launched = {}
  BY DEF Init, Launched
<1>5. SupOK(host, Launched)
  BY <1>1, <1>4 DEF Init, SupOK, FiledOK
<1>6. OneAuthority
  BY <1>1 DEF Init, OneAuthority, Installing, Unsettled, Busy, OperatorActive, FrontendActive,
              NoLeases, Open
<1> QED
  BY <1>3, <1>5, <1>6 DEF Inv

LEMMA NextInv ==
  ASSUME Inv, [Next]_vars
  PROVE  Inv'
<1>1. CASE UNCHANGED vars
  BY <1>1 DEF vars, Inv, TypeOK, OneAuthority, Installing, Busy, Launched
<1>2. CASE Next
  BY <1>2, HeartbeatKeeps, FunctionKeeps, RequestKeeps, OperateKeeps, SwitchKeeps, RestartKeeps,
     LifeKeeps, LaunchKeeps, RunnerKeeps DEF Next
<1> QED
  BY <1>1, <1>2

LEMMA SpecInv == Spec => []Inv
BY InitInv, NextInv, PTL DEF Spec

\* The controller, its leases, the heartbeat and the installer keep their
\* shape: in particular the supervisor has a job for every await it is in.
THEOREM HostTypes == Spec => []TypeOK
<1>1. Inv => TypeOK
  BY DEF Inv
<1> QED
  BY <1>1, SpecInv, PTL

\* Installation, operator maintenance and a frontend switch exclude each other
\* in a running controller, whatever saves throw, wherever it dies and however
\* it restarts (createSoftwareUpdateHostController).
THEOREM HostOneAuthority == Spec => []OneAuthority
<1>1. Inv => OneAuthority
  BY DEF Inv
<1> QED
  BY <1>1, SpecInv, PTL

\* An installer was only ever launched for a job that is in the journal, and
\* the supervisor awaits only what it has a job for.
THEOREM LaunchedIsFiled == Spec => [](Launched \subseteq Filed(host))
<1>1. Inv => Launched \subseteq Filed(host)
  BY DEF Inv, SupOK, FiledOK
<1> QED
  BY <1>1, SpecInv, PTL

-----------------------------------------------------------------------------
(* Second part. The installer, as journal, memory and awaits tell of it.   *)


\* An installer is under way, or was and left no result.
Running(k) == runner[k] # "none" /\ verdict[k] = "none"

\* Record j says what the installer of its job wrote.
Stated(j) ==
  /\ verdict[j.id] # "none" /\ runner[j.id] = "exited"
  /\ j.state = (IF verdict[j.id] = "unchanged" THEN "failed" ELSE verdict[j.id])

\* The candidate that is selected is the one this result leaves.
Chosen(j) == selected = j.from + (IF verdict[j.id] = "completed" THEN 1 ELSE 0)

\* The states of a record that go with its marks.
Sane(j) ==
  /\ j.started /\ ~j.hold => j.state \in Terminal
  /\ j.state = "cancelled" => ~j.started /\ ~j.hold
  /\ ~j.started => j.state \in Preparing \cup {"failed", "cancelled"}
  /\ j.started => j.state \notin Preparing

Settled(j) == j.started /\ ~j.hold

\* The journal: who has an installer is current, started and holding; who was
\* started and let go has a result and states it.
FileRight(h) ==
  /\ \A k \in Jobs : Running(k) =>
       h.current = k /\ h.journal[k].started /\ h.journal[k].hold
  /\ \A k \in Jobs : h.journal[k] # NoJob =>
       /\ Sane(h.journal[k])
       /\ Settled(h.journal[k]) =>
            Stated(h.journal[k]) /\ (h.current = k => Chosen(h.journal[k]))

\* Memory and journal agree on what was started and from where.
Even(h) ==
  /\ h.journal[h.mem.id].from = h.mem.from
  /\ h.journal[h.mem.id].started = h.mem.started
  /\ ~Unsettled(h.mem) => ~Unsettled(h.journal[h.mem.id])

MemRight(h) ==
  /\ h.up => \A k \in Jobs : Running(k) => h.mem # NoJob /\ h.mem.id = k /\ h.mem.hold
  /\ h.mem # NoJob => Sane(h.mem) /\ Even(h) /\ (Unsettled(h.mem) => h.current = h.mem.id)

\* What is known at each await.
AwaitRight(h) ==
  /\ h.at # "idle" => h.mem.id = h.for /\ h.current = h.for
  /\ h.at \in {"prepare", "preflight"} =>
       ~h.mem.started /\ h.mem.state \in Preparing \cup {"cancelled"}
  /\ h.at \in {"reconcile", "run"} => h.mem.started /\ h.mem.hold
  /\ h.at = "run" => h.journal[h.for].hold

Right(h) == FileRight(h) /\ MemRight(h) /\ AwaitRight(h)

\* A record that may be saved while h works on its job.
Fits(j) ==
  /\ Sane(j) /\ (Settled(j) => Stated(j) /\ Chosen(j))
  /\ \A k \in Jobs : Running(k) => k = j.id /\ j.started /\ j.hold

\* A supervisor at work, also between a save that threw and its catch: the
\* journal may then be ahead of the memory.
Amid(h) ==
  /\ FiledOK(h, {}) /\ h.up /\ h.mem \in Job /\ h.mem.id \in Filed(h)
  /\ h.for = h.mem.id /\ h.current = h.mem.id
  /\ FileRight(h) /\ Sane(h.mem)
  /\ h.journal[h.mem.id].from = h.mem.from
  /\ h.mem.started => h.journal[h.mem.id].started
  /\ \A k \in Jobs : Running(k) => k = h.mem.id /\ h.mem.started /\ h.mem.hold

\* Its next record: of the same job, and a start is not taken back.
Continues(h, j) == j \in Job /\ Fits(j) /\ j.id = h.mem.id /\ j.from = h.mem.from /\ (h.mem.started => j.started)

-----------------------------------------------------------------------------
(* Saves.                                                                  *)

LEMMA OntoFields ==
  ASSUME NEW h \in Supervisor, NEW j \in Job
  PROVE  /\ Onto(h, j).current = j.id /\ Onto(h, j).stopped = h.stopped
         /\ \A k \in Jobs : Onto(h, j).journal[k] = IF k = j.id THEN j ELSE h.journal[k]
<1>1. j.id \in Jobs
  BY JobFields
<1> QED
  BY <1>1 DEF Onto, Supervisor

LEMMA OntoRight ==
  ASSUME NEW h, FiledOK(h, {}), FileRight(h), NEW j \in Job, Fits(j)
  PROVE  FileRight(Onto(h, j))
<1> DEFINE g == Onto(h, j)
<1>1. h \in Supervisor /\ j.id \in Jobs
  BY JobFields DEF FiledOK
<1>2. g.current = j.id /\ \A k \in Jobs : g.journal[k] = IF k = j.id THEN j ELSE h.journal[k]
  BY <1>1, OntoFields
<1> HIDE DEF g
<1>3. \A k \in Jobs : Running(k) => g.current = k /\ g.journal[k].started /\ g.journal[k].hold
  BY <1>2 DEF Fits
<1>4. ASSUME NEW k \in Jobs, g.journal[k] # NoJob
      PROVE  /\ Sane(g.journal[k])
             /\ Settled(g.journal[k]) => Stated(g.journal[k]) /\ (g.current = k => Chosen(g.journal[k]))
  BY <1>1, <1>2, <1>4 DEF Fits, FileRight
<1> QED
  BY <1>3, <1>4 DEF FileRight, g

\* The memory becomes another record.
LEMMA MemFields ==
  ASSUME NEW h \in Supervisor, NEW j \in Job
  PROVE  /\ [h EXCEPT !.mem = j].journal = h.journal /\ [h EXCEPT !.mem = j].current = h.current
         /\ [h EXCEPT !.mem = j].stopped = h.stopped /\ [h EXCEPT !.mem = j].mem = j
BY DEF Supervisor

LEMMA WrittenRight ==
  ASSUME NEW h, Amid(h), NEW j, Continues(h, j), NEW g \in Written(h, j)
  PROVE  /\ Amid(g) /\ g.mem = j /\ g.at = h.at /\ g.stopped = h.stopped
         /\ g.journal[j.id] = j \/ (g = h /\ j = h.mem)
<1>1. j \in Job /\ j.id \in Jobs /\ h \in Supervisor /\ h.mem.id = j.id
  BY JobFields DEF Continues, Amid, FiledOK
<1>2. FiledOK(g, {}) /\ Filed(h) \subseteq Filed(g) /\ g.mem = j /\ g.at = h.at /\ g.for = h.for /\ g.up
  BY <1>1, WrittenKeeps DEF Amid
<1>3. CASE g = [Onto(h, j) EXCEPT !.mem = j]
  <2> DEFINE o == Onto(h, j)
  <2>1. /\ o.current = j.id /\ o.journal[j.id] = j /\ o.stopped = h.stopped
        /\ FileRight(o) /\ FiledOK(o, {})
    BY <1>1, OntoFields, OntoRight, OntoKeeps DEF Amid, Continues
  <2> HIDE DEF o
  <2>2. g.journal = o.journal /\ g.current = o.current /\ g.stopped = o.stopped
    BY <1>1, <1>3, <2>1, MemFields DEF o, FiledOK
  <2>3. FileRight(g)
    BY <2>1, <2>2 DEF FileRight
  <2>4. \A k \in Jobs : Running(k) => k = g.mem.id /\ g.mem.started /\ g.mem.hold
    BY <1>2 DEF Continues, Fits
  <2>5. Sane(g.mem) /\ g.journal[g.mem.id] = g.mem /\ g.for = g.mem.id /\ g.current = g.mem.id
        /\ g.mem.id \in Filed(g)
    BY <1>1, <1>2, <2>1, <2>2 DEF Continues, Fits, Amid
  <2> QED
    BY <1>1, <1>2, <2>1, <2>2, <2>3, <2>4, <2>5 DEF Amid
<1>4. CASE g = h /\ j = h.mem
  BY <1>4
<1> QED
  BY <1>3, <1>4 DEF Written

LEMMA BrokenRight ==
  ASSUME NEW h, Amid(h), NEW j, Continues(h, j), NEW g \in Broken(h, j)
  PROVE  /\ Amid(g) /\ g.mem = h.mem /\ g.at = h.at /\ g.stopped = h.stopped
         /\ g.journal[j.id] = j \/ g = h
<1>1. j \in Job /\ j.id \in Jobs /\ h \in Supervisor /\ h.mem.id = j.id
  BY JobFields DEF Continues, Amid, FiledOK
<1>2. FiledOK(g, {}) /\ Filed(h) \subseteq Filed(g) /\ g.mem = h.mem /\ g.at = h.at /\ g.for = h.for /\ g.up
  BY <1>1, BrokenKeeps DEF Amid
<1>3. CASE g = Onto(h, j)
  <2>1. /\ g.current = j.id /\ g.journal[j.id] = j /\ g.stopped = h.stopped
        /\ FileRight(g)
    BY <1>1, <1>3, OntoFields, OntoRight DEF Amid, Continues
  <2> QED
    BY <1>1, <1>2, <2>1 DEF Amid, Continues
<1>4. CASE g = h
  BY <1>4
<1> QED
  BY <1>3, <1>4 DEF Broken

LEMMA AwaitFields ==
  ASSUME NEW h, FiledOK(h, {}), NEW a \in Awaits
  PROVE  /\ Await(h, a).journal = h.journal /\ Await(h, a).current = h.current
         /\ Await(h, a).stopped = h.stopped /\ Await(h, a).up = h.up
         /\ Await(h, a).mem = h.mem /\ Await(h, a).at = a
         /\ a # "idle" => Await(h, a).for = h.for
BY DEF Await, Supervisor, FiledOK

\* From the middle of its function the supervisor comes to await a.
LEMMA AwaitsRight ==
  ASSUME NEW h, Amid(h), Even(h), NEW a \in Awaits,
         a \in {"prepare", "preflight"} =>
           ~h.mem.started /\ h.mem.state \in Preparing \cup {"cancelled"},
         a \in {"reconcile", "run"} => h.mem.started /\ h.mem.hold,
         a = "run" => h.journal[h.mem.id].hold
  PROVE  Right(Await(h, a))
<1> USE NoJobAssumption
<1> DEFINE g == Await(h, a)
<1>1. /\ g.journal = h.journal /\ g.current = h.current /\ g.up = h.up /\ g.mem = h.mem /\ g.at = a
      /\ a # "idle" => g.for = h.for
  BY AwaitFields DEF Amid
<1> HIDE DEF g
<1>2. FileRight(g)
  BY <1>1 DEF Amid, FileRight
<1>3. MemRight(g)
  <2>1. Even(g)
    BY <1>1 DEF Even
  <2>2. g.mem # NoJob => Sane(g.mem) /\ g.current = g.mem.id
    BY <1>1 DEF Amid
  <2>3. \A k \in Jobs : Running(k) => g.mem.id = k /\ g.mem.hold
    BY <1>1 DEF Amid
  <2>4. \A k \in Jobs : Running(k) => g.mem # NoJob
    BY <1>1 DEF Amid
  <2> QED
    BY <2>1, <2>2, <2>3, <2>4 DEF MemRight
<1>4. AwaitRight(g)
  BY <1>1 DEF Amid, AwaitRight
<1> QED
  BY <1>2, <1>3, <1>4 DEF Right, g

LEMMA IdleRight ==
  ASSUME NEW h, Amid(h), Even(h)
  PROVE  Right(Idle(h))
BY AwaitsRight DEF Idle, Awaits

LEMMA ExitedRight ==
  ASSUME NEW h, FiledOK(h, {}), FileRight(h)
  PROVE  Right(Exited(h))
<1> DEFINE i == Idle(h)
           g == Exited(h)
<1>1. /\ i.journal = h.journal /\ i.current = h.current /\ i.at = "idle"
      /\ i \in Supervisor
  BY AwaitFields, AwaitKeeps DEF Idle, Awaits, FiledOK
<1>2. g = [i EXCEPT !.mem = NoJob, !.stopped = FALSE, !.up = FALSE]
  BY DEF Exited
<1> HIDE DEF i
<1>3. /\ g.mem = NoJob /\ g.at = "idle" /\ ~g.up /\ g.journal = h.journal /\ g.current = h.current
  BY <1>1, <1>2 DEF Supervisor
<1> HIDE DEF g
<1> QED
  BY <1>3 DEF Right, FileRight, MemRight, AwaitRight, g

-----------------------------------------------------------------------------
(* The asynchronous function and the installer.                            *)

LEMMA NobodyRuns ==
  ASSUME NEW h, Amid(h), ~h.mem.started
  PROVE  \A k \in Jobs : ~Running(k)
BY DEF Amid

\* An unstarted record may be saved as long as the job is not started.
LEMMA UnstartedFits ==
  ASSUME NEW h, Amid(h), ~h.mem.started, NEW j \in Job, j.id = h.mem.id, j.from = h.mem.from,
         Sane(j), ~Settled(j)
  PROVE  Continues(h, j)
BY NobodyRuns DEF Continues, Fits

\* A started one may be saved as long as it holds.
LEMMA StartedFits ==
  ASSUME NEW h, Amid(h), NEW j \in Job, j.id = h.mem.id, j.from = h.mem.from,
         j.started, j.hold, j.state \notin Preparing \cup {"cancelled"}
  PROVE  Continues(h, j)
BY DEF Continues, Fits, Sane, Settled, Amid

LEMMA FailsRight ==
  ASSUME NEW h, Amid(h), Restless(h.mem), NEW g \in Fails(h)
  PROVE  Right(g)
<1> DEFINE j == [h.mem EXCEPT !.state = "failed", !.hold = h.mem.started]
<1>1. /\ j \in Job /\ j.id = h.mem.id /\ j.from = h.mem.from /\ j.state = "failed"
      /\ j.hold = h.mem.started /\ j.started = h.mem.started
  <2>1. h.mem \in Job /\ "failed" \in States /\ h.mem.started \in BOOLEAN
    BY JobFields DEF Amid, States, Terminal
  <2> QED
    BY <2>1 DEF Job
<1>2. \/ \E w \in Written(h, j) : g = Idle(w)
      \/ \E w \in Broken(h, j) : g = Exited(w)
  BY DEF Fails, j, Amid
<1> HIDE DEF j
<1>3. Continues(h, j)
  <2>1. CASE h.mem.started
    BY <1>1, <2>1, StartedFits DEF Preparing
  <2>2. CASE ~h.mem.started
    BY <1>1, <2>2, UnstartedFits DEF Sane, Settled
  <2> QED
    BY <2>1, <2>2
<1>4. ASSUME NEW w \in Written(h, j), g = Idle(w) PROVE Right(g)
  <2>1. Amid(w) /\ w.mem = j /\ (w.journal[j.id] = j \/ (w = h /\ j = h.mem))
    BY <1>3, WrittenRight
  <2>2. CASE w.journal[j.id] = j
    BY <1>4, <2>1, <2>2, IdleRight DEF Even
  <2>3. CASE w = h /\ j = h.mem
    <3>1. h.mem.started /\ h.mem.hold
      BY <1>1, <2>3 DEF Restless, Terminal
    <3>2. Even(h)
      BY <3>1, JobFields, NoJobAssumption DEF Even, Amid, Unsettled, Filed
    <3> QED
      BY <1>4, <2>3, <3>2, IdleRight
  <2> QED
    BY <2>1, <2>2, <2>3
<1>5. ASSUME NEW w \in Broken(h, j), g = Exited(w) PROVE Right(g)
  BY <1>3, <1>5, BrokenRight, ExitedRight DEF Amid
<1> QED
  BY <1>2, <1>4, <1>5

\* The job becomes j, and the function awaits a.
LEMMA ChangeRight ==
  ASSUME NEW h, Amid(h), Even(h), Restless(h.mem), NEW j, Continues(h, j), NEW a \in Awaits,
         a \in {"prepare", "preflight"} => ~j.started /\ j.state \in Preparing \cup {"cancelled"},
         a # "reconcile",
         a = "run" => j.started /\ j.hold /\ ~h.mem.started,
         NEW g \in Change(h, j, a)
  PROVE  Right(g)
<1>1. ASSUME NEW w \in Written(h, j), g = Await(w, a) PROVE Right(g)
  <2>1. /\ Amid(w) /\ w.mem = j
        /\ w.journal[j.id] = j \/ (w = h /\ j = h.mem)
    BY WrittenRight
  <2>2. Even(w)
    BY <2>1 DEF Even
  <2>3. a = "run" => w.journal[w.mem.id].hold
    BY <2>1
  <2> QED
    BY <1>1, <2>1, <2>2, <2>3, AwaitsRight
<1>2. ASSUME NEW w \in Broken(h, j), g \in Fails(w) PROVE Right(g)
  BY <1>2, BrokenRight, FailsRight
<1> QED
  BY <1>1, <1>2 DEF Change

\* The job of a function that is not started waits again.
LEMMA WaitsRight ==
  ASSUME NEW h, Amid(h), Even(h), Restless(h.mem), ~h.mem.started, NEW g \in Waits(h)
  PROVE  Right(g)
<1> DEFINE j == [h.mem EXCEPT !.state = "waiting"]
<1>1. /\ j \in Job /\ j.id = h.mem.id /\ j.from = h.mem.from /\ j.state = "waiting"
      /\ j.started = h.mem.started
  <2>1. h.mem \in Job /\ "waiting" \in States
    BY DEF Amid, States, Preparing
  <2> QED
    BY <2>1 DEF Job
<1>2. g \in Change(h, j, "idle")
  BY DEF Waits, j
<1> HIDE DEF j
<1>3. Continues(h, j)
  BY <1>1, UnstartedFits DEF Sane, Settled, Preparing
<1> QED
  BY <1>2, <1>3, ChangeRight DEF Awaits

LEMMA UnverifiedRight ==
  ASSUME NEW h, Amid(h), Even(h), Restless(h.mem), ~h.mem.started, NEW e, NEW g \in Unverified(h, e)
  PROVE  Right(g)
<1> DEFINE j == [h.mem EXCEPT !.state = "failed", !.hold = FALSE]
<1>1. /\ j \in Job /\ j.id = h.mem.id /\ j.from = h.mem.from /\ j.state = "failed"
      /\ j.started = h.mem.started
  <2>1. h.mem \in Job /\ "failed" \in States
    BY DEF Amid, States, Terminal
  <2> QED
    BY <2>1 DEF Job
<1>2. g = Idle(h) \/ g \in Change(h, j, "idle")
  BY DEF Unverified, j
<1> HIDE DEF j
<1>3. Continues(h, j)
  BY <1>1, UnstartedFits DEF Sane, Settled
<1> QED
  BY <1>2, <1>3, ChangeRight, IdleRight DEF Awaits

LEMMA QualifyRight ==
  ASSUME NEW h, Amid(h), Even(h), ~h.mem.started, h.mem.state \in Preparing \cup {"cancelled"},
         NEW e, NEW g \in Qualify(h, e)
  PROVE  Right(g)
<1>1. CASE g = Idle(h)
  BY <1>1, IdleRight
<1>2. CASE g \in Waits(h) /\ ~Gone(h)
  <2>1. Restless(h.mem)
    BY <1>2, NoJobAssumption DEF Gone, Restless, Amid, Preparing, Terminal
  <2> QED
    BY <1>2, <2>1, WaitsRight
<1>3. CASE g = Await(h, "preflight")
  BY <1>3, AwaitsRight DEF Awaits
<1> QED
  BY <1>1, <1>2, <1>3 DEF Qualify

\* A job under work that is not started is one that is prepared.
LEMMA RestlessPrepares ==
  ASSUME NEW j, Restless(j), ~j.started, Sane(j)
  PROVE  j.state \in Preparing
BY DEF Restless, Sane, Terminal, Preparing

LEMMA AdvanceRight ==
  ASSUME NEW h, Amid(h), Even(h), Restless(h.mem), NEW e, NEW g \in Advance(h, e)
  PROVE  Right(g)
<1> DEFINE j == [h.mem EXCEPT !.state = "downloading"]
<1>1. CASE h.mem.started
  <2>1. h.mem.hold
    BY <1>1 DEF Amid, Restless, Sane
  <2> QED
    BY <1>1, <2>1, AwaitsRight DEF Advance, Awaits
<1>2. CASE ~h.mem.started
  <2>1. /\ j \in Job /\ j.id = h.mem.id /\ j.from = h.mem.from /\ j.state = "downloading"
        /\ j.started = h.mem.started
    <3>1. h.mem \in Job /\ "downloading" \in States
      BY DEF Amid, States, Preparing
    <3> QED
      BY <3>1 DEF Job
  <2>2. \/ g \in Unverified(h, e) \/ g \in Fails(h) \/ g \in Waits(h) \/ g \in Qualify(h, e)
        \/ g \in Change(h, j, "prepare")
    BY <1>2 DEF Advance, j
  <2> HIDE DEF j
  <2>3. h.mem.state \in Preparing
    BY <1>2, RestlessPrepares DEF Amid
  <2>4. Continues(h, j)
    BY <1>2, <2>1, UnstartedFits DEF Sane, Settled, Preparing
  <2>5. g \in Change(h, j, "prepare") => Right(g)
    BY <1>2, <2>1, <2>4, ChangeRight DEF Awaits, Preparing
  <2> QED
    BY <1>2, <2>2, <2>3, <2>5, UnverifiedRight, FailsRight, WaitsRight, QualifyRight
<1> QED
  BY <1>1, <1>2

\* A supervisor that awaits something is in the middle of its function.
LEMMA AtWork ==
  ASSUME NEW h, SupOK(h, {}), Right(h), h.at # "idle"
  PROVE  Amid(h) /\ Even(h)
<1>1. /\ FiledOK(h, {}) /\ h.up /\ h.mem \in Job /\ h.mem.id \in Filed(h) /\ h.mem # NoJob
  BY NoJobAssumption DEF SupOK, FiledOK
<1>2. h.for = h.mem.id /\ h.current = h.mem.id /\ FileRight(h) /\ Sane(h.mem) /\ Even(h)
  BY <1>1 DEF Right, AwaitRight, MemRight
<1>3. \A k \in Jobs : Running(k) => k = h.mem.id /\ h.mem.started /\ h.mem.hold
  BY <1>1, <1>2 DEF Right, MemRight, FileRight, Even
<1> QED
  BY <1>1, <1>2, <1>3 DEF Amid, Even

\* The same, of a supervisor that is right when its function throws.
LEMMA ThrowsRight ==
  ASSUME NEW h, Amid(h), Even(h), NEW g \in Fails(h)
  PROVE  Right(g)
<1>1. CASE Restless(h.mem)
  BY <1>1, FailsRight
<1>2. CASE ~Restless(h.mem)
  BY <1>2, IdleRight DEF Fails
<1> QED
  BY <1>1, <1>2

\* In the middle of its function, and right at its await.
LEMMA AmidRight ==
  ASSUME NEW h, Amid(h), Even(h), AwaitRight(h)
  PROVE  Right(h)
<1>1. \A k \in Jobs : Running(k) => h.mem.id = k /\ h.mem.hold /\ h.mem # NoJob
  BY NoJobAssumption DEF Amid
<1> QED
  BY <1>1 DEF Right, MemRight, Amid

LEMMA KickRight ==
  ASSUME NEW h, SupOK(h, {}), Right(h), h.up, NEW e, NEW busy, NEW g \in Kick(h, e, busy)
  PROVE  Right(g)
<1> DEFINE k == [h EXCEPT !.for = h.mem.id]
<1>1. CASE h.at # "idle" \/ h.stopped \/ busy \/ ~Restless(h.mem)
  BY <1>1 DEF Kick
<1>2. CASE ~(h.at # "idle" \/ h.stopped \/ busy \/ ~Restless(h.mem))
  <2>1. FiledOK(h, {}) /\ h \in Supervisor /\ h.mem \in Job /\ h.mem.id \in Filed(h) /\ h.mem # NoJob
    BY <1>2 DEF Restless, SupOK, FiledOK, Supervisor
  <2>2. h.mem.id \in Jobs
    BY <2>1, JobFields
  <2>3. /\ k \in Supervisor /\ k.mem = h.mem /\ k.journal = h.journal /\ k.up = h.up
        /\ k.for = h.mem.id /\ k.current = h.current
    BY <2>1, <2>2 DEF Supervisor
  <2>4. g \in Advance(k, e)
    BY <1>2 DEF Kick
  <2> HIDE DEF k
  <2>5. FiledOK(k, {}) /\ k.mem.id \in Filed(k)
    BY <2>1, <2>3 DEF FiledOK, Filed
  <2>6. Even(k) /\ Sane(k.mem) /\ k.current = k.mem.id
    <3>1. Unsettled(h.mem)
      BY <1>2 DEF Restless, Unsettled
    <3> QED
      BY <2>1, <2>3, <3>1 DEF Right, MemRight, Even
  <2>7. FileRight(k)
    BY <2>3 DEF Right, FileRight
  <2>8. \A i \in Jobs : Running(i) => i = k.mem.id /\ k.mem.started /\ k.mem.hold
    BY <2>3, <2>6, <2>7 DEF Right, MemRight, FileRight, Even
  <2>9. Amid(k)
    BY <2>1, <2>3, <2>5, <2>6, <2>7, <2>8 DEF Amid, Even
  <2> QED
    BY <1>2, <2>3, <2>4, <2>6, <2>9, AdvanceRight
<1> QED
  BY <1>1, <1>2

-----------------------------------------------------------------------------
(* Requests and the installer.                                             *)

\* A job that is not started is changed outside of its function.
LEMMA SavedRight ==
  ASSUME NEW h, SupOK(h, {}), Right(h), h.up, h.mem # NoJob, ~h.mem.started, Unsettled(h.mem),
         NEW j \in Job, j.id = h.mem.id, j.from = h.mem.from, ~j.started, Sane(j),
         j.state \in Preparing \cup {"cancelled"}, NEW g \in Written(h, j) \cup Broken(h, j)
  PROVE  Right(g) /\ SupOK(g, {}) /\ g.up
<1>1. /\ FiledOK(h, {}) /\ h \in Supervisor /\ j.id \in Jobs /\ h.current = j.id
      /\ Even(h) /\ FileRight(h) /\ Sane(h.mem)
  BY JobFields DEF SupOK, FiledOK, Right, MemRight
<1>2. \A k \in Jobs : ~Running(k)
  BY <1>1 DEF Right, MemRight, FileRight, Even
<1>3. Fits(j)
  BY <1>2 DEF Fits, Settled
<1> DEFINE o == Onto(h, j)
<1>4. /\ o.current = j.id /\ o.journal[j.id] = j /\ FileRight(o) /\ FiledOK(o, {})
      /\ o.mem = h.mem /\ o.at = h.at /\ o.for = h.for /\ o.up = h.up
  BY <1>1, <1>3, OntoFields, OntoRight, OntoKeeps
<1>5. SupOK(g, {}) /\ g.up = h.up /\ g.at = h.at
  BY SavedKeeps
<1>6. g = [o EXCEPT !.mem = j] \/ g = o \/ g = h
  BY DEF Written, Broken, o
<1> HIDE DEF o
<1>7. CASE g = [o EXCEPT !.mem = j]
  <2>1. /\ g.journal = o.journal /\ g.current = o.current /\ g.mem = j /\ g.at = o.at
        /\ g.for = o.for /\ g.up = o.up
    BY <1>4, <1>7 DEF FiledOK, Supervisor
  <2>2. FileRight(g)
    BY <1>4, <2>1 DEF FileRight
  <2>3. MemRight(g)
    BY <1>2, <1>4, <2>1 DEF MemRight, Even
  <2>4. AwaitRight(g)
    BY <1>1, <1>4, <2>1 DEF Right, AwaitRight
  <2> QED
    BY <1>5, <2>2, <2>3, <2>4 DEF Right
<1>8. CASE g = o
  <2>0. j.started = FALSE /\ h.mem.started = FALSE
    BY JobFields DEF SupOK, FiledOK, Supervisor
  <2>1. MemRight(g)
    BY <1>1, <1>2, <1>4, <1>8, <2>0 DEF MemRight, Even
  <2>2. AwaitRight(g)
    BY <1>1, <1>4, <1>8 DEF Right, AwaitRight
  <2> QED
    BY <1>4, <1>5, <1>8, <2>1, <2>2 DEF Right
<1> QED
  BY <1>5, <1>6, <1>7, <1>8

LEMMA HeardRight ==
  ASSUME NEW h, SupOK(h, {}), Right(h), h.up, NEW e, NEW busy, NEW g \in Heard(h, e, busy)
  PROVE  Right(g)
<1> DEFINE j == [h.mem EXCEPT !.hold = FALSE, !.state = "waiting"]
<1>1. CASE g \in Kick(h, e, busy)
  BY <1>1, KickRight
<1>2. CASE /\ h.mem # NoJob /\ h.mem.hold /\ ~h.mem.started
           /\ (\E w \in Written(h, j) : g \in Kick(w, e, busy)) \/ g \in Broken(h, j)
  <2>1. h.mem \in Job /\ Unsettled(h.mem) /\ "waiting" \in States
    BY <1>2 DEF SupOK, FiledOK, Supervisor, Unsettled, States, Preparing
  <2>2. /\ j \in Job /\ j.id = h.mem.id /\ j.from = h.mem.from /\ j.state = "waiting"
        /\ j.started = h.mem.started /\ ~j.hold
    BY <2>1 DEF Job
  <2> HIDE DEF j
  <2>3. Sane(j) /\ j.state \in Preparing
    BY <1>2, <2>2 DEF Sane, Preparing
  <2>4. \A w \in Written(h, j) \cup Broken(h, j) : Right(w) /\ SupOK(w, {}) /\ w.up
    BY <1>2, <2>1, <2>2, <2>3, SavedRight
  <2> QED
    BY <1>2, <2>4, KickRight
<1> QED
  BY <1>1, <1>2 DEF Heard

LEMMA CancelledRight ==
  ASSUME NEW h, SupOK(h, {}), Right(h), h.up, NEW k, NEW g \in Cancelled(h, k)
  PROVE  Right(g)
<1> DEFINE j == [h.mem EXCEPT !.state = "cancelled", !.hold = FALSE]
<1>1. CASE /\ h.mem # NoJob /\ ~h.mem.started /\ h.mem.state \in Preparing
           /\ g \in Written(h, j) \cup Broken(h, j)
  <2>1. h.mem \in Job /\ Unsettled(h.mem) /\ "cancelled" \in States
    BY <1>1 DEF SupOK, FiledOK, Supervisor, Unsettled, States, Preparing, Terminal
  <2>2. /\ j \in Job /\ j.id = h.mem.id /\ j.from = h.mem.from /\ j.state = "cancelled"
        /\ j.started = h.mem.started /\ ~j.hold
    BY <2>1 DEF Job
  <2> HIDE DEF j
  <2>3. Sane(j)
    BY <1>1, <2>2 DEF Sane
  <2> QED
    BY <1>1, <2>1, <2>2, <2>3, SavedRight
<1> QED
  BY <1>1 DEF Cancelled

LEMMA ReplayedRight ==
  ASSUME NEW h, SupOK(h, {}), Right(h), h.up, NEW e, NEW k \in Jobs, NEW busy,
         h.journal[k] # NoJob, NEW g \in Replayed(h, e, k, busy)
  PROVE  Right(g)
<1> DEFINE j == h.journal[k]
           r == [h EXCEPT !.mem = j]
<1>1. CASE h.at = "idle" /\ h.current = k /\ g \in Kick(r, e, busy)
  <2>1. FiledOK(h, {}) /\ j \in Job /\ j.id = k /\ h \in Supervisor
    BY DEF SupOK, FiledOK, Supervisor
  <2>2. j.id \in Filed(h) /\ Sane(j) /\ j # NoJob
    BY <2>1 DEF Filed, Right, FileRight
  <2>3. r.journal = h.journal /\ r.current = h.current
    BY <2>1 DEF Supervisor
  <2>4. \A i \in Jobs : Running(i) => i = k /\ j.hold
    BY <1>1 DEF Right, FileRight
  <2>5. j = h.journal[j.id]
    BY <2>1
  <2> HIDE DEF j
  <2>6. FiledOK(r, {}) /\ r.at = "idle" /\ r.up /\ r.mem = j
    BY <1>1, <2>1, <2>2, MemKeeps
  <2> HIDE DEF r
  <2>7. Right(r)
    <3>1. FileRight(r)
      BY <2>3 DEF Right, FileRight
    <3>2. MemRight(r)
      BY <1>1, <2>1, <2>2, <2>3, <2>4, <2>5, <2>6 DEF MemRight, Even
    <3>3. AwaitRight(r)
      BY <2>6 DEF AwaitRight
    <3> QED
      BY <3>1, <3>2, <3>3 DEF Right
  <2> QED
    BY <1>1, <2>6, <2>7, KickRight DEF SupOK
<1>2. g = h \/ (h.at = "idle" /\ h.current = k /\ g \in Kick(r, e, busy))
  BY DEF Replayed
<1> QED
  BY <1>1, <1>2

LEMMA RequestedRight ==
  ASSUME NEW h, SupOK(h, {}), Right(h), h.up, NEW e \in Envs, NEW k \in Jobs, NEW when, NEW busy,
         NEW g \in Requested(h, e, k, when, busy)
  PROVE  Right(g)
<1> DEFINE j == [id |-> k, epoch |-> e.beat.epoch, from |-> e.selected, release |-> e.feed,
                 state |-> "waiting", hold |-> FALSE, started |-> FALSE, prepared |-> FALSE]
<1>1. CASE h.journal[k] # NoJob
  BY <1>1, ReplayedRight DEF Requested
<1>2. CASE /\ h.journal[k] = NoJob /\ e.beat # NoBeat /\ e.feed \in Revisions
           /\ h.at = "idle" /\ ~Unsettled(h.mem)
           /\ (\E w \in Written(h, j) : g \in Kick(w, e, busy)) \/ g \in Broken(h, j)
  <2>1. e.beat \in Beat /\ e.selected \in Nat
    BY <1>2 DEF Envs
  <2>2. e.beat.epoch \in Epochs
    BY <2>1 DEF Beat
  <2>11. j \in Job /\ j.id = k /\ ~j.started /\ ~j.hold /\ j.state = "waiting"
    BY <1>2, <2>1, <2>2 DEF Job, States, Preparing
  <2>4. \A i \in Jobs : ~Running(i)
    BY <1>2 DEF Right, MemRight, Unsettled
  <2> HIDE DEF j
  <2>3. /\ j \in Job /\ j.id = k /\ ~j.started /\ ~j.hold /\ j.state = "waiting"
        /\ Sane(j) /\ Unsettled(j)
    BY <2>11, NoJobAssumption DEF Preparing, Sane, Unsettled, Terminal
  <2> DEFINE o == Onto(h, j)
  <2>5. FiledOK(h, {}) /\ h \in Supervisor /\ FileRight(h) /\ Fits(j)
    BY <2>3, <2>4 DEF SupOK, FiledOK, Right, Fits, Settled
  <2>6. /\ o.current = k /\ o.journal[k] = j /\ FileRight(o) /\ FiledOK(o, {})
        /\ o.mem = h.mem /\ o.at = h.at /\ o.for = h.for /\ o.up = h.up
        /\ \A i \in Jobs : i # k => o.journal[i] = h.journal[i]
    BY <2>3, <2>5, OntoFields, OntoRight, OntoKeeps
  <2>7. ASSUME NEW w \in Written(h, j) \cup Broken(h, j)
        PROVE  w = [o EXCEPT !.mem = j] \/ w = o \/ w = h
    BY DEF Written, Broken
  <2> HIDE DEF o
  <2>8. Right([o EXCEPT !.mem = j])
    <3> DEFINE w == [o EXCEPT !.mem = j]
    <3>1. /\ w.journal = o.journal /\ w.current = o.current /\ w.mem = j /\ w.at = o.at
          /\ w.up = o.up
      BY <2>6 DEF FiledOK, Supervisor
    <3> HIDE DEF w
    <3>2. FileRight(w)
      BY <2>6, <3>1 DEF FileRight
    <3>3. MemRight(w)
      BY <2>3, <2>4, <2>6, <3>1 DEF MemRight, Even
    <3>4. AwaitRight(w)
      BY <1>2, <2>6, <3>1 DEF AwaitRight
    <3> QED
      BY <3>2, <3>3, <3>4 DEF Right, w
  <2>9. Right(o)
    <3>1. h.mem # NoJob => h.mem.id # k /\ h.mem.id \in Jobs
      BY <1>2, NoJobAssumption DEF SupOK, FiledOK, Filed
    <3>2. MemRight(o)
      BY <1>2, <2>4, <2>6, <3>1 DEF Right, MemRight, Even
    <3>3. AwaitRight(o)
      BY <1>2, <2>6 DEF AwaitRight
    <3> QED
      BY <2>6, <3>2, <3>3 DEF Right
  <2>10. ASSUME NEW w \in Written(h, j) \cup Broken(h, j) PROVE Right(w) /\ SupOK(w, {}) /\ w.up
    BY <2>3, <2>7, <2>8, <2>9, SavedKeeps
  <2> QED
    BY <1>2, <2>10, KickRight
<1>3. \/ g = h \/ h.journal[k] # NoJob
      \/ /\ h.journal[k] = NoJob /\ e.beat # NoBeat /\ e.feed \in Revisions
         /\ h.at = "idle" /\ ~Unsettled(h.mem)
         /\ (\E w \in Written(h, j) : g \in Kick(w, e, busy)) \/ g \in Broken(h, j)
  BY DEF Requested
<1> QED
  BY <1>1, <1>2, <1>3

-----------------------------------------------------------------------------
(* What follows each await, and the installer.                             *)

LEMMA PreparedRight ==
  ASSUME NEW h, SupOK(h, {}), Right(h), h.at = "prepare", NEW e, NEW g \in Prepared(h, e)
  PROVE  Right(g)
<1> DEFINE j == [h.mem EXCEPT !.state = "verifying", !.prepared = TRUE]
<1>0. Amid(h) /\ Even(h) /\ ~h.mem.started /\ h.mem.state \in Preparing \cup {"cancelled"}
  BY AtWork DEF Right, AwaitRight
<1>1. CASE g = Idle(h)
  BY <1>0, <1>1, IdleRight
<1>2. CASE /\ h.mem.state # "cancelled"
           /\ \/ \E w \in Written(h, j) : g \in Qualify(w, e)
              \/ \E w \in Broken(h, j) : g \in Fails(w)
  <2>1. h.mem \in Job /\ "verifying" \in States
    BY <1>0 DEF Amid, States, Preparing
  <2>2. /\ j \in Job /\ j.id = h.mem.id /\ j.from = h.mem.from /\ j.state = "verifying"
        /\ j.started = h.mem.started
    BY <2>1 DEF Job
  <2> HIDE DEF j
  <2>3. Continues(h, j)
    BY <1>0, <2>2, UnstartedFits DEF Sane, Settled, Preparing
  <2>4. ASSUME NEW w \in Written(h, j), g \in Qualify(w, e) PROVE Right(g)
    <3>1. Amid(w) /\ w.mem = j /\ (w.journal[j.id] = j \/ (w = h /\ j = h.mem))
      BY <1>0, <2>3, WrittenRight
    <3>2. Even(w)
      BY <1>0, <3>1 DEF Even
    <3> QED
      BY <1>0, <2>2, <2>4, <3>1, <3>2, QualifyRight DEF Preparing
  <2>5. ASSUME NEW w \in Broken(h, j), g \in Fails(w) PROVE Right(g)
    <3>1. Amid(w) /\ w.mem = h.mem
      BY <1>0, <2>3, BrokenRight
    <3>2. Restless(h.mem)
      BY <1>0, <1>2, NoJobAssumption DEF Restless, Amid, Preparing, Terminal
    <3> QED
      BY <2>5, <3>1, <3>2, FailsRight
  <2> QED
    BY <1>2, <2>4, <2>5
<1> QED
  BY <1>1, <1>2 DEF Prepared

LEMMA ProgressRight ==
  ASSUME NEW h, SupOK(h, {}), Right(h), h.at = "prepare", h.mem.state # "cancelled",
         NEW g \in Change(h, h.mem, "prepare")
  PROVE  Right(g)
<1>0. Amid(h) /\ Even(h) /\ ~h.mem.started /\ h.mem.state \in Preparing
  BY AtWork DEF Right, AwaitRight
<1>1. Restless(h.mem)
  BY <1>0, NoJobAssumption DEF Restless, Amid, Preparing, Terminal
<1>2. Continues(h, h.mem)
  BY <1>0, UnstartedFits DEF Settled, Amid
<1> QED
  BY <1>0, <1>1, <1>2, ChangeRight DEF Awaits

LEMMA QualifiedRight ==
  ASSUME NEW h, SupOK(h, {}), Right(h), h.at = "preflight", NEW e, NEW g \in Qualified(h, e)
  PROVE  Right(g)
<1> DEFINE j1 == [h.mem EXCEPT !.state = "waiting", !.hold = TRUE]
           j2 == [h.mem EXCEPT !.state = "preparing", !.started = TRUE]
<1>0. Amid(h) /\ Even(h) /\ ~h.mem.started /\ h.mem.state \in Preparing \cup {"cancelled"}
  BY AtWork DEF Right, AwaitRight
<1>1. CASE g = Idle(h)
  BY <1>0, <1>1, IdleRight
<1>2. CASE /\ ~Gone(h)
           /\ \/ g \in Waits(h) \/ g \in Unverified(h, e) \/ g \in Fails(h)
              \/ g \in Change(h, j1, "idle") \/ (h.mem.hold /\ g \in Change(h, j2, "run"))
  <2>1. Restless(h.mem)
    BY <1>0, <1>2, NoJobAssumption DEF Gone, Restless, Amid, Preparing, Terminal
  <2>2. h.mem \in Job /\ "waiting" \in States /\ "preparing" \in States
    BY <1>0 DEF Amid, States, Preparing
  <2>3. /\ j1 \in Job /\ j1.id = h.mem.id /\ j1.from = h.mem.from /\ j1.state = "waiting"
        /\ j1.started = h.mem.started
        /\ j2 \in Job /\ j2.id = h.mem.id /\ j2.from = h.mem.from /\ j2.state = "preparing"
        /\ j2.started /\ j2.hold = h.mem.hold
    BY <2>2 DEF Job
  <2> HIDE DEF j1, j2
  <2>4. Continues(h, j1)
    BY <1>0, <2>3, UnstartedFits DEF Sane, Settled, Preparing
  <2>5. h.mem.hold => Continues(h, j2)
    BY <1>0, <2>3, StartedFits DEF Preparing
  <2>6. g \in Change(h, j1, "idle") => Right(g)
    BY <1>0, <2>1, <2>4, ChangeRight DEF Awaits
  <2>7. h.mem.hold /\ g \in Change(h, j2, "run") => Right(g)
    BY <1>0, <2>1, <2>3, <2>5, ChangeRight DEF Awaits
  <2> QED
    BY <1>0, <1>2, <2>1, <2>6, <2>7, WaitsRight, UnverifiedRight, FailsRight
<1> QED
  BY <1>1, <1>2 DEF Qualified

\* A result of the installer that ended is taken over as it is.
LEMMA AcceptedRight ==
  ASSUME NEW h, SupOK(h, {}), Right(h), h.at \in {"run", "reconcile"}, NEW e, e.selected = selected,
         verdict[h.for] \in Verdicts \ {"none"}, runner[h.for] = "exited",
         NEW g \in Accepted(h, e, verdict[h.for])
  PROVE  Right(g)
<1> DEFINE v == verdict[h.for]
           s == IF v = "unchanged" THEN "failed" ELSE v
           j == [h.mem EXCEPT !.state = s, !.hold = FALSE]
<1>0. Amid(h) /\ Even(h) /\ h.mem.started /\ h.mem.hold
  BY AtWork DEF Right, AwaitRight
<1>1. \/ g = Idle(h) \/ g \in Fails(h)
      \/ /\ e.selected = h.mem.from + (IF v = "completed" THEN 1 ELSE 0)
         /\ g \in Change(h, j, "idle")
  BY DEF Accepted
<1>2. h.mem \in Job /\ s \in Terminal \ {"cancelled"} /\ s \in States
  BY <1>0 DEF Amid, States, Terminal, Verdicts
<1>3. /\ j \in Job /\ j.id = h.mem.id /\ j.from = h.mem.from /\ j.state = s /\ ~j.hold
      /\ j.started = h.mem.started
  BY <1>2 DEF Job
<1>4. s = (IF verdict[h.for] = "unchanged" THEN "failed" ELSE verdict[h.for])
  OBVIOUS
<1>5. h.for = h.mem.id
  BY <1>0 DEF Amid
<1> HIDE DEF j, s
<1>6. CASE /\ e.selected = h.mem.from + (IF v = "completed" THEN 1 ELSE 0)
           /\ g \in Change(h, j, "idle")
  <2>1. Stated(j) /\ Chosen(j) /\ Sane(j)
    BY <1>0, <1>2, <1>3, <1>4, <1>5, <1>6 DEF Stated, Chosen, Sane, Preparing, Verdicts
  <2>2. Continues(h, j)
    BY <1>0, <1>3, <1>5, <2>1 DEF Continues, Fits, Amid, Running
  <2>3. Restless(h.mem)
    BY <1>0, NoJobAssumption DEF Restless, Amid
  <2> QED
    BY <1>0, <1>6, <2>2, <2>3, ChangeRight DEF Awaits
<1> QED
  BY <1>0, <1>1, <1>6, IdleRight, ThrowsRight

LEMMA ReconciledRight ==
  ASSUME NEW h, SupOK(h, {}), Right(h), h.at = "reconcile", NEW e, e.selected = selected,
         verdict[h.for] \in Verdicts, verdict[h.for] # "none" => runner[h.for] = "exited",
         NEW g \in Reconciled(h, e, verdict[h.for])
  PROVE  Right(g)
<1> DEFINE j == [h.mem EXCEPT !.state = "failed", !.hold = TRUE]
<1>1. CASE verdict[h.for] # "none"
  BY <1>1, AcceptedRight DEF Reconciled
<1>2. CASE verdict[h.for] = "none"
  <2>0. Amid(h) /\ Even(h) /\ h.mem.started /\ h.mem.hold
    BY AtWork DEF Right, AwaitRight
  <2>1. h.mem \in Job /\ "failed" \in States
    BY <2>0 DEF Amid, States, Terminal
  <2>2. /\ j \in Job /\ j.id = h.mem.id /\ j.from = h.mem.from /\ j.state = "failed"
        /\ j.started = h.mem.started /\ j.hold
    BY <2>1 DEF Job
  <2>3. g \in Change(h, j, "idle")
    BY <1>2 DEF Reconciled
  <2> HIDE DEF j
  <2>4. Continues(h, j)
    BY <2>0, <2>2, StartedFits DEF Preparing
  <2>5. Restless(h.mem)
    BY <2>0, NoJobAssumption DEF Restless, Amid
  <2> QED
    BY <2>0, <2>3, <2>4, <2>5, ChangeRight DEF Awaits
<1> QED
  BY <1>1, <1>2

\* A stage the installer reports.
LEMMA ReportedRight ==
  ASSUME NEW h, SupOK(h, {}), Right(h), NEW k, NEW s \in States \ (Preparing \cup {"cancelled"}),
         NEW g \in Reported(h, k, s)
  PROVE  Right(g)
<1> DEFINE j == [h.mem EXCEPT !.state = s]
<1>1. CASE h.at = "run" /\ g \in Written(h, j) \cup Broken(h, j)
  <2>0. Amid(h) /\ Even(h) /\ h.mem.started /\ h.mem.hold /\ h.journal[h.for].hold /\ h.for = h.mem.id
    BY <1>1, AtWork DEF Right, AwaitRight
  <2>1. h.mem \in Job
    BY <2>0 DEF Amid
  <2>2. /\ j \in Job /\ j.id = h.mem.id /\ j.from = h.mem.from /\ j.state = s
        /\ j.started = h.mem.started /\ j.hold = h.mem.hold
    BY <2>1 DEF Job
  <2> HIDE DEF j
  <2>3. Continues(h, j)
    BY <2>0, <2>2, StartedFits
  <2>4. Amid(g) /\ g.mem \in {j, h.mem} /\ g.at = "run" /\ (g.journal[j.id] = j \/ g = h)
    BY <1>1, <2>0, <2>3, WrittenRight, BrokenRight
  <2>5. g.mem.hold /\ g.mem.started /\ g.mem.id = h.mem.id /\ g.mem.from = h.mem.from
        /\ g.mem.started = h.mem.started
    BY <2>0, <2>2, <2>4
  <2>6. Even(g) /\ g.journal[g.mem.id].hold
    BY <2>0, <2>2, <2>4, <2>5, NoJobAssumption DEF Even, Unsettled, Amid
  <2>7. AwaitRight(g)
    BY <2>4, <2>5, <2>6 DEF AwaitRight, Amid
  <2> QED
    BY <2>4, <2>6, <2>7, AmidRight
<1> QED
  BY <1>1 DEF Reported

-----------------------------------------------------------------------------
(* The steps of the host, and the theorems on the installer.               *)

\* A result is the last thing an installer leaves.
ResultEnds == \A k \in Jobs : verdict[k] # "none" => runner[k] = "exited"

\* The inductive invariant.
HostInv == Inv /\ Right(host) /\ ResultEnds

LEMMA Smaller == \A h, J : SupOK(h, J) => SupOK(h, {})
BY DEF SupOK, FiledOK

\* A step of the controller leaves the installers as they are.
LEMMA ControllerKeeps ==
  ASSUME HostInv, Inv', Right(host'), UNCHANGED <<selected, runner, verdict>>
  PROVE  HostInv'
<1>1. Right(host)'
  <2>1. FileRight(host)'
    BY DEF Right, FileRight, Running, Settled, Stated, Chosen, Sane
  <2>2. MemRight(host)' /\ AwaitRight(host)'
    BY DEF Right, MemRight, AwaitRight, Running, Even, Sane
  <2> QED
    BY <2>1, <2>2 DEF Right
<1> QED
  BY <1>1 DEF HostInv, ResultEnds

LEMMA HeartbeatRight ==
  ASSUME HostInv, Heartbeat
  PROVE  HostInv'
<1>1. PICK b \in [candidate : {selected}, epoch : Epochs, native : BOOLEAN,
            heldFor : {None} \cup {k \in Jobs : host.journal[k] # NoJob}
                             \cup {i \in Maintenances : operator.disk[i] # NoLease},
            blockers : {"none", "work", "switch"}] : Hears(b)
  BY DEF Heartbeat
<1> DEFINE e == [Env EXCEPT !.beat = b, !.fresh = TRUE]
<1>2. /\ host.up /\ UNCHANGED <<selected, runner, verdict>>
      /\ host' = host \/ \E busy : host' \in Heard(host, e, busy)
  BY <1>1 DEF Hears, installer
<1> HIDE DEF e
<1>3. Right(host')
  BY <1>2, HeardRight, Smaller DEF HostInv, Inv
<1> QED
  BY <1>2, <1>3, HeartbeatKeeps, ControllerKeeps DEF HostInv

LEMMA FunctionRight ==
  ASSUME HostInv, Poll \/ PrepareReturns \/ Progress \/ PreflightReturns \/ ReconcileReturns
                    \/ AwaitFails \/ RunReturns
  PROVE  HostInv'
<1>0. Inv' /\ UNCHANGED <<selected, runner, verdict>> /\ host.up
  BY FunctionKeeps DEF HostInv, Poll, PrepareReturns, Progress, PreflightReturns, ReconcileReturns,
     AwaitFails, RunReturns, Supervise, installer
<1>1. SupOK(host, {}) /\ Right(host) /\ Env.selected = selected
  BY Smaller DEF HostInv, Inv, Env
<1>2. ASSUME host.at # "idle" PROVE Amid(host) /\ Even(host) /\ host.for \in Jobs
  BY <1>1, <1>2, AtWork DEF Amid, Filed
<1>3. CASE Poll
  BY <1>0, <1>1, <1>3, KickRight, ControllerKeeps DEF Poll, Supervise
<1>4. CASE PrepareReturns
  BY <1>0, <1>1, <1>4, PreparedRight, ControllerKeeps DEF PrepareReturns, Supervise
<1>5. CASE Progress
  BY <1>0, <1>1, <1>5, ProgressRight, ControllerKeeps DEF Progress, Supervise
<1>6. CASE PreflightReturns
  BY <1>0, <1>1, <1>6, QualifiedRight, ControllerKeeps DEF PreflightReturns, Supervise
<1>7. CASE ReconcileReturns
  <2>1. host.at = "reconcile" /\ host' \in Reconciled(host, Env, verdict[host.for])
    BY <1>7 DEF ReconcileReturns, Supervise
  <2>2. verdict[host.for] \in Verdicts /\ (verdict[host.for] # "none" => runner[host.for] = "exited")
    BY <1>2, <2>1 DEF HostInv, Inv, TypeOK, ResultEnds
  <2> QED
    BY <1>0, <1>1, <2>1, <2>2, ReconciledRight, ControllerKeeps
<1>8. CASE AwaitFails
  <2>1. host.at # "idle" /\ host' \in Fails(host)
    BY <1>8 DEF AwaitFails, Supervise
  <2> QED
    BY <1>0, <1>2, <2>1, ThrowsRight, ControllerKeeps
<1>9. CASE RunReturns
  <2>1. /\ host.at = "run" /\ runner[host.for] = "exited" /\ verdict[host.for] # "none"
        /\ host' \in Accepted(host, Env, verdict[host.for])
    BY <1>9 DEF RunReturns, Supervise
  <2>2. verdict[host.for] \in Verdicts \ {"none"}
    BY <1>2, <2>1 DEF HostInv, Inv, TypeOK
  <2> QED
    BY <1>0, <1>1, <2>1, <2>2, AcceptedRight, ControllerKeeps
<1> QED
  BY <1>3, <1>4, <1>5, <1>6, <1>7, <1>8, <1>9

LEMMA RequestRight ==
  ASSUME HostInv, Request \/ Cancel
  PROVE  HostInv'
<1>0. Inv' /\ UNCHANGED <<selected, runner, verdict>> /\ host.up
  BY RequestKeeps DEF HostInv, Request, Cancel, Supervise, installer
<1>1. SupOK(host, {}) /\ Right(host) /\ Env \in Envs
  BY Smaller, EnvTyped DEF HostInv, Inv
<1>2. CASE Request
  BY <1>0, <1>1, <1>2, RequestedRight, ControllerKeeps DEF Request, Supervise
<1>3. CASE Cancel
  BY <1>0, <1>1, <1>3, CancelledRight, ControllerKeeps DEF Cancel, Supervise
<1> QED
  BY <1>2, <1>3

LEMMA LeaseRight ==
  ASSUME HostInv, Operate \/ SwitchFrontend
  PROVE  HostInv'
<1>1. UNCHANGED <<host, selected, runner, verdict>>
  BY DEF Operate, SwitchFrontend, installer
<1> QED
  BY <1>1, OperateKeeps, SwitchKeeps, ControllerKeeps DEF HostInv

LEMMA LifeRight ==
  ASSUME HostInv, Stale \/ Stop \/ Crash \/ Refresh
  PROVE  HostInv'
<1>0. Inv' /\ UNCHANGED <<selected, runner, verdict>>
  BY LifeKeeps DEF HostInv, Stale, Stop, Crash, Refresh, Supervise, installer
<1>1. CASE Stale \/ Refresh
  BY <1>0, <1>1, ControllerKeeps DEF Stale, Refresh, HostInv
<1>2. CASE Stop
  <2>1. host' = [host EXCEPT !.stopped = TRUE] /\ host \in Supervisor
    BY <1>2 DEF Stop, Supervise, HostInv, Inv, SupOK, FiledOK
  <2>2. /\ host'.mem = host.mem /\ host'.at = host.at /\ host'.for = host.for
        /\ host'.up = host.up /\ host'.journal = host.journal /\ host'.current = host.current
    BY <2>1 DEF Supervisor
  <2>3. Right(host')
    BY <2>2 DEF HostInv, Right, FileRight, MemRight, AwaitRight, Even
  <2> QED
    BY <1>0, <2>3, ControllerKeeps
<1>3. CASE Crash
  <2>1. host' = Exited(host) /\ FiledOK(host, {}) /\ FileRight(host)
    BY <1>3, Smaller DEF Crash, Supervise, HostInv, Inv, SupOK, Right
  <2> QED
    BY <1>0, <2>1, ExitedRight, ControllerKeeps
<1> QED
  BY <1>1, <1>2, <1>3

\* What a controller finds on its disk when it starts.
LEMMA RestartRight ==
  ASSUME HostInv, Restart
  PROVE  HostInv'
<1> DEFINE j == IF host.current = None THEN NoJob ELSE host.journal[host.current]
<1>0. Inv' /\ UNCHANGED <<selected, runner, verdict>>
  BY RestartKeeps DEF HostInv, Restart, installer
<1>1. ~host.up /\ host' = [host EXCEPT !.up = TRUE, !.mem = j] /\ host \in Supervisor
  BY DEF Restart, HostInv, Inv, SupOK, FiledOK
<1>2. host.at = "idle" /\ FileRight(host) /\ FiledOK(host, Launched)
  BY <1>1 DEF HostInv, Inv, SupOK, Right
<1>3. /\ host'.mem = j /\ host'.at = "idle" /\ host'.journal = host.journal
      /\ host'.current = host.current /\ host'.up
  BY <1>1, <1>2 DEF Supervisor
<1>4. j # NoJob => /\ host.current \in Jobs /\ j = host.journal[host.current] /\ j.id = host.current
                   /\ Sane(j)
  BY <1>1, <1>2 DEF Supervisor, FiledOK, FileRight
<1>5. ASSUME NEW k \in Jobs, Running(k) PROVE j # NoJob /\ j.id = k /\ j.hold
  <2>1. host.current = k /\ host.journal[k].hold /\ k \in Filed(host) /\ host.current # None
    BY <1>2, <1>5, LeaseAssumption DEF FileRight, FiledOK, Launched, Running
  <2>2. j = host.journal[k] /\ j \in Job
    BY <2>1 DEF Filed
  <2> QED
    BY <1>4, <2>1, <2>2, NoJobAssumption
<1> HIDE DEF j
<1>6. Right(host')
  <2>1. FileRight(host')
    BY <1>2, <1>3 DEF FileRight
  <2>2. MemRight(host')
    BY <1>3, <1>4, <1>5 DEF MemRight, Even
  <2>3. AwaitRight(host')
    BY <1>3 DEF AwaitRight
  <2> QED
    BY <2>1, <2>2, <2>3 DEF Right
<1> QED
  BY <1>0, <1>6, ControllerKeeps

LEMMA LaunchRight ==
  ASSUME HostInv, Launch
  PROVE  HostInv'
<1>1. /\ host.at = "run" /\ runner[host.for] = "none"
      /\ runner' = [runner EXCEPT ![host.for] = "validating"]
      /\ UNCHANGED <<host, selected, verdict>>
  BY DEF Launch
<1>2. /\ Amid(host) /\ Even(host) /\ host.mem.started /\ host.mem.hold /\ host.journal[host.for].hold
      /\ host.current = host.for /\ host.mem.id = host.for /\ host.mem # NoJob
  BY <1>1, AtWork, Smaller, NoJobAssumption DEF HostInv, Inv, Right, AwaitRight, Amid
<1>3. host.for \in Jobs /\ verdict[host.for] = "none"
  BY <1>1, <1>2 DEF Amid, Filed, HostInv, ResultEnds
<1>4. \A k \in Jobs : runner'[k] = IF k = host.for THEN "validating" ELSE runner[k]
  BY <1>1 DEF HostInv, Inv, TypeOK
<1>5. FileRight(host)'
  <2>1. ASSUME NEW k \in Jobs, Running(k)'
        PROVE  host.current = k /\ host.journal[k].started /\ host.journal[k].hold
    BY <1>1, <1>2, <1>4, <2>1 DEF Even, HostInv, Right, FileRight, Running
  <2>2. ASSUME NEW k \in Jobs, host.journal[k] # NoJob
        PROVE  /\ Sane(host.journal[k])
               /\ Settled(host.journal[k]) =>
                    Stated(host.journal[k])' /\ (host.current = k => Chosen(host.journal[k])')
    <3>1. host.journal[k].id = k
      BY <2>2 DEF HostInv, Inv, SupOK, FiledOK
    <3> QED
      BY <1>1, <1>2, <1>3, <1>4, <2>2, <3>1 DEF HostInv, Right, FileRight, Settled, Stated, Chosen
  <2> QED
    BY <1>1, <2>1, <2>2 DEF FileRight, Sane, Settled
<1>6. MemRight(host)'
  <2>1. \A k \in Jobs : Running(k)' => host.mem.id = k
    BY <1>1, <1>2, <1>4 DEF HostInv, Right, MemRight, Running, Amid
  <2> QED
    BY <1>1, <1>2, <2>1 DEF MemRight, Amid, Even, Sane, HostInv, Right
<1>7. AwaitRight(host)' /\ ResultEnds'
  BY <1>1, <1>3, <1>4 DEF HostInv, Right, AwaitRight, ResultEnds
<1> QED
  BY <1>5, <1>6, <1>7, LaunchKeeps DEF HostInv, Right

\* An installer that is under way moves on, and nobody else's record is touched.
LEMMA MovesRight ==
  ASSUME HostInv, Inv', NEW k \in Jobs, NEW from \in SUBSET (Stages \ {"none", "exited"}),
         NEW to \in Stages \ {"none"}, Moves(k, from, to),
         host' = host \/ \E s \in States \ (Preparing \cup {"cancelled"}) : host' \in Reported(host, k, s),
         verdict' = verdict \/ (to = "exited" /\ \E v \in Verdicts : verdict' = [verdict EXCEPT ![k] = v])
  PROVE  HostInv'
<1>1. SupOK(host, {}) /\ Right(host) /\ SupOK(host', {})
  BY Smaller DEF HostInv, Inv
<1>2. Right(host')
  BY <1>1, ReportedRight
<1>3. /\ runner[k] \notin {"none", "exited"}
      /\ \A i \in Jobs : runner'[i] = IF i = k THEN to ELSE runner[i]
      /\ \A i \in Jobs : i # k => verdict'[i] = verdict[i]
      /\ to # "exited" => verdict' = verdict
  BY DEF Moves, HostInv, Inv, TypeOK
<1>4. Running(k)
  BY <1>3 DEF HostInv, ResultEnds, Running
<1>5. \A i \in Jobs : Running(i)' => Running(i)
  BY <1>3, <1>4 DEF Running
<1>6. host'.current = k /\ host'.journal[k].hold
  BY <1>2, <1>4 DEF Right, FileRight
<1>7. FileRight(host)'
  <2>1. ASSUME NEW i \in Jobs, host'.journal[i] # NoJob
        PROVE  /\ Sane(host'.journal[i])
               /\ Settled(host'.journal[i]) =>
                    Stated(host.journal[i])' /\ (host'.current = i => Chosen(host.journal[i])')
    <3>1. host'.journal[i].id = i
      BY <1>1, <2>1 DEF SupOK, FiledOK
    <3>2. CASE i = k
      BY <1>2, <1>6, <2>1, <3>2 DEF Right, FileRight, Settled
    <3>3. CASE i # k
      <4>1. Sane(host'.journal[i]) /\ (Settled(host'.journal[i]) => Stated(host'.journal[i]))
        BY <1>2, <2>1 DEF Right, FileRight
      <4>2. verdict'[i] = verdict[i] /\ runner'[i] = runner[i] /\ host'.current # i
        BY <1>3, <1>6, <3>3
      <4> QED
        BY <3>1, <4>1, <4>2 DEF Stated
    <3> QED
      BY <3>2, <3>3
  <2>2. \A i \in Jobs : Running(i)' =>
          host'.current = i /\ host'.journal[i].started /\ host'.journal[i].hold
    BY <1>2, <1>5 DEF Right, FileRight
  <2> QED
    BY <2>1, <2>2 DEF FileRight, Sane, Settled
<1>8. MemRight(host)' /\ AwaitRight(host)'
  BY <1>2, <1>5 DEF Right, MemRight, AwaitRight, Even, Sane
<1>9. ResultEnds'
  BY <1>3 DEF HostInv, ResultEnds
<1> QED
  BY <1>7, <1>8, <1>9 DEF HostInv, Right

LEMMA RunnerRight ==
  ASSUME HostInv, NEW k \in Jobs, Runner(k)
  PROVE  HostInv'
<1>0. Inv' /\ {"preparing", "installing", "checking"} \subseteq States \ (Preparing \cup {"cancelled"})
  BY RunnerKeeps DEF HostInv, States, Terminal, Preparing
<1>1. CASE RunnerPrepares(k)
  BY <1>0, <1>1, MovesRight DEF RunnerPrepares, Stages
<1>2. CASE RunnerAdmits(k)
  BY <1>0, <1>2, MovesRight DEF RunnerAdmits, Stages
<1>3. CASE RunnerStops(k)
  BY <1>0, <1>3, MovesRight DEF RunnerStops, Stages
<1>4. CASE RunnerSwitches(k)
  BY <1>0, <1>4, MovesRight DEF RunnerSwitches, Stages
<1>5. CASE RunnerChecks(k)
  BY <1>0, <1>5, MovesRight DEF RunnerChecks, Stages
<1>6. CASE RunnerRestores(k)
  BY <1>0, <1>6, MovesRight DEF RunnerRestores, Stages, Verdicts
<1>7. CASE RunnerReturns(k)
  BY <1>0, <1>7, MovesRight DEF RunnerReturns, Stages
<1>8. CASE RunnerAccepts(k)
  <2>1. UNCHANGED <<host, verdict>>
    BY <1>8 DEF RunnerAccepts
  <2>2. CASE Moves(k, {"checking"}, "completed")
    BY <1>0, <2>1, <2>2, MovesRight DEF Stages, Verdicts
  <2>3. CASE Moves(k, {"returned"}, "restored")
    BY <1>0, <2>1, <2>3, MovesRight DEF Stages, Verdicts
  <2>4. CASE Moves(k, {"validating", "preparing", "admitted", "stopped"}, "unchanged")
    BY <1>0, <2>1, <2>4, MovesRight DEF Stages, Verdicts
  <2> QED
    BY <1>8, <2>2, <2>3, <2>4 DEF RunnerAccepts
<1>9. CASE RunnerPublishes(k)
  <2>1. runner[k] \in Verdicts /\ verdict' = [verdict EXCEPT ![k] = runner[k]] /\ host' = host
    BY <1>9 DEF RunnerPublishes, Moves
  <2>2. Moves(k, Verdicts \ {"none"}, "exited")
    BY <1>9 DEF RunnerPublishes
  <2>3. Verdicts \ {"none"} \in SUBSET (Stages \ {"none", "exited"}) /\ "exited" \in Stages \ {"none"}
    BY DEF Stages, Verdicts
  <2> QED
    BY <1>0, <2>1, <2>2, <2>3, MovesRight
<1>10. CASE RunnerDies(k)
  BY <1>0, <1>10, MovesRight DEF RunnerDies, Stages
<1> QED
  BY <1>1, <1>2, <1>3, <1>4, <1>5, <1>6, <1>7, <1>8, <1>9, <1>10 DEF Runner

LEMMA InitHostInv ==
  ASSUME Init
  PROVE  HostInv
<1>1. Inv
  BY InitInv
<1>2. host.mem = NoJob /\ host.at = "idle" /\ \A k \in Jobs : host.journal[k] = NoJob
  BY DEF Init
<1>3. \A k \in Jobs : ~Running(k) /\ verdict[k] = "none"
  BY DEF Init, Running
<1> QED
  BY <1>1, <1>2, <1>3 DEF HostInv, ResultEnds, Right, FileRight, MemRight, AwaitRight

LEMMA NextHostInv ==
  ASSUME HostInv, [Next]_vars
  PROVE  HostInv'
<1>1. CASE UNCHANGED vars
  BY <1>1, NextInv, ControllerKeeps DEF vars, HostInv
<1>2. CASE Next
  BY <1>2, HeartbeatRight, FunctionRight, RequestRight, LeaseRight, RestartRight, LifeRight,
     LaunchRight, RunnerRight DEF Next
<1> QED
  BY <1>1, <1>2

LEMMA HostInvHolds == Spec => []HostInv
BY InitHostInv, NextHostInv, PTL DEF Spec

\* From its launch to its result, through every crash, an installation is the
\* selected job on disk, started and holding, and a controller that is up holds
\* the workspace for it (SoftwareUpdateSupervisor, createSoftwareUpdateHostController).
THEOREM InstallerIsCovered == Spec => []HoldCoversInstaller
<1>1. HostInv => HoldCoversInstaller
  <2> SUFFICES ASSUME HostInv, NEW k \in Jobs, Running(k)
               PROVE  /\ host.current = k /\ host.journal[k].started /\ host.journal[k].hold
                      /\ host.up => HoldFor = k
    BY DEF HoldCoversInstaller, Running
  <2>1. host.current = k /\ host.journal[k].started /\ host.journal[k].hold
    BY DEF HostInv, Right, FileRight
  <2>2. ASSUME host.up PROVE HoldFor = k
    <3>1. host.mem # NoJob /\ host.mem.id = k /\ host.mem.hold
      BY <2>2 DEF HostInv, Right, MemRight
    <3>2. ~OperatorActive(operator)
      BY <2>2, <3>1 DEF HostInv, Inv, OneAuthority, Installing, Unsettled, Busy
    <3> QED
      BY <3>1, <3>2 DEF HoldFor
  <2> QED
    BY <2>1, <2>2
<1> QED
  BY <1>1, HostInvHolds, PTL

\* A started job that let the workspace go has a result, states it, and its
\* candidate is selected as long as no other job is (SoftwareUpdateSupervisor.accept).
THEOREM SettledStatesResult == Spec => []SettledIsTrue
<1>1. HostInv => SettledIsTrue
  <2> SUFFICES ASSUME HostInv, NEW k \in Jobs, host.journal[k] # NoJob, Settled(host.journal[k])
               PROVE  /\ verdict[k] # "none" /\ runner[k] = "exited"
                      /\ host.journal[k].state = (IF verdict[k] = "unchanged" THEN "failed" ELSE verdict[k])
                      /\ host.current = k =>
                           selected = host.journal[k].from + (IF verdict[k] = "completed" THEN 1 ELSE 0)
    BY DEF SettledIsTrue, Settled
  <2>1. host.journal[k].id = k
    BY DEF HostInv, Inv, SupOK, FiledOK
  <2> QED
    BY <2>1 DEF HostInv, Right, FileRight, Stated, Chosen
<1> QED
  BY <1>1, HostInvHolds, PTL

-----------------------------------------------------------------------------
(* The operator lease.                                                     *)

\* A lease that is being cancelled stopped nothing, one that ends says why, and
\* one past its stop is marked.
Unstopped(r) ==
  /\ r.releaseKind = "cancelled" \/ r.phase = "cancelled" => ~r.stopMarked
  /\ r.releaseKind = "cancelled" => r.phase \in {"releasing", "cancelled", "failed"}
  /\ r.phase \in {"releasing", "released", "cancelled"} => r.releaseKind # "none"
  /\ r.phase \in {"stopping", "stopped", "snapshot", "restore", "checking"} => r.stopMarked

\* On disk only the current lease is open.
LeasesRight(l) ==
  \A i \in Maintenances : l.disk[i] # NoLease =>
    /\ l.disk[i].id = i /\ Unstopped(l.disk[i])
    /\ l.current # i => ~Open(l.disk[i])

\* The controller that knows its lease knows it as it is on disk.
Known(l) == ~l.uncertain => l.mem = IF l.current = None THEN NoLease ELSE l.disk[l.current]

\* The inductive invariant, of the lease.
LeaseInv == LeasesRight(operator) /\ (host.up => Known(operator))

LEMMA SavesRight ==
  ASSUME NEW l \in OperatorLeases, LeasesRight(l), NEW r \in Maintenance, Unstopped(r),
         \A i \in Maintenances : i # r.id => ~Open(l.disk[i]), NEW g \in Saves(l, r)
  PROVE  LeasesRight(g) /\ Known(g)
<1> DEFINE d == [l EXCEPT !.disk[r.id] = r, !.current = r.id]
<1>1. r.id \in Maintenances /\ r.id # None
  BY LeaseAssumption DEF Maintenance
<1>2. /\ d \in OperatorLeases /\ d.current = r.id
      /\ \A i \in Maintenances : d.disk[i] = IF i = r.id THEN r ELSE l.disk[i]
  BY <1>1 DEF OperatorLeases
<1>3. g = [d EXCEPT !.mem = r] \/ g = [d EXCEPT !.uncertain = TRUE] \/ g = [l EXCEPT !.uncertain = TRUE]
  BY DEF Saves
<1> HIDE DEF d
<1>4. LeasesRight(d)
  BY <1>1, <1>2 DEF LeasesRight
<1>5. CASE g = [d EXCEPT !.mem = r]
  <2>1. g.disk = d.disk /\ g.current = d.current /\ g.mem = r
    BY <1>2, <1>5 DEF OperatorLeases
  <2> QED
    BY <1>1, <1>2, <1>4, <2>1 DEF LeasesRight, Known
<1>6. CASE g = [d EXCEPT !.uncertain = TRUE]
  <2>1. g.disk = d.disk /\ g.current = d.current /\ g.uncertain
    BY <1>2, <1>6 DEF OperatorLeases
  <2> QED
    BY <1>4, <2>1 DEF LeasesRight, Known
<1>7. CASE g = [l EXCEPT !.uncertain = TRUE]
  <2>1. g.disk = l.disk /\ g.current = l.current /\ g.uncertain
    BY <1>7 DEF OperatorLeases
  <2> QED
    BY <2>1 DEF LeasesRight, Known
<1> QED
  BY <1>3, <1>5, <1>6, <1>7

\* The lease a controller knows may be saved again, changed.
LEMMA AgainRight ==
  ASSUME NEW l \in OperatorLeases, LeasesRight(l), Known(l), ~l.uncertain, l.mem # NoLease,
         NEW r \in Maintenance, r.id = l.mem.id, Unstopped(r), NEW g \in Saves(l, r)
  PROVE  LeasesRight(g) /\ Known(g)
<1>1. l.current \in Maintenances /\ l.mem = l.disk[l.current] /\ l.mem.id = l.current
  BY DEF Known, OperatorLeases, LeasesRight
<1>2. \A i \in Maintenances : i # r.id => ~Open(l.disk[i])
  BY <1>1 DEF LeasesRight, Open
<1> QED
  BY <1>2, SavesRight

LEMMA MemUnstopped ==
  ASSUME NEW l \in OperatorLeases, LeasesRight(l), Known(l), ~l.uncertain, l.mem # NoLease
  PROVE  l.mem \in Maintenance /\ Unstopped(l.mem)
BY DEF Known, OperatorLeases, LeasesRight

LEMMA LeaseFields ==
  ASSUME NEW r \in Maintenance, NEW p \in Phases
  PROVE  /\ [r EXCEPT !.phase = p].id = r.id /\ [r EXCEPT !.phase = p].phase = p
         /\ [r EXCEPT !.phase = p].stopMarked = r.stopMarked
         /\ [r EXCEPT !.phase = p].releaseKind = r.releaseKind
BY DEF Maintenance

LEMMA ObservedRight ==
  ASSUME NEW l \in OperatorLeases, LeasesRight(l), Known(l), NEW e, NEW g \in Observed(l, e)
  PROVE  LeasesRight(g) /\ Known(g)
<1>1. CASE g = l
  BY <1>1
<1>2. CASE /\ ~l.uncertain /\ Open(l.mem)
           /\ \E p \in Phases : /\ g \in Saves(l, [l.mem EXCEPT !.phase = p])
                                /\ \/ p = "failed"
                                   \/ p = "held" /\ l.mem.phase = "entered"
                                   \/ /\ p \in {"cancelled", "released"} /\ p \in Conclusions(l.mem)
                                      /\ l.mem.phase = "releasing"
  <2>1. PICK p \in Phases : /\ g \in Saves(l, [l.mem EXCEPT !.phase = p])
                            /\ \/ p = "failed"
                               \/ p = "held" /\ l.mem.phase = "entered"
                               \/ /\ p \in {"cancelled", "released"} /\ p \in Conclusions(l.mem)
                                  /\ l.mem.phase = "releasing"
    BY <1>2
  <2>2. l.mem \in Maintenance /\ Unstopped(l.mem) /\ l.mem # NoLease
    BY <1>2, MemUnstopped DEF Open
  <2> DEFINE r == [l.mem EXCEPT !.phase = p]
  <2>3. /\ r \in Maintenance /\ r.id = l.mem.id /\ r.phase = p /\ r.stopMarked = l.mem.stopMarked
        /\ r.releaseKind = l.mem.releaseKind
    BY <2>2, LeaseFields, MaintenancePhase
  <2> HIDE DEF r
  <2>4. Unstopped(r)
    BY <2>1, <2>2, <2>3 DEF Unstopped, Conclusions
  <2> QED
    BY <1>2, <2>1, <2>2, <2>3, <2>4, AgainRight DEF r
<1>3. \/ g = l
      \/ /\ ~l.uncertain /\ Open(l.mem)
         /\ \/ g \in Saves(l, [l.mem EXCEPT !.phase = "failed"])
            \/ l.mem.phase = "entered" /\ g \in Saves(l, [l.mem EXCEPT !.phase = "held"])
            \/ /\ l.mem.phase = "releasing"
               /\ \E p \in Conclusions(l.mem) : g \in Saves(l, [l.mem EXCEPT !.phase = p])
  BY DEF Observed
<1>4. {"failed", "held"} \subseteq Phases /\ Conclusions(l.mem) \subseteq {"cancelled", "released", "failed"}
      /\ {"cancelled", "released", "failed"} \subseteq Phases
  BY DEF Phases, Conclusions
<1> QED
  BY <1>1, <1>2, <1>3, <1>4

LEMMA OperatedRight ==
  ASSUME NEW l \in OperatorLeases, LeasesRight(l), Known(l), NEW e \in Envs, NEW i \in Maintenances,
         NEW epoch \in Epochs, NEW idle,
         NEW g \in Entered(l, e, i, epoch, idle) \cup Marked(l, e, i, idle)
                     \cup OperatorCancelled(l, e, i, idle) \cup Released(l, e, i, idle)
  PROVE  LeasesRight(g) /\ Known(g)
<1> DEFINE n == [id |-> i, candidate |-> e.selected, epoch |-> epoch, phase |-> "entered",
                 stopMarked |-> FALSE, releaseKind |-> "none"]
<1>1. CASE g = l
  BY <1>1
<1>2. CASE ~OperatorActive(l) /\ g \in Saves(l, n)
  <2>1. n \in Maintenance /\ n.id = i /\ Unstopped(n)
    BY DEF Envs, Maintenance, Phases, Unstopped
  <2>2. \A k \in Maintenances : ~Open(l.disk[k])
    <3>1. ~Open(l.mem) /\ l.mem = (IF l.current = None THEN NoLease ELSE l.disk[l.current])
      BY <1>2 DEF OperatorActive, Known
    <3>2. \A k \in Maintenances : l.current # k => ~Open(l.disk[k])
      BY DEF LeasesRight, Open
    <3> QED
      BY <3>1, <3>2, LeaseAssumption
  <2> HIDE DEF n
  <2> QED
    BY <1>2, <2>1, <2>2, SavesRight
<1>3. ASSUME Owned(l, e, i)
      PROVE  ~l.uncertain /\ l.mem # NoLease /\ l.mem \in Maintenance /\ Unstopped(l.mem)
  BY <1>3, MemUnstopped DEF Owned
<1>4. CASE g \in Marked(l, e, i, idle) /\ g # l
  <2>1. PICK p \in Allowed(l.mem) : g \in Saves(l, [l.mem EXCEPT !.phase = p, !.stopMarked = TRUE])
    BY <1>4 DEF Marked
  <2>2. Owned(l, e, i)
    BY <1>4 DEF Marked
  <2>3. p \in Phases /\ (l.mem.phase \notin {"releasing", "cancelled"})
        /\ (l.mem.phase = "failed" => l.mem.stopMarked)
    BY DEF Allowed, Phases
  <2> DEFINE r == [l.mem EXCEPT !.phase = p, !.stopMarked = TRUE]
  <2>4. r \in Maintenance /\ r.id = l.mem.id /\ r.releaseKind = l.mem.releaseKind /\ r.phase = p
        /\ r.stopMarked
    BY <1>3, <2>2, <2>3 DEF Maintenance
  <2> HIDE DEF r
  <2>5. l.mem.releaseKind # "cancelled" /\ p \notin {"releasing", "released", "cancelled"}
    BY <1>3, <2>2, <2>3 DEF Unstopped, Allowed
  <2> QED
    BY <1>3, <2>1, <2>2, <2>4, <2>5, AgainRight DEF Unstopped, r
<1>5. CASE g \in OperatorCancelled(l, e, i, idle) /\ g # l
  <2> DEFINE r == [l.mem EXCEPT !.phase = "releasing", !.releaseKind = "cancelled"]
  <2>1. Owned(l, e, i) /\ ~l.mem.stopMarked /\ g \in Saves(l, r)
    BY <1>5 DEF OperatorCancelled
  <2>2. r \in Maintenance /\ r.id = l.mem.id /\ r.stopMarked = l.mem.stopMarked /\ r.phase = "releasing"
        /\ r.releaseKind = "cancelled"
    BY <1>3, <2>1 DEF Maintenance, Phases
  <2> HIDE DEF r
  <2> QED
    BY <1>3, <2>1, <2>2, AgainRight DEF Unstopped
<1>6. CASE g \in Released(l, e, i, idle) /\ g # l
  <2> DEFINE r1 == [l.mem EXCEPT !.phase = "failed"]
             r2 == [l.mem EXCEPT !.phase = "releasing", !.releaseKind = "proved"]
  <2>1. Owned(l, e, i) /\ (g \in Saves(l, r1) \/ g \in Saves(l, r2))
    BY <1>6 DEF Released
  <2>2. /\ r1 \in Maintenance /\ r1.id = l.mem.id /\ r1.stopMarked = l.mem.stopMarked
        /\ r1.phase = "failed" /\ r1.releaseKind = l.mem.releaseKind
        /\ r2 \in Maintenance /\ r2.id = l.mem.id /\ r2.releaseKind = "proved" /\ r2.phase = "releasing"
    BY <1>3, <2>1 DEF Maintenance, Phases
  <2> HIDE DEF r1, r2
  <2>3. Unstopped(r1) /\ Unstopped(r2)
    BY <1>3, <2>1, <2>2 DEF Unstopped
  <2> QED
    BY <1>3, <2>1, <2>2, <2>3, AgainRight
<1>7. g \in Entered(l, e, i, epoch, idle) => g = l \/ (~OperatorActive(l) /\ g \in Saves(l, n))
  BY DEF Entered
<1> QED
  BY <1>1, <1>2, <1>4, <1>5, <1>6, <1>7

LEMMA LoadedRight ==
  ASSUME NEW l \in OperatorLeases, LeasesRight(l)
  PROVE  LeasesRight(Loaded(l)) /\ Known(Loaded(l)) /\ LeasesRight(Forgotten(l))
BY DEF Loaded, Forgotten, OperatorLeases, LeasesRight, Known

\* Of the lease o and the heartbeat b a controller remembers what it has.
LEMMA RemembersRight ==
  ASSUME NEW o \in OperatorLeases, LeasesRight(o), Known(o), NEW b, NEW f, Remembers(o, b, f)
  PROVE  LeaseInv'
BY LoadedRight DEF Remembers, LeaseInv, LeasesRight, Known, Unstopped, Open

LEMMA NextLeaseInv ==
  ASSUME Inv, LeaseInv, [Next]_vars
  PROVE  LeaseInv'
<1>0. operator \in OperatorLeases /\ Env \in Envs
  BY EnvTyped DEF Inv, TypeOK
<1>1. ASSUME UNCHANGED operator, host'.up => host.up PROVE LeaseInv'
  BY <1>1 DEF LeaseInv, LeasesRight, Known, Unstopped, Open
<1>2. CASE Heartbeat
  <2>1. PICK b \in [candidate : {selected}, epoch : Epochs, native : BOOLEAN,
            heldFor : {None} \cup {k \in Jobs : host.journal[k] # NoJob}
                             \cup {i \in Maintenances : operator.disk[i] # NoLease},
            blockers : {"none", "work", "switch"}] : Hears(b)
    BY <1>2 DEF Heartbeat
  <2>2. PICK o \in Observed(operator, [Env EXCEPT !.beat = b, !.fresh = TRUE]) :
          host.up /\ Remembers(o, b, TRUE)
    BY <2>1 DEF Hears
  <2>3. o \in OperatorLeases /\ LeasesRight(o) /\ Known(o)
    BY <1>0, <2>2, ObservedKeeps, ObservedRight DEF LeaseInv
  <2> QED
    BY <2>2, <2>3, RemembersRight
<1>3. ASSUME NEW hs, Supervise(hs) PROVE LeaseInv'
  BY <1>0, <1>3, RemembersRight DEF Supervise, LeaseInv
<1>4. CASE Poll \/ Request \/ Cancel \/ PrepareReturns \/ Progress \/ PreflightReturns
             \/ ReconcileReturns \/ AwaitFails \/ RunReturns \/ Stop \/ Crash
  BY <1>3, <1>4 DEF Poll, Request, Cancel, PrepareReturns, Progress, PreflightReturns,
     ReconcileReturns, AwaitFails, RunReturns, Stop, Crash
<1>5. CASE Operate
  <2>1. PICK i \in Maintenances, epoch \in Epochs :
          LET idle == ~Installing /\ ~FrontendActive(frontend) IN
          operator' \in Entered(operator, Env, i, epoch, idle) \cup Marked(operator, Env, i, idle)
                          \cup OperatorCancelled(operator, Env, i, idle) \cup Released(operator, Env, i, idle)
    BY <1>5 DEF Operate
  <2>2. host.up /\ host' = host
    BY <1>5 DEF Operate
  <2>3. LeasesRight(operator') /\ Known(operator')
    BY <1>0, <2>1, <2>2, OperatedRight DEF LeaseInv
  <2> QED
    BY <2>3 DEF LeaseInv, LeasesRight, Known, Unstopped, Open
<1>6. CASE Restart
  <2>1. operator' = Loaded(operator)
    BY <1>6 DEF Restart
  <2>2. LeasesRight(operator') /\ Known(operator')
    BY <1>0, <2>1, LoadedRight DEF LeaseInv
  <2> QED
    BY <2>2 DEF LeaseInv, LeasesRight, Known, Unstopped, Open
<1>7. CASE Stale \/ Refresh \/ SwitchFrontend \/ Launch
  BY <1>1, <1>7 DEF Stale, Refresh, SwitchFrontend, Launch
<1>8. ASSUME NEW k \in Jobs, Runner(k) PROVE LeaseInv'
  <2>1. UNCHANGED operator
    BY <1>8 DEF Runner, RunnerPrepares, RunnerAdmits, RunnerStops, RunnerSwitches, RunnerChecks,
       RunnerRestores, RunnerReturns, RunnerAccepts, RunnerPublishes, RunnerDies, Moves
  <2>2. host' = host \/ \E s \in States : host' \in Reported(host, k, s)
    BY <1>8 DEF Runner, RunnerPrepares, RunnerAdmits, RunnerStops, RunnerSwitches, RunnerChecks,
       RunnerRestores, RunnerReturns, RunnerAccepts, RunnerPublishes, RunnerDies, Moves, States
  <2>3. host'.up = host.up
    BY <2>2, ReportedKeeps DEF Inv
  <2> QED
    BY <1>1, <2>1, <2>3
<1>9. CASE UNCHANGED vars
  BY <1>1, <1>9 DEF vars
<1> QED
  BY <1>2, <1>4, <1>5, <1>6, <1>7, <1>8, <1>9 DEF Next

\* While the application may be stopped its operator lease is the current one on
\* disk, and a controller that knows it holds the workspace for it
\* (OperatorMaintenance: mark, release, observe).
THEOREM StoppedStaysHeld == Spec => []StoppedIsHeld
<1>1. Init => LeaseInv
  BY DEF Init, LeaseInv, LeasesRight, Known, NoLeases
<1>2. Inv /\ LeaseInv => StoppedIsHeld
  <2> SUFFICES ASSUME Inv, LeaseInv, NEW i \in Maintenances, operator.disk[i] # NoLease,
                      operator.disk[i].stopMarked, operator.disk[i].phase \notin {"releasing", "released"}
               PROVE  operator.current = i /\ (host.up /\ ~operator.uncertain => HoldFor = i)
    BY DEF StoppedIsHeld
  <2>1. operator.disk[i].id = i /\ operator.current = i /\ Open(operator.disk[i])
    BY DEF LeaseInv, LeasesRight, Unstopped, Open
  <2>2. ASSUME host.up, ~operator.uncertain PROVE HoldFor = i
    <3>1. operator.mem = operator.disk[i]
      BY <2>1, <2>2, LeaseAssumption DEF LeaseInv, Known
    <3> QED
      BY <2>1, <3>1 DEF HoldFor, OperatorActive, OperatorHoldFor
  <2> QED
    BY <2>1, <2>2
<1> QED
  BY <1>1, <1>2, SpecInv, NextLeaseInv, PTL DEF Spec

-----------------------------------------------------------------------------
(* A start is admitted.                                                    *)

\* The records the supervisor makes of a job are of that job.
LEMMA SameJob ==
  ASSUME NEW j \in Job
  PROVE  /\ \A s \in States : LET r == [j EXCEPT !.state = s] IN
              r \in Job /\ r.id = j.id /\ r.started = j.started
         /\ \A s \in States, b \in BOOLEAN : LET r == [j EXCEPT !.state = s, !.hold = b] IN
              r \in Job /\ r.id = j.id /\ r.started = j.started
         /\ \A s \in States : LET r == [j EXCEPT !.state = s, !.started = TRUE] IN
              r \in Job /\ r.id = j.id /\ r.hold = j.hold /\ r.started
BY DEF Job

LEMMA FailsIdle ==
  ASSUME NEW h, FiledOK(h, {}), h.mem \in Job, NEW g \in Fails(h)
  PROVE  g.at = "idle"
<1> DEFINE j == [h.mem EXCEPT !.state = "failed", !.hold = h.mem.started]
<1>1. j \in Job
  BY JobFields, JobStateHold DEF States, Terminal
<1>2. \/ g = Idle(h)
      \/ \E w \in Written(h, j) : g = Idle(w)
      \/ \E w \in Broken(h, j) : g = Exited(w)
  BY DEF Fails
<1> HIDE DEF j
<1>3. \A w \in Written(h, j) \cup Broken(h, j) : FiledOK(w, {})
  BY <1>1, WrittenKeeps, BrokenKeeps
<1>4. \A w : FiledOK(w, {}) => Idle(w).at = "idle" /\ Idle(w) \in Supervisor
  BY AwaitKeeps DEF Idle, Awaits, FiledOK
<1>5. \A w : FiledOK(w, {}) => Exited(w).at = "idle"
  BY <1>4 DEF Exited, Supervisor
<1> QED
  BY <1>2, <1>3, <1>4, <1>5

LEMMA ChangesAt ==
  ASSUME NEW h, FiledOK(h, {}), h.mem \in Job, NEW j \in Job, NEW a \in Awaits,
         NEW g \in Change(h, j, a), g.at # "idle"
  PROVE  g.at = a /\ g.mem = j /\ g.for = h.for
<1>1. ASSUME NEW w \in Written(h, j), g = Await(w, a) PROVE g.at = a /\ g.mem = j /\ g.for = h.for
  <2>1. FiledOK(w, {}) /\ w.mem = j /\ w.for = h.for
    BY WrittenKeeps
  <2> QED
    BY <1>1, <2>1, AwaitKeeps
<1>2. ASSUME NEW w \in Broken(h, j), g \in Fails(w) PROVE FALSE
  BY <1>2, BrokenKeeps, FailsIdle
<1> QED
  BY <1>1, <1>2 DEF Change

LEMMA WorkOut ==
  ASSUME NEW h, FiledOK(h, {}), h.mem \in Job, NEW e, NEW g,
         \/ g \in Waits(h) \/ g \in Unverified(h, e) \/ g \in Qualify(h, e) \/ g \in Advance(h, e)
  PROVE  g.at # "run"
<1>1. /\ {"waiting", "downloading", "failed"} \subseteq States
      /\ {"idle", "preflight", "reconcile", "prepare"} \subseteq Awaits
  BY DEF States, Preparing, Terminal, Awaits
<1>2. \A a \in {"idle", "preflight", "reconcile", "prepare"} : Await(h, a).at # "run"
  BY <1>1, AwaitKeeps
<1>3. \A j \in Job, a \in {"idle", "prepare"} : g \in Change(h, j, a) => g.at # "run"
  BY <1>1, ChangesAt
<1>4. g \in Waits(h) => g.at # "run"
  BY <1>1, <1>3, SameJob DEF Waits
<1>5. g \in Unverified(h, e) => g.at # "run"
  <2>1. g \in Unverified(h, e) =>
          g = Await(h, "idle") \/ g \in Change(h, [h.mem EXCEPT !.state = "failed", !.hold = FALSE], "idle")
    BY DEF Unverified, Idle
  <2> QED
    BY <1>1, <1>2, <1>3, <2>1, SameJob
<1>6. g \in Qualify(h, e) => g.at # "run"
  BY <1>2, <1>4 DEF Qualify, Idle
<1>7. g \in Advance(h, e) => g.at # "run"
  <2>1. g \in Advance(h, e) =>
          \/ g = Await(h, "reconcile") \/ g \in Unverified(h, e) \/ g \in Fails(h)
          \/ g \in Waits(h) \/ g \in Qualify(h, e)
          \/ g \in Change(h, [h.mem EXCEPT !.state = "downloading"], "prepare")
    BY DEF Advance
  <2>2. [h.mem EXCEPT !.state = "downloading"] \in Job
    BY <1>1, SameJob
  <2> QED
    BY <1>2, <1>3, <1>4, <1>5, <1>6, <2>1, <2>2, FailsIdle
<1> QED
  BY <1>4, <1>5, <1>6, <1>7

LEMMA KickOut ==
  ASSUME NEW h, FiledOK(h, {}), h.at # "run", NEW e, NEW busy, NEW g \in Kick(h, e, busy)
  PROVE  g.at # "run"
<1>1. CASE g = h
  BY <1>1
<1>2. CASE Restless(h.mem) /\ g \in Advance([h EXCEPT !.for = h.mem.id], e)
  <2> DEFINE f == [h EXCEPT !.for = h.mem.id]
  <2>1. h \in Supervisor /\ h.mem \in Job /\ h.mem.id \in Jobs
    BY <1>2, JobFields DEF Restless, FiledOK, Supervisor
  <2>2. f \in Supervisor /\ f.mem = h.mem /\ f.journal = h.journal
    BY <2>1 DEF Supervisor
  <2> HIDE DEF f
  <2>3. FiledOK(f, {})
    BY <2>2 DEF FiledOK, Filed
  <2> QED
    BY <1>2, <2>1, <2>2, <2>3, WorkOut DEF f
<1> QED
  BY <1>1, <1>2 DEF Kick

\* A save does not move the function.
LEMMA SavesAt ==
  ASSUME NEW h, FiledOK(h, {}), NEW j \in Job, NEW g \in Written(h, j) \cup Broken(h, j)
  PROVE  FiledOK(g, {}) /\ g.at = h.at
BY WrittenKeeps, BrokenKeeps

LEMMA RequestsOut ==
  ASSUME NEW h, FiledOK(h, {}), h.at # "run", NEW e \in Envs, NEW busy, NEW g,
         \/ g \in Heard(h, e, busy)
         \/ \E i \in Jobs : \E when : g \in Requested(h, e, i, when, busy)
         \/ \E i \in Jobs : g \in Cancelled(h, i)
  PROVE  g.at # "run"
<1>0. h \in Supervisor /\ {"waiting", "cancelled"} \subseteq States /\ "waiting" \in Preparing
  BY DEF FiledOK, States, Preparing, Terminal
<1>1. CASE g \in Heard(h, e, busy)
  <2> DEFINE j == [h.mem EXCEPT !.hold = FALSE, !.state = "waiting"]
  <2>1. \/ g \in Kick(h, e, busy)
        \/ h.mem # NoJob /\ ((\E w \in Written(h, j) : g \in Kick(w, e, busy)) \/ g \in Broken(h, j))
    BY <1>1 DEF Heard
  <2>2. h.mem # NoJob => j \in Job
    BY <1>0, JobStateHold DEF Supervisor
  <2> HIDE DEF j
  <2> QED
    BY <2>1, <2>2, SavesAt, KickOut
<1>2. ASSUME NEW i \in Jobs, NEW when, g \in Requested(h, e, i, when, busy) PROVE g.at # "run"
  <2>1. CASE h.journal[i] # NoJob /\ g \in Replayed(h, e, i, busy)
    <3> DEFINE r == [h EXCEPT !.mem = h.journal[i]]
    <3>1. g = h \/ g \in Kick(r, e, busy)
      BY <2>1 DEF Replayed
    <3>2. h.journal[i] \in Job /\ h.journal[i].id = i
      BY <1>0, <2>1 DEF Supervisor, FiledOK
    <3>3. i \in Filed(h)
      BY <3>2 DEF Filed
    <3>4. FiledOK(r, {}) /\ r.at = h.at
      BY <1>0, <3>2, <3>3, MemKeeps
    <3> HIDE DEF r
    <3> QED
      BY <3>1, <3>4, KickOut
  <2>2. CASE h.journal[i] = NoJob
    <3> DEFINE j == [id |-> i, epoch |-> e.beat.epoch, from |-> e.selected, release |-> e.feed,
                     state |-> "waiting", hold |-> FALSE, started |-> FALSE, prepared |-> FALSE]
    <3>1. \/ g = h
          \/ /\ e.beat # NoBeat /\ e.feed \in Revisions
             /\ (\E w \in Written(h, j) : g \in Kick(w, e, busy)) \/ g \in Broken(h, j)
      BY <1>2, <2>2 DEF Requested
    <3>2. e.beat # NoBeat /\ e.feed \in Revisions => j \in Job
      <4>1. ASSUME e.beat # NoBeat PROVE e.beat.epoch \in Epochs /\ e.selected \in Nat
        BY <4>1 DEF Envs, Beat
      <4> QED
        BY <1>0, <4>1 DEF Job
    <3> HIDE DEF j
    <3> QED
      BY <3>1, <3>2, SavesAt, KickOut
  <2> QED
    BY <1>2, <2>1, <2>2 DEF Requested
<1>3. ASSUME NEW i \in Jobs, g \in Cancelled(h, i) PROVE g.at # "run"
  <2> DEFINE j == [h.mem EXCEPT !.state = "cancelled", !.hold = FALSE]
  <2>1. g = h \/ (h.mem # NoJob /\ g \in Written(h, j) \cup Broken(h, j))
    BY <1>3 DEF Cancelled
  <2>2. h.mem # NoJob => j \in Job
    BY <1>0, JobStateHold DEF Supervisor
  <2> HIDE DEF j
  <2> QED
    BY <2>1, <2>2, SavesAt
<1> QED
  BY <1>1, <1>2, <1>3

\* A result ends the function.
LEMMA AcceptedOut ==
  ASSUME NEW h, FiledOK(h, {}), h.mem \in Job, NEW e, NEW v \in Verdicts \ {"none"},
         NEW g \in Accepted(h, e, v)
  PROVE  g.at # "run"
<1> DEFINE s == IF v = "unchanged" THEN "failed" ELSE v
<1>1. s \in States /\ {"idle", "prepare"} \subseteq Awaits
  BY DEF States, Terminal, Verdicts, Awaits
<1>2. g = Await(h, "idle") \/ g \in Fails(h) \/ g \in Change(h, [h.mem EXCEPT !.state = s, !.hold = FALSE], "idle")
  BY DEF Accepted, Idle
<1> HIDE DEF s
<1>3. [h.mem EXCEPT !.state = s, !.hold = FALSE] \in Job
  BY <1>1, SameJob
<1>4. g = Await(h, "idle") => g.at # "run"
  BY <1>1, AwaitKeeps
<1>5. g \in Change(h, [h.mem EXCEPT !.state = s, !.hold = FALSE], "idle") => g.at # "run"
  BY <1>1, <1>3, ChangesAt
<1> QED
  BY <1>2, <1>4, <1>5, FailsIdle

\* Nothing that follows an await starts a job, but the preflight's return.
LEMMA ReturnsOut ==
  ASSUME NEW h, FiledOK(h, {}), h.mem \in Job, h.at # "run", NEW e, NEW v \in Verdicts, NEW g,
         \/ g \in Prepared(h, e) \/ g \in Change(h, h.mem, "prepare")
         \/ g \in Reconciled(h, e, v) \/ g \in Fails(h)
  PROVE  g.at # "run"
<1>1. Awaits = {"idle", "reconcile", "prepare", "preflight", "run"}
      /\ {"waiting", "failed", "verifying"} \subseteq States
  BY DEF Awaits, States, Preparing, Terminal
<1>2. Await(h, "idle").at # "run"
  BY <1>1, AwaitKeeps
<1>3. \A j \in Job, a \in {"idle", "prepare"} : g \in Change(h, j, a) => g.at # "run"
  BY <1>1, ChangesAt
<1>4. CASE g \in Prepared(h, e)
  <2> DEFINE j == [h.mem EXCEPT !.state = "verifying", !.prepared = TRUE]
  <2>1. j \in Job
    BY <1>1, JobPrepared
  <2>2. \/ g = Await(h, "idle") \/ \E w \in Written(h, j) : g \in Qualify(w, e)
        \/ \E w \in Broken(h, j) : g \in Fails(w)
    BY <1>4 DEF Prepared, Idle
  <2> HIDE DEF j
  <2>3. \A w \in Written(h, j) \cup Broken(h, j) : FiledOK(w, {}) /\ w.mem \in Job
    BY <2>1, WrittenKeeps, BrokenKeeps
  <2> QED
    BY <1>2, <2>2, <2>3, WorkOut, FailsIdle
<1>5. ASSUME g \in Accepted(h, e, v), v # "none" PROVE g.at # "run"
  BY <1>5, AcceptedOut
<1>6. CASE g \in Reconciled(h, e, v)
  <2>1. [h.mem EXCEPT !.state = "failed", !.hold = TRUE] \in Job
    BY <1>1, SameJob
  <2> QED
    BY <1>3, <1>5, <1>6, <2>1 DEF Reconciled
<1> QED
  BY <1>3, <1>4, <1>6, FailsIdle

\* What the preflight's return checked of the job it starts.
LEMMA QualifiedStarts ==
  ASSUME NEW h, FiledOK(h, {}), h.mem \in Job, NEW e, NEW g \in Qualified(h, e), g.at = "run"
  PROVE  /\ ~h.stopped /\ g.for = h.for /\ g.mem.id = h.for
         /\ Admitted(g.mem, e) /\ Acknowledged(g.mem, e) /\ e.feed = g.mem.release
<1> DEFINE j == [h.mem EXCEPT !.state = "preparing", !.started = TRUE]
<1>1. /\ {"waiting", "failed", "preparing"} \subseteq States /\ {"idle", "run"} \subseteq Awaits
  BY DEF States, Preparing, Terminal, Awaits
<1>2. j \in Job /\ j.id = h.mem.id /\ j.from = h.mem.from /\ j.epoch = h.mem.epoch /\ j.release = h.mem.release
  BY <1>1 DEF Job
<1>3. [h.mem EXCEPT !.state = "waiting", !.hold = TRUE] \in Job
  BY <1>1, SameJob
<1>4. ~(g = Await(h, "idle")) /\ g \notin Waits(h) /\ g \notin Unverified(h, e) /\ g \notin Fails(h)
  <2>1. g # Await(h, "idle")
    BY <1>1, AwaitKeeps
  <2>2. g \notin Waits(h)
    BY WorkOut
  <2>3. g \notin Unverified(h, e)
    BY WorkOut
  <2>4. g \notin Fails(h)
    BY FailsIdle
  <2> QED
    BY <2>1, <2>2, <2>3, <2>4
<1>5. g \notin Change(h, [h.mem EXCEPT !.state = "waiting", !.hold = TRUE], "idle")
  BY <1>1, <1>3, ChangesAt
<1>6. /\ ~Gone(h) /\ Admitted(h.mem, e) /\ e.feed = h.mem.release /\ Acknowledged(h.mem, e)
      /\ g \in Change(h, j, "run")
  BY <1>4, <1>5 DEF Qualified, Idle
<1> HIDE DEF j
<1>7. g.mem = j /\ g.for = h.for
  BY <1>1, <1>2, <1>6, ChangesAt
<1> QED
  BY <1>2, <1>6, <1>7 DEF Gone, Admitted, Acknowledged

\* Nothing but the preflight's return starts a job.
LEMMA StartsAfterPreflight ==
  ASSUME HostInv, [Next]_vars, host'.at = "run", host.at # "run", ~PreflightReturns
  PROVE  FALSE
<1>0. /\ SupOK(host, {}) /\ FiledOK(host, {}) /\ host \in Supervisor /\ Env \in Envs
      /\ host.at # "idle" => host.up /\ host.mem \in Job /\ host.for \in Filed(host)
  BY Smaller, EnvTyped DEF HostInv, Inv, SupOK, FiledOK
<1>2. CASE host' = host
  BY <1>2
<1>3. CASE Heartbeat
  <2>1. PICK b \in [candidate : {selected}, epoch : Epochs, native : BOOLEAN,
            heldFor : {None} \cup {i \in Jobs : host.journal[i] # NoJob}
                             \cup {i \in Maintenances : operator.disk[i] # NoLease},
            blockers : {"none", "work", "switch"}] : Hears(b)
    BY <1>3 DEF Heartbeat
  <2> DEFINE e == [Env EXCEPT !.beat = b, !.fresh = TRUE]
  <2>2. host' = host \/ \E busy : host' \in Heard(host, e, busy)
    BY <2>1 DEF Hears
  <2>3. b \in Beat
    BY <2>1 DEF Beat, HostInv, Inv, TypeOK
  <2>4. e \in Envs
    BY <1>0, <2>3 DEF Envs
  <2> HIDE DEF e
  <2> QED
    BY <1>0, <1>2, <2>2, <2>4, RequestsOut
<1>4. CASE Poll
  BY <1>0, <1>4, KickOut DEF Poll, Supervise
<1>5. CASE Request \/ Cancel
  <2>1. CASE \E i \in Jobs : \E when : host' \in Requested(host, Env, i, when, Busy)
    BY <1>0, <2>1, RequestsOut
  <2>2. CASE \E i \in Jobs : host' \in Cancelled(host, i)
    BY <1>0, <2>2, RequestsOut
  <2> QED
    BY <1>5, <2>1, <2>2 DEF Request, Cancel, Supervise
<1>6. CASE PrepareReturns \/ Progress \/ AwaitFails \/ ReconcileReturns
  <2>1. host.at # "idle" /\ "none" \in Verdicts
    BY <1>6 DEF PrepareReturns, Progress, AwaitFails, ReconcileReturns, Verdicts
  <2>2. verdict[host.for] \in Verdicts
    BY <1>0, <2>1 DEF Filed, HostInv, Inv, TypeOK
  <2>3. CASE host' \in Reconciled(host, Env, verdict[host.for])
    BY <1>0, <2>1, <2>2, <2>3, ReturnsOut
  <2>4. CASE host' \in Prepared(host, Env)
    BY <1>0, <2>1, <2>4, ReturnsOut
  <2>5. CASE host' \in Change(host, host.mem, "prepare")
    BY <1>0, <2>1, <2>5, ReturnsOut
  <2>6. CASE host' \in Fails(host)
    BY <1>0, <2>1, <2>6, FailsIdle
  <2> QED
    BY <1>6, <2>3, <2>4, <2>5, <2>6 DEF PrepareReturns, Progress, AwaitFails, ReconcileReturns, Supervise
<1>7. CASE RunReturns \/ Launch
  BY <1>7 DEF RunReturns, Launch
<1>8. CASE Stop \/ Restart
  <2>1. host'.at = host.at
    BY <1>0, <1>8 DEF Stop, Restart, Supervise, Supervisor
  <2> QED
    BY <2>1
<1>9. CASE Crash
  <2>1. host' = Exited(host)
    BY <1>9 DEF Crash, Supervise
  <2>2. Idle(host).at = "idle" /\ Idle(host) \in Supervisor
    BY <1>0, AwaitKeeps DEF Idle, Awaits, FiledOK
  <2>3. host'.at = "idle"
    BY <2>1, <2>2 DEF Exited, Supervisor
  <2> QED
    BY <2>3
<1>10. CASE Stale \/ Operate \/ SwitchFrontend \/ Refresh \/ UNCHANGED vars
  BY <1>2, <1>10 DEF Stale, Operate, SwitchFrontend, Refresh, vars
<1>11. ASSUME NEW i \in Jobs, Runner(i) PROVE host' = host
  BY <1>11 DEF Runner, RunnerPrepares, RunnerAdmits, RunnerStops, RunnerSwitches, RunnerChecks,
     RunnerRestores, RunnerReturns, RunnerAccepts, RunnerPublishes, RunnerDies, Reported
<1> QED
  BY <1>2, <1>3, <1>4, <1>5, <1>6, <1>7, <1>8, <1>9, <1>10, <1>11 DEF Next

\* A job starts only when the workspace, heard just now from the candidate and
\* the epoch the job was asked of, is idle and acknowledges the hold for it
\* (advance, after its preflight).
THEOREM StartsAdmitted == Spec => StartIsAdmitted
<1> DEFINE Fresh(k) == /\ beat.heldFor = k /\ beat.native /\ beat.blockers = "none" /\ fresh
                       /\ beat.epoch = host'.mem.epoch /\ selected = host'.mem.from
                       /\ feed = host'.mem.release /\ ~host.stopped /\ ~Busy
<1>1. ASSUME HostInv, [Next]_vars, host'.at = "run", host.at # "run", NEW k \in Jobs, host'.for = k
      PROVE  Fresh(k)
  <2>1. /\ SupOK(host, {}) /\ FiledOK(host, {})
        /\ host.at # "idle" => host.up /\ host.mem \in Job
    BY <1>1, Smaller DEF HostInv, Inv, SupOK
  <2>2. host.at = "preflight" /\ host' \in Qualified(host, Env)
    BY <1>1, StartsAfterPreflight DEF PreflightReturns, Supervise
  <2>3. /\ ~host.stopped /\ host'.for = host.for /\ host'.mem.id = host.for
        /\ Admitted(host'.mem, Env) /\ Acknowledged(host'.mem, Env) /\ Env.feed = host'.mem.release
    BY <1>1, <2>1, <2>2, QualifiedStarts
  <2>4. ~Busy
    BY <1>1, <2>1, <2>2 DEF HostInv, Inv, OneAuthority, Installing
  <2> QED
    BY <1>1, <2>3, <2>4 DEF Admitted, Acknowledged, Live, Env
<1>2. HostInv /\ [Next]_vars =>
        \A k \in Jobs : host'.at = "run" /\ host'.for = k /\ host.at # "run" => Fresh(k)
  BY <1>1
<1> QED
  BY <1>2, HostInvHolds, PTL DEF Spec, StartIsAdmitted

-----------------------------------------------------------------------------
(* What the records of a job stay in.                                      *)

\* Every record the supervisor has of job k is in G.
Within(h, k, G) == h.journal[k] \in G /\ (h.mem # NoJob /\ h.mem.id = k => h.mem \in G)

\* Started records; no record or unstarted ones; ones that let the workspace go
\* after the start; cancelled ones.
Started == {j \in Job : j.started}
Unstarted == {j \in Job : ~j.started} \cup {NoJob}
Over == {j \in Job : Settled(j)}
Dropped == {j \in Job : j.state = "cancelled"}

\* The first two are left by a start alone, and a record never goes. On a record in
\* the last two nobody works any more.
Stable(G) == G \in {Started, Unstarted, Job}
Firm(G) == G \in {Over, Dropped}

LEMMA FirmRests ==
  ASSUME NEW G, Firm(G), NEW j \in G, Sane(j)
  PROVE  j \in Job /\ j # NoJob /\ ~Unsettled(j) /\ (j.started \/ j.state = "cancelled")
BY NoJobAssumption DEF Firm, Over, Dropped, Settled, Sane, Unsettled, Terminal

\* A record changed without a start.
LEMMA StableKeeps ==
  ASSUME NEW G, Stable(G), NEW j \in G \cap Job, NEW r \in Job, r.started = j.started
  PROVE  r \in G
BY NoJobAssumption DEF Stable, Started, Unstarted

\* The supervisor may change its job: another than k, or as a stable set allows.
Loose(h, k, G) == FiledOK(h, {}) /\ Within(h, k, G) /\ h.mem \in Job /\ (h.mem.id # k \/ Stable(G))

LEMMA SavesWithin ==
  ASSUME NEW h, NEW k \in Jobs, NEW G, FiledOK(h, {}), Within(h, k, G), NEW j \in Job,
         j.id = k => j \in G, NEW g \in Written(h, j) \cup Broken(h, j)
  PROVE  FiledOK(g, {}) /\ Within(g, k, G) /\ g.mem \in {j, h.mem}
<1>1. h \in Supervisor
  BY DEF FiledOK
<1>2. FiledOK(g, {}) /\ g.mem \in {j, h.mem}
  BY WrittenKeeps, BrokenKeeps
<1> DEFINE o == Onto(h, j)
<1>3. o \in Supervisor /\ o.journal[k] = IF j.id = k THEN j ELSE h.journal[k]
  BY <1>1, OntoFields, OntoKeeps DEF FiledOK
<1>4. g = [o EXCEPT !.mem = j] \/ g = o \/ g = h
  BY DEF Written, Broken
<1> HIDE DEF o
<1>5. [o EXCEPT !.mem = j].journal = o.journal
  BY <1>3 DEF Supervisor
<1>6. g.journal[k] \in {j, h.journal[k]} /\ (g.journal[k] = j => g.journal[k] = h.journal[k] \/ j.id = k)
  BY <1>3, <1>4, <1>5
<1> QED
  BY <1>2, <1>6 DEF Within

LEMMA AwaitsWithin ==
  ASSUME NEW h, NEW k \in Jobs, NEW G, FiledOK(h, {}), Within(h, k, G), NEW a \in Awaits
  PROVE  Within(Await(h, a), k, G)
BY AwaitFields DEF Within

LEMMA ExitsWithin ==
  ASSUME NEW h, NEW k \in Jobs, NEW G, FiledOK(h, {}), Within(h, k, G)
  PROVE  Within(Exited(h), k, G)
<1> DEFINE i == Idle(h)
<1>1. i.journal = h.journal /\ i \in Supervisor
  BY AwaitFields, AwaitKeeps DEF Idle, Awaits, FiledOK
<1> HIDE DEF i
<1>2. Exited(h) = [i EXCEPT !.mem = NoJob, !.stopped = FALSE, !.up = FALSE]
  BY DEF Exited, i
<1>3. Exited(h).journal = h.journal /\ Exited(h).mem = NoJob
  BY <1>1, <1>2 DEF Supervisor
<1> QED
  BY <1>3 DEF Within

\* A change of the job the supervisor works on.
LEMMA ChangesWithin ==
  ASSUME NEW h, NEW k \in Jobs, NEW G, Loose(h, k, G), NEW g,
         \/ g \in Fails(h)
         \/ \E j \in Job, a \in Awaits :
              j.id = h.mem.id /\ (j.id = k => j \in G) /\ g \in Change(h, j, a)
  PROVE  Within(g, k, G)
<1>1. ASSUME NEW w, Loose(w, k, G), w.mem = h.mem, g \in Fails(w) PROVE Within(g, k, G)
  <2> DEFINE j == [w.mem EXCEPT !.state = "failed", !.hold = w.mem.started]
  <2>1. w.mem \in Job /\ "failed" \in States /\ w.mem.started \in BOOLEAN
    BY <1>1, JobFields DEF Loose, States, Terminal
  <2>2. j \in Job /\ j.id = w.mem.id /\ j.started = w.mem.started
    BY <2>1, SameJob
  <2>3. \/ \E v \in Written(w, j) : g = Idle(v)
        \/ \E v \in Broken(w, j) : g = Exited(v)
        \/ g = Idle(w)
    BY <1>1 DEF Fails
  <2> HIDE DEF j
  <2>4. j.id = k => j \in G
    BY <1>1, <2>1, <2>2, StableKeeps, NoJobAssumption DEF Loose, Within
  <2>5. \A v \in Written(w, j) \cup Broken(w, j) : FiledOK(v, {}) /\ Within(v, k, G)
    BY <1>1, <2>2, <2>4, SavesWithin DEF Loose
  <2> QED
    BY <1>1, <2>3, <2>5, AwaitsWithin, ExitsWithin DEF Idle, Awaits, Loose
<1>2. ASSUME NEW j \in Job, NEW a \in Awaits, j.id = h.mem.id, j.id = k => j \in G, g \in Change(h, j, a)
      PROVE  Within(g, k, G)
  <2>1. ASSUME NEW v \in Written(h, j) \cup Broken(h, j)
        PROVE  FiledOK(v, {}) /\ Within(v, k, G)
    BY <1>2, SavesWithin DEF Loose
  <2>2. ASSUME NEW v \in Broken(h, j), g \in Fails(v) PROVE Within(g, k, G)
    <3>1. v.mem = h.mem
      BY <1>2, BrokenKeeps DEF Loose
    <3> QED
      BY <1>1, <2>1, <2>2, <3>1 DEF Loose
  <2> QED
    BY <1>2, <2>1, <2>2, AwaitsWithin DEF Change
<1> QED
  BY <1>1, <1>2

\* The same, of a record that is neither started nor taken back.
LEMMA SameWithin ==
  ASSUME NEW h, NEW k \in Jobs, NEW G, Loose(h, k, G), NEW j \in Job, j.id = h.mem.id,
         j.started = h.mem.started
  PROVE  /\ j.id = k => j \in G
         /\ \A a \in Awaits : \A g \in Change(h, j, a) : Within(g, k, G)
<1>1. j.id = k => j \in G
  BY StableKeeps, NoJobAssumption DEF Loose, Within
<1> QED
  BY <1>1, ChangesWithin

LEMMA WorkWithin ==
  ASSUME NEW h, NEW k \in Jobs, NEW G, Loose(h, k, G), NEW e, NEW g,
         \/ g \in Waits(h) \/ g \in Unverified(h, e) \/ g \in Qualify(h, e) \/ g \in Advance(h, e)
  PROVE  Within(g, k, G)
<1>0. FiledOK(h, {}) /\ Within(h, k, G) /\ h.mem \in Job
  BY DEF Loose
<1>1. /\ {"waiting", "downloading", "failed"} \subseteq States
      /\ {"idle", "preflight", "reconcile", "prepare"} \subseteq Awaits
  BY DEF States, Preparing, Terminal, Awaits
<1> DEFINE w == [h.mem EXCEPT !.state = "waiting"]
           d == [h.mem EXCEPT !.state = "downloading"]
           f == [h.mem EXCEPT !.state = "failed", !.hold = FALSE]
<1>6. /\ w \in Job /\ w.id = h.mem.id /\ w.started = h.mem.started
      /\ d \in Job /\ d.id = h.mem.id /\ d.started = h.mem.started
      /\ f \in Job /\ f.id = h.mem.id /\ f.started = h.mem.started
  BY <1>0, <1>1, SameJob
<1>7. g \in Waits(h) => g \in Change(h, w, "idle")
  BY DEF Waits
<1> HIDE DEF w, d, f
<1>2. g \in Waits(h) => Within(g, k, G)
  BY <1>1, <1>6, <1>7, SameWithin
<1>3. g \in Unverified(h, e) => Within(g, k, G)
  <2>1. g \in Unverified(h, e) => g = Await(h, "idle") \/ g \in Change(h, f, "idle")
    BY DEF Unverified, Idle, f
  <2>2. g \in Change(h, f, "idle") => Within(g, k, G)
    BY <1>1, <1>6, SameWithin
  <2> QED
    BY <1>0, <1>1, <2>1, <2>2, AwaitsWithin
<1>4. g \in Qualify(h, e) => Within(g, k, G)
  <2>1. g \in Qualify(h, e) => g = Await(h, "idle") \/ g \in Waits(h) \/ g = Await(h, "preflight")
    BY DEF Qualify, Idle
  <2> QED
    BY <1>0, <1>1, <1>2, <2>1, AwaitsWithin
<1>5. g \in Advance(h, e) => Within(g, k, G)
  <2>1. g \in Advance(h, e) =>
          \/ g = Await(h, "reconcile") \/ g \in Unverified(h, e) \/ g \in Fails(h)
          \/ g \in Waits(h) \/ g \in Qualify(h, e)
          \/ g \in Change(h, d, "prepare")
    BY DEF Advance, d
  <2>2. g \in Change(h, d, "prepare") => Within(g, k, G)
    BY <1>1, <1>6, SameWithin
  <2>3. g \in Fails(h) => Within(g, k, G)
    BY ChangesWithin
  <2> QED
    BY <1>0, <1>1, <1>2, <1>3, <1>4, <2>1, <2>2, <2>3, AwaitsWithin
<1> QED
  BY <1>2, <1>3, <1>4, <1>5

LEMMA KickWithin ==
  ASSUME NEW h, NEW k \in Jobs, NEW G, Stable(G) \/ Firm(G), FiledOK(h, {}), Within(h, k, G),
         h.mem # NoJob => Sane(h.mem),
         NEW e, NEW busy, NEW g \in Kick(h, e, busy)
  PROVE  Within(g, k, G)
<1>1. CASE g = h
  BY <1>1
<1>2. CASE Restless(h.mem) /\ g \in Advance([h EXCEPT !.for = h.mem.id], e)
  <2> DEFINE f == [h EXCEPT !.for = h.mem.id]
  <2>1. h \in Supervisor /\ h.mem \in Job /\ h.mem # NoJob /\ h.mem.id \in Jobs /\ Unsettled(h.mem)
    BY <1>2, JobFields DEF Restless, FiledOK, Supervisor, Unsettled
  <2>2. h.mem.id # k \/ Stable(G)
    BY <2>1, FirmRests DEF Within
  <2>3. f \in Supervisor /\ f.mem = h.mem /\ f.journal = h.journal
    BY <2>1 DEF Supervisor
  <2> HIDE DEF f
  <2>4. Loose(f, k, G)
    BY <2>1, <2>2, <2>3 DEF Loose, FiledOK, Filed, Within
  <2> QED
    BY <1>2, <2>4, WorkWithin DEF f
<1> QED
  BY <1>1, <1>2 DEF Kick

LEMMA RequestsWithin ==
  ASSUME NEW h, NEW k \in Jobs, NEW G, Stable(G) \/ Firm(G), FiledOK(h, {}), Within(h, k, G),
         FileRight(h), h.mem # NoJob => Sane(h.mem), NEW e \in Envs, NEW busy, NEW g,
         \/ g \in Heard(h, e, busy)
         \/ \E i \in Jobs : \E when : g \in Requested(h, e, i, when, busy)
         \/ \E i \in Jobs : g \in Cancelled(h, i)
  PROVE  Within(g, k, G)
<1>0. h \in Supervisor /\ {"waiting", "cancelled"} \subseteq States
  BY DEF FiledOK, States, Preparing, Terminal
<1>a. ASSUME h.mem # NoJob, h.mem.hold \/ h.mem.state \in Preparing
      PROVE  Loose(h, k, G)
  <2>1. h.mem \in Job /\ Unsettled(h.mem)
    BY <1>0, <1>a DEF Supervisor, Unsettled, Preparing, Terminal
  <2> QED
    BY <1>a, <2>1, FirmRests DEF Loose, Within
<1>1. CASE g \in Heard(h, e, busy)
  <2> DEFINE j == [h.mem EXCEPT !.hold = FALSE, !.state = "waiting"]
  <2>1. CASE g \in Kick(h, e, busy)
    BY <2>1, KickWithin
  <2>2. CASE /\ h.mem # NoJob /\ h.mem.hold /\ ~h.mem.started
             /\ (\E w \in Written(h, j) : g \in Kick(w, e, busy)) \/ g \in Broken(h, j)
    <3>1. h.mem \in Job /\ h.mem.started \in BOOLEAN
      BY <1>0, <2>2, JobFields DEF Supervisor
    <3>2. j \in Job /\ j.id = h.mem.id /\ j.started = h.mem.started /\ j.state = "waiting" /\ ~j.hold
      BY <1>0, <3>1 DEF Job
    <3> HIDE DEF j
    <3>3. j.id = k => j \in G
      BY <1>a, <2>2, <3>2, SameWithin
    <3>4. \A w \in Written(h, j) \cup Broken(h, j) : FiledOK(w, {}) /\ Within(w, k, G)
      BY <3>2, <3>3, SavesWithin
    <3>5. Sane(j) /\ \A w \in Written(h, j) : w.mem = j
      BY <2>2, <3>2, WrittenKeeps DEF Sane, Preparing
    <3> QED
      BY <2>2, <3>4, <3>5, KickWithin
  <2> QED
    BY <1>1, <2>1, <2>2 DEF Heard
<1>2. ASSUME NEW i \in Jobs, NEW when, g \in Requested(h, e, i, when, busy) PROVE Within(g, k, G)
  <2>1. CASE h.journal[i] # NoJob /\ g \in Replayed(h, e, i, busy)
    <3> DEFINE r == [h EXCEPT !.mem = h.journal[i]]
    <3>1. g = h \/ g \in Kick(r, e, busy)
      BY <2>1 DEF Replayed
    <3>2. h.journal[i] \in Job /\ h.journal[i].id = i /\ Sane(h.journal[i])
      BY <1>0, <2>1 DEF Supervisor, FiledOK, FileRight
    <3>3. i \in Filed(h)
      BY <3>2 DEF Filed
    <3>4. FiledOK(r, {}) /\ r.mem = h.journal[i] /\ r.journal = h.journal
      BY <1>0, <3>2, <3>3, MemKeeps, MemFields
    <3> HIDE DEF r
    <3>5. Within(r, k, G)
      BY <3>2, <3>4 DEF Within
    <3> QED
      BY <3>1, <3>2, <3>4, <3>5, KickWithin
  <2>2. CASE h.journal[i] = NoJob
    <3> DEFINE j == [id |-> i, epoch |-> e.beat.epoch, from |-> e.selected, release |-> e.feed,
                     state |-> "waiting", hold |-> FALSE, started |-> FALSE, prepared |-> FALSE]
    <3>1. CASE g = h
      BY <3>1
    <3>2. CASE /\ e.beat # NoBeat /\ e.feed \in Revisions
               /\ (\E w \in Written(h, j) : g \in Kick(w, e, busy)) \/ g \in Broken(h, j)
      <4>1. e.beat \in Beat /\ e.selected \in Nat
        BY <3>2 DEF Envs
      <4>2. e.beat.epoch \in Epochs
        BY <4>1 DEF Beat
      <4>3. j \in Job /\ j.id = i /\ Sane(j) /\ ~j.started
        BY <1>0, <3>2, <4>1, <4>2 DEF Job, Preparing, Sane
      <4> HIDE DEF j
      <4>4. j.id = k => j \in G
        BY <2>2, <4>3, NoJobAssumption DEF Within, Stable, Firm, Started, Unstarted, Over, Dropped
      <4>5. \A w \in Written(h, j) \cup Broken(h, j) : FiledOK(w, {}) /\ Within(w, k, G)
        BY <4>3, <4>4, SavesWithin
      <4>6. \A w \in Written(h, j) : w.mem = j
        BY <4>3, WrittenKeeps
      <4> QED
        BY <3>2, <4>3, <4>5, <4>6, KickWithin
    <3> QED
      BY <1>2, <2>2, <3>1, <3>2 DEF Requested
  <2> QED
    BY <1>2, <2>1, <2>2 DEF Requested
<1>3. ASSUME NEW i \in Jobs, g \in Cancelled(h, i) PROVE Within(g, k, G)
  <2> DEFINE j == [h.mem EXCEPT !.state = "cancelled", !.hold = FALSE]
  <2>1. CASE g = h
    BY <2>1
  <2>2. CASE h.mem # NoJob /\ h.mem.state \in Preparing /\ g \in Written(h, j) \cup Broken(h, j)
    <3>1. h.mem \in Job
      BY <1>0, <2>2 DEF Supervisor
    <3>2. j \in Job /\ j.id = h.mem.id /\ j.started = h.mem.started
      BY <1>0, <3>1, SameJob
    <3> HIDE DEF j
    <3>3. j.id = k => j \in G
      BY <1>a, <2>2, <3>2, SameWithin
    <3> QED
      BY <2>2, <3>2, <3>3, SavesWithin
  <2> QED
    BY <1>3, <2>1, <2>2 DEF Cancelled
<1> QED
  BY <1>1, <1>2, <1>3

LEMMA ReturnsWithin ==
  ASSUME NEW h, NEW k \in Jobs, NEW G, Stable(G) \/ Firm(G), SupOK(h, {}), Right(h), Within(h, k, G),
         h.at # "idle", NEW e, NEW v \in Verdicts, NEW g,
         \/ h.at = "prepare" /\ g \in Prepared(h, e)
         \/ h.at = "prepare" /\ h.mem.state # "cancelled" /\ g \in Change(h, h.mem, "prepare")
         \/ h.at = "preflight" /\ g \in Qualified(h, e) /\ ~(G = Unstarted /\ h.mem.id = k)
         \/ h.at = "reconcile" /\ g \in Reconciled(h, e, v)
         \/ h.at = "run" /\ v # "none" /\ g \in Accepted(h, e, v)
         \/ g \in Fails(h)
         \/ h.at = "run" /\ \E i \in Jobs, s \in States : g \in Reported(h, i, s)
  PROVE  Within(g, k, G)
<1>0. Amid(h) /\ FiledOK(h, {}) /\ h.mem \in Job /\ Sane(h.mem) /\ h.mem # NoJob
  BY AtWork, NoJobAssumption DEF Amid
<1>1. CASE h.mem.id = k /\ Firm(G)
  <2>1. ~Unsettled(h.mem) /\ (h.mem.started \/ h.mem.state = "cancelled")
    BY <1>0, <1>1, FirmRests DEF Within
  <2>2. h.at \in {"prepare", "preflight"} /\ h.mem.state = "cancelled"
    BY <1>0, <2>1 DEF Right, AwaitRight, SupOK, FiledOK, Supervisor, Awaits, Unsettled
  <2>3. ~Restless(h.mem)
    BY <1>0, <2>2 DEF Sane, Restless, Terminal
  <2>4. g \in {h, Idle(h)}
    BY <2>2, <2>3 DEF Prepared, Qualified, Gone, Fails
  <2> QED
    BY <1>0, <2>4, AwaitsWithin DEF Idle, Awaits
<1>2. CASE h.mem.id # k \/ Stable(G)
  <2>1. Loose(h, k, G)
    BY <1>0, <1>2 DEF Loose
  <2>2. Awaits = {"idle", "reconcile", "prepare", "preflight", "run"}
        /\ {"waiting", "failed", "verifying", "preparing"} \subseteq States
    BY DEF Awaits, States, Preparing, Terminal
  <2>3. CASE g \in Prepared(h, e)
    <3> DEFINE j == [h.mem EXCEPT !.state = "verifying", !.prepared = TRUE]
    <3>1. j \in Job /\ j.id = h.mem.id /\ j.started = h.mem.started
      BY <1>0, <2>2 DEF Job
    <3>2. \/ g = Idle(h) \/ \E w \in Written(h, j) : g \in Qualify(w, e)
          \/ \E w \in Broken(h, j) : g \in Fails(w)
      BY <2>3 DEF Prepared
    <3> HIDE DEF j
    <3>3. j.id = k => j \in G
      BY <2>1, <3>1, SameWithin
    <3>4. \A w \in Written(h, j) \cup Broken(h, j) : FiledOK(w, {}) /\ Within(w, k, G) /\ w.mem \in {j, h.mem}
      BY <1>0, <3>1, <3>3, SavesWithin
    <3>5. \A w \in Written(h, j) \cup Broken(h, j) : Loose(w, k, G)
      BY <1>0, <1>2, <3>1, <3>4 DEF Loose
    <3>6. g = Idle(h) => Within(g, k, G)
      BY <1>0, <2>2, AwaitsWithin DEF Idle
    <3>7. ASSUME NEW w \in Written(h, j), g \in Qualify(w, e) PROVE Within(g, k, G)
      BY <3>5, <3>7, WorkWithin
    <3>8. ASSUME NEW w \in Broken(h, j), g \in Fails(w) PROVE Within(g, k, G)
      BY <3>5, <3>8, ChangesWithin
    <3> QED
      BY <3>2, <3>6, <3>7, <3>8
  <2>4. CASE h.at = "preflight" /\ g \in Qualified(h, e) /\ ~(G = Unstarted /\ h.mem.id = k)
    <3>1. \/ g = Await(h, "idle") \/ g \in Waits(h) \/ g \in Unverified(h, e) \/ g \in Fails(h)
          \/ g \in Change(h, [h.mem EXCEPT !.state = "waiting", !.hold = TRUE], "idle")
          \/ g \in Change(h, [h.mem EXCEPT !.state = "preparing", !.started = TRUE], "run")
      BY <2>4 DEF Qualified, Idle
    <3>2. g \in Change(h, [h.mem EXCEPT !.state = "waiting", !.hold = TRUE], "idle") => Within(g, k, G)
      BY <1>0, <2>1, <2>2, SameJob, SameWithin
    <3>3. h.mem.id # k \/ G = Job
      <4>1. ~h.mem.started
        BY <2>4 DEF Right, AwaitRight
      <4> QED
        BY <1>0, <1>2, <2>4, <4>1 DEF Stable, Started, Within
    <3>4. g \in Change(h, [h.mem EXCEPT !.state = "preparing", !.started = TRUE], "run") => Within(g, k, G)
      BY <1>0, <2>1, <2>2, <3>3, SameJob, ChangesWithin
    <3>5. g \in Waits(h) \/ g \in Unverified(h, e) => Within(g, k, G)
      BY <2>1, WorkWithin
    <3>6. g \in Fails(h) => Within(g, k, G)
      BY <2>1, ChangesWithin
    <3>7. g = Await(h, "idle") => Within(g, k, G)
      BY <1>0, <2>2, AwaitsWithin
    <3> QED
      BY <3>1, <3>2, <3>4, <3>5, <3>6, <3>7
  <2>5. ASSUME g \in Accepted(h, e, v), v # "none" PROVE Within(g, k, G)
    <3> DEFINE s == IF v = "unchanged" THEN "failed" ELSE v
    <3>1. s \in States
      BY <2>5 DEF States, Terminal, Verdicts
    <3>2. g = Await(h, "idle") \/ g \in Fails(h) \/ g \in Change(h, [h.mem EXCEPT !.state = s, !.hold = FALSE], "idle")
      BY <2>5 DEF Accepted, Idle
    <3> HIDE DEF s
    <3>3. g \in Change(h, [h.mem EXCEPT !.state = s, !.hold = FALSE], "idle") => Within(g, k, G)
      BY <1>0, <2>1, <2>2, <3>1, SameJob, SameWithin
    <3>4. g = Await(h, "idle") => Within(g, k, G)
      BY <1>0, <2>2, AwaitsWithin
    <3>5. g \in Fails(h) => Within(g, k, G)
      BY <2>1, ChangesWithin
    <3> QED
      BY <3>2, <3>3, <3>4, <3>5
  <2>6. CASE g \in Reconciled(h, e, v)
    <3>1. g \in Change(h, [h.mem EXCEPT !.state = "failed", !.hold = TRUE], "idle") => Within(g, k, G)
      BY <1>0, <2>1, <2>2, SameJob, SameWithin
    <3> QED
      BY <2>5, <2>6, <3>1 DEF Reconciled
  <2>7. CASE g \in Fails(h)
    BY <2>1, <2>7, ChangesWithin
  <2>8. CASE g \in Change(h, h.mem, "prepare")
    BY <1>0, <2>1, <2>2, <2>8, SameWithin
  <2>9. ASSUME NEW i \in Jobs, NEW s \in States, g \in Reported(h, i, s) PROVE Within(g, k, G)
    <3> DEFINE j == [h.mem EXCEPT !.state = s]
    <3>1. j \in Job /\ j.id = h.mem.id /\ j.started = h.mem.started
      BY <1>0, SameJob
    <3>2. g = h \/ g \in Written(h, j) \cup Broken(h, j)
      BY <2>9 DEF Reported
    <3> HIDE DEF j
    <3>3. j.id = k => j \in G
      BY <2>1, <3>1, SameWithin
    <3> QED
      BY <1>0, <3>1, <3>2, <3>3, SavesWithin
  <2> QED
    BY <2>3, <2>4, <2>5, <2>6, <2>7, <2>8, <2>9
<1> QED
  BY <1>1, <1>2

-----------------------------------------------------------------------------
(* The controller's and the installers' steps.                             *)

\* The preflight's return of job k, which may start it.
Starting(k) == PreflightReturns /\ host.mem.id = k

LEMMA StepsWithin ==
  ASSUME HostInv, [Next]_vars, NEW k \in Jobs, NEW G, Stable(G) \/ Firm(G), Within(host, k, G),
         ~(G = Unstarted /\ Starting(k))
  PROVE  Within(host', k, G)
<1>0. /\ SupOK(host, {}) /\ FiledOK(host, {}) /\ Right(host) /\ FileRight(host) /\ Within(host, k, G)
      /\ host.mem # NoJob => Sane(host.mem)
      /\ Env \in Envs
  BY Smaller, EnvTyped DEF HostInv, Inv, SupOK, Right, MemRight
<1>2. CASE host' = host
  BY <1>0, <1>2
<1>3. CASE Heartbeat
  <2>1. PICK b \in [candidate : {selected}, epoch : Epochs, native : BOOLEAN,
            heldFor : {None} \cup {i \in Jobs : host.journal[i] # NoJob}
                             \cup {i \in Maintenances : operator.disk[i] # NoLease},
            blockers : {"none", "work", "switch"}] : Hears(b)
    BY <1>3 DEF Heartbeat
  <2> DEFINE e == [Env EXCEPT !.beat = b, !.fresh = TRUE]
  <2>2. host' = host \/ \E busy : host' \in Heard(host, e, busy)
    BY <2>1 DEF Hears
  <2>3. b \in Beat
    BY <2>1 DEF Beat, HostInv, Inv, TypeOK
  <2>4. e \in Envs
    BY <1>0, <2>3 DEF Envs
  <2> HIDE DEF e
  <2> QED
    BY <1>0, <2>2, <2>4, RequestsWithin
<1>4. CASE Poll
  BY <1>0, <1>4, KickWithin DEF Poll, Supervise
<1>5. CASE Request \/ Cancel
  <2>1. \/ \E i \in Jobs : \E when : host' \in Requested(host, Env, i, when, Busy)
        \/ \E i \in Jobs : host' \in Cancelled(host, i)
    BY <1>5 DEF Request, Cancel, Supervise
  <2> QED
    BY <1>0, <2>1, RequestsWithin
<1>6. CASE PrepareReturns \/ Progress \/ PreflightReturns \/ AwaitFails
  <2>1. /\ host.at # "idle"
        /\ \/ host.at = "prepare" /\ host' \in Prepared(host, Env)
           \/ host.at = "prepare" /\ host.mem.state # "cancelled" /\ host' \in Change(host, host.mem, "prepare")
           \/ host.at = "preflight" /\ host' \in Qualified(host, Env) /\ ~(G = Unstarted /\ host.mem.id = k)
           \/ host' \in Fails(host)
    BY <1>6 DEF Starting, PrepareReturns, Progress, PreflightReturns, AwaitFails, Supervise
  <2>2. "none" \in Verdicts
    BY DEF Verdicts
  <2> QED
    BY <1>0, <2>1, <2>2, ReturnsWithin
<1>7. CASE ReconcileReturns \/ RunReturns
  <2>1. /\ host.at # "idle"
        /\ \/ host.at = "reconcile" /\ host' \in Reconciled(host, Env, verdict[host.for])
           \/ host.at = "run" /\ verdict[host.for] # "none" /\ host' \in Accepted(host, Env, verdict[host.for])
    BY <1>7 DEF ReconcileReturns, RunReturns, Supervise
  <2>2. verdict[host.for] \in Verdicts
    BY <1>0, <2>1 DEF SupOK, Filed, HostInv, Inv, TypeOK
  <2> QED
    BY <1>0, <2>1, <2>2, ReturnsWithin
<1>8. CASE Stop
  <2>1. host' = [host EXCEPT !.stopped = TRUE] /\ host \in Supervisor
    BY <1>0, <1>8 DEF Stop, Supervise, FiledOK
  <2>2. host'.mem = host.mem /\ host'.journal = host.journal
    BY <2>1 DEF Supervisor
  <2> QED
    BY <1>0, <2>2 DEF Within
<1>9. CASE Crash
  BY <1>0, <1>9, ExitsWithin DEF Crash, Supervise
<1>10. CASE Restart
  <2> DEFINE j == IF host.current = None THEN NoJob ELSE host.journal[host.current]
  <2>1. host' = [host EXCEPT !.up = TRUE, !.mem = j] /\ host \in Supervisor
    BY <1>0, <1>10 DEF Restart, FiledOK
  <2>2. host'.mem = j /\ host'.journal = host.journal
    BY <2>1 DEF Supervisor
  <2>3. j # NoJob => j.id = host.current /\ j = host.journal[host.current]
    BY <1>0 DEF FiledOK, Supervisor
  <2> HIDE DEF j
  <2> QED
    BY <1>0, <2>2, <2>3 DEF Within
<1>11. CASE Stale \/ Operate \/ SwitchFrontend \/ Refresh \/ Launch \/ UNCHANGED vars
  BY <1>2, <1>11 DEF Stale, Operate, SwitchFrontend, Refresh, Launch, vars
<1>12. ASSUME NEW i \in Jobs, Runner(i) PROVE Within(host', k, G)
  <2>1. host' = host \/ \E s \in States : host' \in Reported(host, i, s)
    BY <1>12 DEF Runner, RunnerPrepares, RunnerAdmits, RunnerStops, RunnerSwitches, RunnerChecks,
       RunnerRestores, RunnerReturns, RunnerAccepts, RunnerPublishes, RunnerDies, Moves, States
  <2>2. host' = host \/ (host.at = "run" /\ \E s \in States : host' \in Reported(host, i, s))
    BY <2>1 DEF Reported
  <2>3. "none" \in Verdicts
    BY DEF Verdicts
  <2> QED
    BY <1>0, <1>2, <2>2, <2>3, ReturnsWithin
<1> QED
  BY <1>3, <1>4, <1>5, <1>6, <1>7, <1>8, <1>9, <1>10, <1>11, <1>12 DEF Next

\* A cancelled job stays cancelled, unless its cancellation was never
\* acknowledged and the controller still works on it (SoftwareUpdateSupervisor.cancel).
THEOREM CancelledHolds == Spec => CancelledStays
<1>1. ASSUME HostInv, NEW k \in Jobs PROVE CancelKept(k) <=> Within(host, k, Dropped)
  <2>1. host \in Supervisor
    BY <1>1 DEF HostInv, Inv, SupOK, FiledOK
  <2>2. host.journal[k] \in Job \cup {NoJob} /\ host.mem \in Job \cup {NoJob}
    BY <2>1 DEF Supervisor
  <2> QED
    BY <2>2, NoJobAssumption DEF CancelKept, Within, Dropped
<1>2. ASSUME HostInv, HostInv', [Next]_vars, NEW k \in Jobs, CancelKept(k) PROVE CancelKept(k)'
  <2>1. Within(host, k, Dropped)
    BY <1>1, <1>2
  <2>2. Firm(Dropped) /\ Dropped # Unstarted
    BY NoJobAssumption DEF Firm, Dropped, Unstarted
  <2>3. Within(host', k, Dropped)
    BY <1>2, <2>1, <2>2, StepsWithin
  <2> QED
    BY <2>3, NoJobAssumption DEF CancelKept, Within, Dropped
<1>3. HostInv /\ HostInv' /\ [Next]_vars => \A k \in Jobs : CancelKept(k) => CancelKept(k)'
  BY <1>2
<1> QED
  BY <1>3, HostInvHolds, PTL DEF Spec, CancelledStays

-----------------------------------------------------------------------------
(* Each installation is a DurableEffect.                                   *)

\* Only what a job's launch does is seen of its installer.
LEMMA InstallersStay ==
  ASSUME TypeOK, [Next]_vars, NEW k \in Jobs
  PROVE  \/ (runner'[k] = "none") <=> (runner[k] = "none")
         \/ Launch /\ host.for = k /\ runner[k] = "none" /\ runner'[k] # "none"
<1>1. CASE Launch
  <2>1. runner[host.for] = "none" /\ runner' = [runner EXCEPT ![host.for] = "validating"]
    BY <1>1 DEF Launch
  <2>2. CASE host.for = k
    BY <1>1, <2>1, <2>2 DEF TypeOK
  <2>3. CASE host.for # k
    BY <2>1, <2>3 DEF TypeOK
  <2> QED
    BY <2>2, <2>3
<1>2. ASSUME NEW i \in Jobs, Runner(i) PROVE (runner'[k] = "none") <=> (runner[k] = "none")
  <2>1. \E from \in SUBSET (Stages \ {"none"}), to \in Stages \ {"none"} : Moves(i, from, to)
    BY <1>2 DEF Runner, RunnerPrepares, RunnerAdmits, RunnerStops, RunnerSwitches, RunnerChecks,
       RunnerRestores, RunnerReturns, RunnerAccepts, RunnerPublishes, RunnerDies, Stages, Verdicts
  <2> QED
    BY <2>1 DEF Moves, TypeOK
<1>3. CASE runner' = runner
  BY <1>3
<1> QED
  BY <1>1, <1>2, <1>3 DEF Next, vars, installer, Heartbeat, Hears, Stale, Poll, Request, Cancel,
     PrepareReturns, Progress, PreflightReturns, ReconcileReturns, AwaitFails, RunReturns, Operate,
     SwitchFrontend, Stop, Crash, Restart, Refresh, Supervise

\* A function that runs an installer stays with its job.
LEMMA RunsOn ==
  ASSUME HostInv, [Next]_vars, host.at = "run", host'.at = "run"
  PROVE  host'.for = host.for
<1>0. /\ SupOK(host, {}) /\ FiledOK(host, {}) /\ host \in Supervisor
      /\ host.up /\ host.mem \in Job /\ host.for \in Filed(host)
      /\ host.mem.started /\ host.mem # NoJob
  BY Smaller, NoJobAssumption DEF HostInv, Inv, SupOK, FiledOK, Right, AwaitRight
<1>1. \A e, busy : Kick(host, e, busy) = {host}
  BY DEF Kick
<1>2. CASE host' = host
  BY <1>2
<1>3. CASE Heartbeat
  <2>1. \A e, busy : Heard(host, e, busy) = {host}
    BY <1>0, <1>1 DEF Heard
  <2> QED
    BY <1>2, <1>3, <2>1 DEF Heartbeat, Hears
<1>4. CASE Poll \/ Request \/ Cancel
  <2>1. \A e, busy, i, when : Requested(host, e, i, when, busy) = {host}
    BY DEF Requested, Replayed
  <2>2. \A i : Cancelled(host, i) = {host}
    BY <1>0 DEF Cancelled
  <2> QED
    BY <1>1, <1>2, <1>4, <2>1, <2>2 DEF Poll, Request, Cancel, Supervise
<1>5. CASE AwaitFails
  BY <1>0, <1>5, FailsIdle DEF AwaitFails, Supervise
<1>6. CASE RunReturns
  <2>1. verdict[host.for] \in Verdicts \ {"none"}
    BY <1>0, <1>6 DEF RunReturns, Filed, HostInv, Inv, TypeOK
  <2> QED
    BY <1>0, <1>6, <2>1, AcceptedOut DEF RunReturns, Supervise
<1>7. CASE Stop
  <2>1. host' = [host EXCEPT !.stopped = TRUE]
    BY <1>7 DEF Stop, Supervise
  <2> QED
    BY <1>0, <2>1 DEF Supervisor
<1>8. CASE Crash
  <2>1. host' = Exited(host)
    BY <1>8 DEF Crash, Supervise
  <2>2. Idle(host).at = "idle" /\ Idle(host) \in Supervisor
    BY <1>0, AwaitKeeps DEF Idle, Awaits, FiledOK
  <2>3. host'.at = "idle"
    BY <2>1, <2>2 DEF Exited, Supervisor
  <2> QED
    BY <2>3
<1>9. CASE Stale \/ Operate \/ SwitchFrontend \/ Refresh \/ Launch \/ UNCHANGED vars
  BY <1>2, <1>9 DEF Stale, Operate, SwitchFrontend, Refresh, Launch, vars
<1>10. CASE PrepareReturns \/ Progress \/ PreflightReturns \/ ReconcileReturns \/ Restart
  BY <1>0, <1>10 DEF PrepareReturns, Progress, PreflightReturns, ReconcileReturns, Restart
<1>11. ASSUME NEW i \in Jobs, Runner(i) PROVE host'.for = host.for
  <2>1. host' = host \/ \E s \in States : host' \in Reported(host, i, s)
    BY <1>11 DEF Runner, RunnerPrepares, RunnerAdmits, RunnerStops, RunnerSwitches, RunnerChecks,
       RunnerRestores, RunnerReturns, RunnerAccepts, RunnerPublishes, RunnerDies, Moves, States
  <2>2. ASSUME NEW s \in States, host' \in Reported(host, i, s) PROVE host'.for = host.for
    <3> DEFINE j == [host.mem EXCEPT !.state = s]
    <3>1. j \in Job
      BY <1>0, SameJob
    <3>2. host' = host \/ host' \in Written(host, j) \/ host' \in Broken(host, j)
      BY <2>2 DEF Reported
    <3> HIDE DEF j
    <3> QED
      BY <1>0, <3>1, <3>2, WrittenKeeps, BrokenKeeps
  <2> QED
    BY <2>1, <2>2
<1> QED
  BY <1>2, <1>3, <1>4, <1>5, <1>6, <1>7, <1>8, <1>9, <1>10, <1>11 DEF Next

\* A job that is started, or whose start failed, after its preflight.
LEMMA QualifiedBegins ==
  ASSUME NEW h, SupOK(h, {}), Right(h), h.at = "preflight", NEW k \in Jobs, h.mem.id = k,
         Within(h, k, Unstarted), NEW e, NEW g \in Qualified(h, e)
  PROVE  \/ Within(g, k, Unstarted)
         \/ ~Within(g, k, Over) /\ h.mem.state \notin Terminal
<1>0. /\ Amid(h) /\ FiledOK(h, {}) /\ h \in Supervisor /\ h.mem \in Job /\ h.mem # NoJob
      /\ ~h.mem.started /\ h.mem.state \in Preparing \cup {"cancelled"}
  BY AtWork, NoJobAssumption DEF Amid, FiledOK, Right, AwaitRight
<1>1. Loose(h, k, Unstarted)
  BY <1>0 DEF Loose, Stable
<1>2. /\ {"waiting", "preparing", "failed"} \subseteq States /\ {"idle", "run"} \subseteq Awaits
      /\ "failed" \notin Preparing
  BY DEF States, Preparing, Terminal, Awaits
<1> DEFINE j == [h.mem EXCEPT !.state = "preparing", !.started = TRUE]
           r == [h.mem EXCEPT !.state = "failed", !.hold = h.mem.started]
<1>3. CASE g \in Change(h, j, "run") /\ h.mem.hold /\ ~Gone(h)
  <2>1. h.mem.state \in Preparing /\ h.mem.state \notin Terminal
    BY <1>0, <1>3 DEF Gone, Preparing, Terminal
  <2>2. j \in Job /\ j.id = k /\ j.hold /\ j.started
    BY <1>0, <1>2, <1>3, SameJob
  <2>3. r \in Job /\ r.id = k /\ ~r.started /\ r.state = "failed" /\ r \in Unstarted
    <3>1. h.mem.started \in BOOLEAN
      BY <1>0, JobFields
    <3>2. r \in Job /\ r.id = h.mem.id /\ r.started = h.mem.started /\ r.state = "failed"
      BY <1>0, <1>2, <3>1 DEF Job
    <3> HIDE DEF r
    <3> QED
      BY <1>0, <3>2 DEF Unstarted
  <2>4. g \in {Await(w, "run") : w \in Written(h, j)} \/ \E w \in Broken(h, j) : g \in Fails(w)
    BY <1>3 DEF Change
  <2>5. ASSUME NEW w, w.mem = h.mem, g \in Fails(w), Restless(h.mem), h.mem.id = w.for
        PROVE  \/ \E v \in Written(w, r) : g = Idle(v)
               \/ \E v \in Broken(w, r) : g = Exited(v)
    <3>1. r = [w.mem EXCEPT !.state = "failed", !.hold = w.mem.started]
      BY <2>5
    <3>2. Restless(w.mem) /\ w.mem.id = w.for
      BY <2>5
    <3> HIDE DEF r
    <3> QED
      BY <2>5, <3>1, <3>2 DEF Fails
  <2> HIDE DEF j, r
  <2>6. ASSUME NEW w \in Written(h, j), g = Await(w, "run") PROVE ~Within(g, k, Over)
    <3>1. FiledOK(w, {}) /\ w.mem = j
      BY <1>0, <2>2, WrittenKeeps
    <3>2. g.mem = j
      BY <1>2, <2>6, <3>1, AwaitKeeps
    <3> QED
      BY <2>2, <3>2, NoJobAssumption DEF Within, Over, Settled
  <2>7. ASSUME NEW w \in Broken(h, j), g \in Fails(w) PROVE Within(g, k, Unstarted) \/ ~Within(g, k, Over)
    <3>0. FiledOK(w, {}) /\ w.mem = h.mem /\ w.for = h.for
      BY <1>0, <2>2, BrokenKeeps
    <3>1. FiledOK(w, {}) /\ w.mem = h.mem /\ w.for = h.for /\ w \in Supervisor
      BY <3>0 DEF FiledOK
    <3>2. w.journal[k] \in {j, h.journal[k]}
      BY <1>0, <2>2, OntoFields DEF Broken
    <3>3. Restless(h.mem) /\ h.mem.id = w.for
      BY <1>0, <2>1, <3>1 DEF Restless, Amid
    <3>4. CASE \E v \in Written(w, r) : g = Idle(v)
      <4>1. PICK v \in Written(w, r) : g = Idle(v)
        BY <3>4
      <4>2. FiledOK(v, {}) /\ v.mem = r
        BY <2>3, <3>1, WrittenKeeps
      <4>3. v = [Onto(w, r) EXCEPT !.mem = r]
        BY <2>1, <2>3, <3>1, <1>2 DEF Written
      <4>4. Onto(w, r).journal[k] = r /\ Onto(w, r) \in Supervisor
        BY <2>3, <3>1, OntoFields, OntoKeeps DEF FiledOK
      <4>5. v.journal[k] = r
        BY <4>3, <4>4, <2>3, MemFields
      <4>6. Within(v, k, Unstarted)
        BY <2>3, <4>2, <4>5 DEF Within
      <4> QED
        BY <1>2, <4>1, <4>2, <4>6, AwaitsWithin DEF Idle
    <3>5. CASE \E v \in Broken(w, r) : g = Exited(v)
      <4>1. PICK v \in Broken(w, r) : g = Exited(v)
        BY <3>5
      <4>2. FiledOK(v, {}) /\ v.journal[k] \in {r, j, h.journal[k]}
        BY <2>3, <3>1, <3>2, OntoFields, BrokenKeeps DEF Broken
      <4> DEFINE i == Idle(v)
      <4>3. i.journal = v.journal /\ i \in Supervisor
        BY <1>2, <4>2, AwaitFields, AwaitKeeps DEF Idle, FiledOK
      <4>4. g = [i EXCEPT !.mem = NoJob, !.stopped = FALSE, !.up = FALSE]
        BY <4>1 DEF Exited, i
      <4> HIDE DEF i
      <4>5. g.mem = NoJob /\ g.journal[k] = v.journal[k]
        BY <4>3, <4>4 DEF Supervisor
      <4> QED
        BY <1>1, <2>2, <2>3, <4>2, <4>5 DEF Within, Over, Settled, Loose
    <3> QED
      BY <2>5, <2>7, <3>1, <3>3, <3>4, <3>5
  <2> QED
    BY <2>1, <2>4, <2>6, <2>7
<1>4. CASE g \in Change(h, [h.mem EXCEPT !.state = "waiting", !.hold = TRUE], "idle")
  <2> DEFINE n == [h.mem EXCEPT !.state = "waiting", !.hold = TRUE]
  <2>1. n \in Job /\ n.id = h.mem.id /\ n.started = h.mem.started
    BY <1>0, <1>2, SameJob
  <2> HIDE DEF n
  <2>2. \A a \in Awaits : \A f \in Change(h, n, a) : Within(f, k, Unstarted)
    BY <1>1, <2>1, SameWithin
  <2> QED
    BY <1>2, <1>4, <2>2 DEF n
<1>5. CASE g \in Waits(h) \/ g \in Unverified(h, e)
  BY <1>1, <1>5, WorkWithin
<1>6. CASE g \in Fails(h)
  BY <1>1, <1>6, ChangesWithin
<1>7. CASE g = Await(h, "idle")
  BY <1>0, <1>1, <1>2, <1>7, AwaitsWithin DEF Loose
<1> QED
  BY <1>3, <1>4, <1>5, <1>6, <1>7 DEF Qualified, Idle

\* The claim, as it depends on the supervisor.
RecordsIn(h, k) == {j \in {h.journal[k], h.mem} \ {NoJob} : j.id = k}

ClaimIn(h, k) ==
  LET started == {j \in RecordsIn(h, k) : j.started} IN
  IF started # {} THEN IF \E j \in started : j.hold THEN "maybe" ELSE "known"
  ELSE IF \E j \in RecordsIn(h, k) : j.state \notin Terminal THEN "pending" ELSE "unsent"

\* A supervisor that runs the installer of k, or is about to.
Runs(h, k) == h.at = "run" /\ h.for = k

\* A job was started in all its records or in none; what is claimed of it then.
LEMMA Pictures ==
  ASSUME NEW h, SupOK(h, {}), AwaitRight(h), h.mem # NoJob => Even(h), NEW k \in Jobs
  PROVE  /\ Within(h, k, Unstarted) \/ Within(h, k, Started)
         /\ Within(h, k, Unstarted) =>
              /\ ClaimIn(h, k) \in {"unsent", "pending"} /\ ~Runs(h, k)
              /\ h.mem # NoJob /\ h.mem.id = k /\ h.mem.state \notin Terminal => ClaimIn(h, k) = "pending"
         /\ Within(h, k, Started) => ClaimIn(h, k) = IF Within(h, k, Over) THEN "known" ELSE "maybe"
         /\ Within(h, k, Over) => ~Runs(h, k)
<1>1. /\ h.journal[k] \in Job \cup {NoJob} /\ h.mem \in Job \cup {NoJob}
      /\ h.journal[k] # NoJob => h.journal[k].id = k
      /\ h.mem # NoJob => h.journal[h.mem.id] \in Job
      /\ h.at # "idle" => h.mem # NoJob
  BY NoJobAssumption DEF SupOK, FiledOK, Supervisor, Filed
<1>2. /\ h.journal[k] # NoJob => h.journal[k].started \in BOOLEAN /\ h.journal[k].hold \in BOOLEAN
      /\ h.mem # NoJob => h.mem.started \in BOOLEAN /\ h.mem.hold \in BOOLEAN
  BY <1>1, JobFields
<1>3. Within(h, k, Unstarted) \/ Within(h, k, Started)
  BY <1>1, <1>2, NoJobAssumption DEF Within, Started, Unstarted, Even
<1>4. Runs(h, k) => h.mem # NoJob /\ h.mem.id = k /\ h.mem.started /\ h.mem.hold
  BY <1>1 DEF Runs, AwaitRight
<1>5. ASSUME Within(h, k, Unstarted)
      PROVE  /\ ClaimIn(h, k) \in {"unsent", "pending"} /\ ~Runs(h, k)
             /\ h.mem # NoJob /\ h.mem.id = k /\ h.mem.state \notin Terminal => ClaimIn(h, k) = "pending"
  <2>1. \A j \in RecordsIn(h, k) : ~j.started
    BY <1>5 DEF RecordsIn, Within, Unstarted
  <2>2. {j \in RecordsIn(h, k) : j.started} = {}
    BY <2>1
  <2>3. h.mem # NoJob /\ h.mem.id = k => h.mem \in RecordsIn(h, k)
    BY DEF RecordsIn
  <2>4. ~Runs(h, k)
    BY <1>4, <1>5, NoJobAssumption DEF Within, Unstarted
  <2> QED
    BY <2>2, <2>3, <2>4 DEF ClaimIn
<1>6. ASSUME Within(h, k, Started)
      PROVE  ClaimIn(h, k) = IF Within(h, k, Over) THEN "known" ELSE "maybe"
  <2>1. h.journal[k] \in RecordsIn(h, k) /\ \A j \in RecordsIn(h, k) : j.started
    BY <1>1, <1>6, NoJobAssumption DEF RecordsIn, Within, Started
  <2>2. {j \in RecordsIn(h, k) : j.started} = RecordsIn(h, k) /\ RecordsIn(h, k) # {}
    BY <2>1
  <2>3. (\E j \in RecordsIn(h, k) : j.hold) <=> ~Within(h, k, Over)
    BY <1>1, <1>2, <1>6, <2>1 DEF RecordsIn, Within, Over, Started, Settled
  <2> QED
    BY <2>2, <2>3 DEF ClaimIn
<1>7. Within(h, k, Over) => ~Runs(h, k)
  BY <1>4 DEF Within, Over, Settled
<1> QED
  BY <1>3, <1>5, <1>6, <1>7

Shown == INSTANCE DurableEffectProofs WITH Effects <- Jobs, effect <- Abstract

\* Launches under way for job k, and installers it has.
Wire(k) == IF Runs(host, k) /\ runner[k] = "none" THEN 1 ELSE 0
Landed(k) == IF runner[k] # "none" THEN 1 ELSE 0

\* What a step may do to the installation of job k.
Turn(k) ==
  \/ Claim(k)' = Claim(k) /\ Wire(k)' = Wire(k) /\ Landed(k)' = Landed(k)
  \/ /\ Wire(k) = 0 /\ Landed(k)' = Landed(k)
     /\ \/ Claim(k) = "unsent" /\ Claim(k)' = "pending" /\ Wire(k)' = 0
        \/ Claim(k) = "pending" /\ Claim(k)' = "unsent" /\ Wire(k)' = 0
        \/ Claim(k) = "pending" /\ Claim(k)' = "maybe"
        \/ Claim(k) = "maybe" /\ Claim(k)' = "known" /\ Landed(k) = 1 /\ Wire(k)' = 0
  \/ Claim(k)' = Claim(k) /\ Wire(k) = 1 /\ Wire(k)' = 0 /\ Landed(k) = 0

LEMMA TurnIsMove ==
  ASSUME NEW k \in Jobs, Turn(k)
  PROVE  Abstract'[k] = Abstract[k] \/ Promise!Move(Abstract[k], Abstract'[k])
<1>1. /\ Abstract[k] = Shown!E(Claim(k), Wire(k), Landed(k))
      /\ Abstract'[k] = Shown!E(Claim(k)', Wire(k)', Landed(k)')
  BY DEF Abstract, Shown!E, Wire, Landed, Runs
<1>2. \A x, y : Shown!Move(x, y) <=> Promise!Move(x, y)
  BY DEF Promise!Move, Promise!Ask, Promise!Dispatch, Promise!Withdraw, Promise!Doubt, Promise!Refuse,
         Promise!Learn, Promise!Land, Promise!Lose, Shown!Move, Shown!Ask, Shown!Dispatch,
         Shown!Withdraw, Shown!Doubt, Shown!Refuse, Shown!Learn, Shown!Land, Shown!Lose
<1>3. \A m \in Nat :
        /\ Shown!Move(Shown!E("unsent", 0, m), Shown!E("pending", 0, m))
        /\ Shown!Move(Shown!E("pending", 0, m), Shown!E("unsent", 0, m))
        /\ Shown!Move(Shown!E("pending", 0, m), Shown!E("maybe", 1, m))
        /\ Shown!Move(Shown!E("pending", 0, m), Shown!E("maybe", 0, m))
        /\ Shown!Move(Shown!E("maybe", 0, 1), Shown!E("known", 0, 1))
        /\ \A c : /\ Shown!Move(Shown!E(c, 1, m), Shown!E(c, 0, m + 1))
                  /\ Shown!Move(Shown!E(c, 1, m), Shown!E(c, 0, m))
  BY Shown!Moves
<1>4. /\ Landed(k) \in {0, 1} /\ Landed(k)' \in {0, 1} /\ Wire(k)' \in {0, 1}
      /\ 0 \in Nat /\ 1 \in Nat /\ 0 + 1 = 1
  BY DEF Landed, Wire
<1>5. \A c : /\ Shown!Move(Shown!E(c, 1, 0), Shown!E(c, 0, 1))
             /\ Shown!Move(Shown!E(c, 1, 0), Shown!E(c, 0, 0))
  BY <1>3, <1>4
<1> QED
  BY <1>1, <1>2, <1>3, <1>4, <1>5 DEF Turn

LEMMA Turns ==
  ASSUME HostInv, HostInv', [Next]_vars, NEW k \in Jobs
  PROVE  Turn(k)
<1>1. /\ SupOK(host, {}) /\ AwaitRight(host) /\ (host.mem # NoJob => Even(host))
      /\ SupOK(host', {}) /\ AwaitRight(host') /\ (host'.mem # NoJob => Even(host'))
  <2>1. Inv /\ Inv' /\ Right(host) /\ Right(host)'
    BY DEF HostInv
  <2>2. SupOK(host, {}) /\ SupOK(host', {})
    BY <2>1, Smaller DEF Inv
  <2> QED
    BY <2>1, <2>2 DEF Right, MemRight, AwaitRight, Even
<1>2. /\ Claim(k) = ClaimIn(host, k) /\ Claim(k)' = ClaimIn(host', k)
      /\ Wire(k)' = IF Runs(host', k) /\ runner'[k] = "none" THEN 1 ELSE 0
  BY DEF Claim, ClaimIn, Records, RecordsIn, Wire, Runs
<1>3. Stable(Started) /\ Stable(Unstarted) /\ Firm(Over) /\ Started # Unstarted /\ Over # Unstarted
  BY NoJobAssumption DEF Stable, Firm, Started, Unstarted, Over
<1>5. CASE Within(host, k, Unstarted) /\ Within(host', k, Unstarted)
  <2>1. ~Runs(host, k) /\ ~Runs(host', k) /\ {Claim(k), Claim(k)'} \subseteq {"unsent", "pending"}
    BY <1>1, <1>2, <1>5, Pictures
  <2>2. Landed(k)' = Landed(k)
    <3>1. ~(Launch /\ host.for = k)
      BY <2>1 DEF Launch, Runs
    <3> QED
      BY <3>1, InstallersStay DEF Landed, HostInv, Inv
  <2>3. Wire(k) = 0 /\ Wire(k)' = 0
    BY <1>2, <2>1 DEF Wire
  <2> QED
    BY <2>1, <2>2, <2>3 DEF Turn
<1>6. CASE Within(host, k, Unstarted) /\ ~Within(host', k, Unstarted)
  <2>1. Starting(k)
    BY <1>3, <1>6, StepsWithin
  <2>2. /\ host.at = "preflight" /\ host' \in Qualified(host, Env) /\ Right(host) /\ host.mem.id = k
        /\ runner' = runner /\ host.mem # NoJob
    BY <1>1, <2>1, NoJobAssumption DEF Starting, PreflightReturns, Supervise, installer, HostInv, SupOK
  <2>3. ~Within(host', k, Over) /\ host.mem.state \notin Terminal
    BY <1>1, <1>6, <2>2, QualifiedBegins
  <2>4. Claim(k) = "pending" /\ ~Runs(host, k)
    BY <1>1, <1>2, <1>6, <2>2, <2>3, Pictures
  <2>5. Claim(k)' = "maybe"
    BY <1>1, <1>2, <1>6, <2>3, Pictures
  <2> QED
    BY <2>2, <2>4, <2>5 DEF Turn, Wire, Landed
<1>7. CASE Within(host, k, Started) /\ Within(host, k, Over)
  <2>1. Within(host', k, Over) /\ Within(host', k, Started)
    BY <1>3, <1>7, StepsWithin
  <2>2. Claim(k) = "known" /\ Claim(k)' = "known" /\ ~Runs(host, k) /\ ~Runs(host', k)
    BY <1>1, <1>2, <1>7, <2>1, Pictures
  <2>3. Landed(k)' = Landed(k)
    <3>1. ~(Launch /\ host.for = k)
      BY <2>2 DEF Launch, Runs
    <3> QED
      BY <3>1, InstallersStay DEF Landed, HostInv, Inv
  <2> QED
    BY <1>2, <2>2, <2>3 DEF Turn, Wire
<1>8. CASE Within(host, k, Started) /\ ~Within(host, k, Over)
  <2>1. Within(host', k, Started) /\ Claim(k) = "maybe"
    BY <1>1, <1>2, <1>3, <1>8, StepsWithin, Pictures
  <2>2. CASE Launch /\ host.for = k
    <3>1. /\ host' = host /\ Runs(host, k) /\ runner[k] = "none" /\ runner'[k] = "validating"
      BY <2>2 DEF Launch, Runs, HostInv, Inv, TypeOK
    <3> QED
      BY <1>2, <3>1 DEF Turn, Wire, Landed
  <2>3. CASE ~(Launch /\ host.for = k)
    <3>1. (runner'[k] = "none") <=> (runner[k] = "none")
      BY <2>3, InstallersStay DEF HostInv, Inv
    <3>2. Runs(host', k) => Runs(host, k)
      <4>1. ASSUME Runs(host', k), host.at # "run" PROVE FALSE
        <5>1. PreflightReturns
          BY <4>1, StartsAfterPreflight DEF Runs
        <5>2. host.at = "preflight" /\ host' \in Qualified(host, Env) /\ host.mem \in Job
          BY <1>1, <5>1 DEF PreflightReturns, Supervise, SupOK
        <5>3. host.mem.id = k
          <6>1. host'.for = host.for /\ host'.mem.id = host.for
            BY <1>1, <4>1, <5>2, QualifiedStarts DEF Runs, SupOK
          <6> QED
            BY <1>1, <4>1, <5>2, <6>1 DEF Runs, AwaitRight
        <5>4. ~host.mem.started
          BY <1>1, <5>2 DEF AwaitRight
        <5> QED
          BY <1>8, <5>2, <5>3, <5>4, NoJobAssumption DEF Within, Started
      <4> QED
        BY <4>1, RunsOn DEF Runs
    <3>3. CASE ~Within(host', k, Over)
      <4>1. Claim(k)' = "maybe"
        BY <1>1, <1>2, <2>1, <3>3, Pictures
      <4> QED
        BY <1>2, <2>1, <3>1, <3>2, <4>1 DEF Turn, Wire, Landed
    <3>4. CASE Within(host', k, Over)
      <4>1. Claim(k)' = "known" /\ ~Runs(host', k)
        BY <1>1, <1>2, <2>1, <3>4, Pictures
      <4>2. runner'[k] # "none"
        <5>1. host'.journal[k] \in Job /\ Settled(host'.journal[k]) /\ host'.journal[k].id = k
          BY <1>1, <3>4, NoJobAssumption DEF Within, Over, SupOK, FiledOK
        <5>2. FileRight(host)'
          BY DEF HostInv, Right
        <5>3. Stated(host.journal[k])'
          BY <5>1, <5>2, NoJobAssumption DEF FileRight, Settled
        <5> QED
          BY <5>1, <5>3 DEF Stated
      <4> QED
        BY <1>2, <2>1, <3>1, <4>1, <4>2 DEF Turn, Wire, Landed
    <3> QED
      BY <3>3, <3>4
  <2> QED
    BY <2>2, <2>3
<1> QED
  BY <1>1, <1>5, <1>6, <1>7, <1>8, Pictures

\* A reviewed release is installed at most once for a request, and the journal
\* never claims less than that it may have been, whatever save throws, whatever
\* is cancelled, replayed or taken back, and wherever the controller dies.
THEOREM InstallsAreDurable == Spec => EachInstallIsDurable
<1>1. Init => Promise!Init
  <2>1. ASSUME Init, NEW k \in Jobs PROVE Abstract[k] = Promise!Untouched
    <3>1. /\ host.journal[k] = NoJob /\ host.mem = NoJob /\ host.at = "idle" /\ runner[k] = "none"
      BY <2>1 DEF Init
    <3>2. Records(k) = {}
      BY <3>1 DEF Records
    <3>3. Claim(k) = "unsent"
      BY <3>2 DEF Claim
    <3> QED
      BY <3>1, <3>3 DEF Abstract, Promise!Untouched
  <2>2. Abstract = [k \in Jobs |-> Abstract[k]]
    BY DEF Abstract
  <2> QED
    BY <2>1, <2>2 DEF Promise!Init
<1>2. HostInv /\ HostInv' /\ [Next]_vars => [Promise!Next]_Abstract
  <2> SUFFICES ASSUME HostInv, HostInv', [Next]_vars PROVE Promise!Next
    OBVIOUS
  <2>1. \A k \in Jobs : Abstract'[k] = Abstract[k] \/ Promise!Move(Abstract[k], Abstract'[k])
    BY Turns, TurnIsMove
  <2>2. Abstract' = [k \in Jobs |-> Abstract'[k]]
    BY DEF Abstract
  <2> HIDE DEF Abstract
  <2> QED
    BY <2>1, <2>2 DEF Promise!Next
<1> QED
  BY <1>1, <1>2, HostInvHolds, PTL DEF Spec, EachInstallIsDurable, Promise!Spec
=============================================================================
