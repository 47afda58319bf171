-------------------------- MODULE UpdateBridgeProofs --------------------------
(***************************************************************************)
(* The application beside the update host, for any requests, leases,       *)
(* releases and faults of the host's disk, and without the bounds of the   *)
(* run: it does to the host only what UpdateHost allows, so that all that  *)
(* is proved of the host holds beside it; nobody works beyond the point of *)
(* no return; and it never opens for work while its runtime is suspended.  *)
(***************************************************************************)
EXTENDS UpdateBridge, UpdateHostProofs

-----------------------------------------------------------------------------
(* The invariant.                                                          *)

\* The heartbeats that were sent and not forgotten.
Reports == {beat, call.beat, late} \ {NoBeat}

\* Heartbeat b reports everything suspended and idle, for id i.
Grants(b, i) == b.heldFor = i /\ b.native /\ b.blockers = "none"

\* Operator lease i of l is not being given back, and was not.
Undecided(l, i) == l.disk[i] # NoLease /\ l.disk[i].releaseKind = "none"

\* The lease in memory is on the disk.
MemFiled(l) == l.mem # NoLease => l.disk[l.mem.id] # NoLease

Filings == {k \in Jobs : host.journal[k] # NoJob} \cup {i \in Maintenances : operator.disk[i] # NoLease}

\* The application has heard of id i, or the host of it from the application.
Reached(i) ==
  \/ i \in PendingIds \/ i = app.hold \/ i = app.for
  \/ app.seen # NoView /\ i = app.seen.hold
  \/ call.view # NoView /\ i = call.view.hold
  \/ \E b \in Reports : b.heldFor = i

Waiting == host.mem # NoJob /\ host.mem.state = "waiting"

\* The application is in an await about a lease.
Amidst == {"release", "acquire", "giveback"}

\* What an await says of the application, and who may be suspended.
AppRight ==
  /\ ~app.up => app = Stopped /\ call = NoCall /\ runtime = Dead
  /\ app.at \in Amidst =>
       /\ app.up /\ app.held /\ app.verified = None /\ call = NoCall
       /\ app.seen \in View \ {NoView} /\ app.for \in Ids
  /\ app.at = "release" => app.for # app.seen.hold
  /\ app.at \in {"acquire", "giveback"} => app.for = app.seen.hold /\ PendingIds \subseteq {app.for}
  /\ app.at = "giveback" => app.seen.waiting
  /\ runtime \in Ids => runtime \in PendingIds /\ app.held

\* Heartbeats are those of this application.
ReportRight ==
  /\ call.beat # NoBeat => call.beat.candidate = selected
  /\ \A b \in Reports : b.native => b.heldFor # None

\* What the application has heard of is on the host's disk, and a host that is
\* up holds for an operator lease it has heard of, or that may stop it.
ReachRight ==
  /\ MemFiled(operator)
  /\ \A i \in Ids : Reached(i) => i \in Filings
  /\ \A i \in Maintenances :
       Undecided(operator, i) /\ (Reached(i) \/ operator.disk[i].stopMarked) /\ host.up => HoldFor = i

\* The application works for nobody and will go on to, as long as the host
\* answers that it holds for i.
HeldFast(i) ==
  /\ ~app.work
  /\ app.up =>
       /\ app.held /\ app.at # "giveback"
       /\ app.at \in {"release", "acquire"} => app.seen.hold = i /\ ~app.seen.waiting
       /\ call.view # NoView => call.view.hold = i /\ ~call.view.waiting

\* An installer that was admitted and left no result.
Admitting(k) == runner[k] \notin {"none", "validating", "preparing", "exited"}

\* An operator who may stop the application, or may be about to.
Stopping(i) == Undecided(operator, i) /\ (operator.disk[i].stopMarked \/ \E b \in Reports : Grants(b, i))

FastRight ==
  /\ \A k \in Jobs : Admitting(k) => HeldFast(k)
  /\ \A i \in Maintenances : Stopping(i) => HeldFast(i)

AppInv == BridgeTypeOK /\ AppRight /\ ReportRight

BridgeInv == HostInv /\ LeaseInv /\ AppInv /\ ReachRight /\ FastRight

-----------------------------------------------------------------------------
(* The native lease.                                                       *)

\* A call leaves the runtime as it was, resumed, or suspended for id i, the one it
\* is about, whose receipt then says so.
Leaving(x, n, i) ==
  /\ x.receipt \in Lease!Receipt /\ x.runtime \in {n, i, None}
  /\ x.ok \in BOOLEAN /\ x.verified \in BOOLEAN
  /\ x.runtime = i => Lease!Pending(x.receipt)

\* Receipts of each kind.
LEMMA ReceiptKinds ==
  /\ \A s \in Lease!ReceiptStates, b \in BOOLEAN :
       /\ [state |-> s, mine |-> b] \in Lease!Receipt
       /\ Lease!Pending([state |-> s, mine |-> b]) <=> s \notin {"none", "released"}
  /\ \A r \in Lease!Receipt : Lease!Over(r) \in Lease!Receipt /\ ~Lease!Pending(Lease!Over(r))
  /\ None \notin Ids /\ Dead \notin Ids
BY LeaseAssumption, BridgeAssumption
   DEF Ids, Lease!Receipt, Lease!ReceiptStates, Lease!Pending, Lease!Over

LEMMA PreparedLeaves ==
  ASSUME NEW r \in Lease!Receipt, NEW n \in Ids \cup {None, Dead}, NEW i \in Ids,
         n = i => Lease!Pending(r), NEW x \in Lease!Prepared(r, n, i)
  PROVE  Leaving(x, n, i) /\ x.runtime \in {n, i}
<1> DEFINE asked == IF Lease!Pending(r) /\ r.mine THEN r ELSE [state |-> "preparing", mine |-> TRUE]
           held == [state |-> "held", mine |-> TRUE]
           over == [state |-> "released", mine |-> TRUE]
<1>1. /\ asked \in Lease!Receipt /\ held \in Lease!Receipt /\ over \in Lease!Receipt
      /\ Lease!Pending(asked) /\ Lease!Pending(held)
  BY ReceiptKinds DEF Lease!ReceiptStates
<1>2. \/ x = Lease!Left(r, n, FALSE, FALSE) \/ x = Lease!Left(asked, n, FALSE, FALSE)
      \/ x = Lease!Left(asked, i, FALSE, FALSE)
      \/ n = None /\ x = Lease!Left(over, n, FALSE, FALSE)
      \/ x = Lease!Left(held, i, FALSE, FALSE) \/ x = Lease!Left(held, i, TRUE, TRUE)
  BY DEF Lease!Prepared, Lease!Suspends, Lease!Unknown
<1>3. n = None => n # i
  BY ReceiptKinds
<1> HIDE DEF asked, held, over
<1>4. x.runtime \in {n, i}
  BY <1>2 DEF Lease!Left
<1>5. CASE x = Lease!Left(r, n, FALSE, FALSE)
  BY <1>4, <1>5 DEF Lease!Left, Leaving
<1>6. CASE x = Lease!Left(asked, n, FALSE, FALSE)
  BY <1>1, <1>4, <1>6 DEF Lease!Left, Leaving
<1>7. CASE x = Lease!Left(asked, i, FALSE, FALSE)
  BY <1>1, <1>4, <1>7 DEF Lease!Left, Leaving
<1>8. CASE n = None /\ x = Lease!Left(over, n, FALSE, FALSE)
  BY <1>1, <1>3, <1>4, <1>8 DEF Lease!Left, Leaving
<1>9. CASE x = Lease!Left(held, i, FALSE, FALSE)
  BY <1>1, <1>4, <1>9 DEF Lease!Left, Leaving
<1>10. CASE x = Lease!Left(held, i, TRUE, TRUE)
  BY <1>1, <1>4, <1>10 DEF Lease!Left, Leaving
<1> QED
  BY <1>2, <1>5, <1>6, <1>7, <1>8, <1>9, <1>10

LEMMA ResumedLeaves ==
  ASSUME NEW n, NEW i \in Ids, NEW verified \in BOOLEAN, NEW x \in Lease!Resumed(n, i, verified)
  PROVE  Leaving(x, n, i) /\ (x.ok => ~Lease!Pending(x.receipt))
<1> DEFINE releasing == [state |-> "releasing", mine |-> TRUE]
           over == [state |-> "released", mine |-> TRUE]
<1>1. \/ x = Lease!Left(releasing, n, FALSE, verified)
      \/ x = Lease!Left(over, None, TRUE, FALSE) \/ x = Lease!Left(releasing, None, FALSE, FALSE)
  BY DEF Lease!Resumed, Lease!Ready
<1>2. /\ releasing \in Lease!Receipt /\ over \in Lease!Receipt
      /\ Lease!Pending(releasing) /\ ~Lease!Pending(over) /\ None # i
  BY ReceiptKinds DEF Lease!ReceiptStates
<1> HIDE DEF releasing, over
<1>3. CASE x = Lease!Left(releasing, n, FALSE, verified)
  BY <1>2, <1>3 DEF Lease!Left, Leaving
<1>4. CASE x = Lease!Left(over, None, TRUE, FALSE)
  BY <1>2, <1>4 DEF Lease!Left, Leaving
<1>5. CASE x = Lease!Left(releasing, None, FALSE, FALSE)
  BY <1>2, <1>5 DEF Lease!Left, Leaving
<1> QED
  BY <1>1, <1>3, <1>4, <1>5

LEMMA ReleasedLeaves ==
  ASSUME NEW r \in Lease!Receipt, NEW n \in Ids \cup {None, Dead}, NEW i \in Ids,
         n = i => Lease!Pending(r), NEW x \in Lease!Released(r, n, i)
  PROVE  Leaving(x, n, i) /\ (x.ok => ~Lease!Pending(x.receipt))
<1>1. /\ Lease!Over(r) \in Lease!Receipt /\ ~Lease!Pending(Lease!Over(r))
      /\ n \in {None, Dead} => n # i
  BY ReceiptKinds
<1>2. CASE ~Lease!Pending(r)
  <2>1. x = Lease!Left(r, n, TRUE, FALSE)
    BY <1>2 DEF Lease!Released
  <2> QED
    BY <1>2, <2>1 DEF Lease!Left, Leaving
<1>3. ASSUME x = Lease!Left(r, n, FALSE, FALSE)
      PROVE  Leaving(x, n, i) /\ (x.ok => ~Lease!Pending(x.receipt))
  BY <1>3 DEF Lease!Left, Leaving
<1>4. CASE Lease!Pending(r) /\ n = Dead
  BY <1>3, <1>4 DEF Lease!Released, Lease!Unknown
<1>5. CASE Lease!Pending(r) /\ n # Dead /\ ~r.mine
  <2>1. x = Lease!Left(r, n, FALSE, FALSE) \/ (n = None /\ x = Lease!Left(Lease!Over(r), n, TRUE, FALSE))
    BY <1>5 DEF Lease!Released, Lease!Ready
  <2>2. CASE n = None /\ x = Lease!Left(Lease!Over(r), n, TRUE, FALSE)
    BY <1>1, <2>2 DEF Lease!Left, Leaving
  <2> QED
    BY <1>3, <2>1, <2>2
<1>6. CASE Lease!Pending(r) /\ n # Dead /\ r.mine
  <2>1. \/ x = Lease!Left(r, n, FALSE, FALSE) \/ x \in Lease!Resumed(n, i, FALSE)
        \/ \E p \in Lease!Prepared(r, n, i) :
             \/ x \in Lease!Resumed(p.runtime, i, p.verified)
             \/ x = Lease!Left(p.receipt, p.runtime, ~Lease!Pending(p.receipt), p.verified)
    BY <1>6 DEF Lease!Released, Lease!Unknown
  <2>2. ASSUME x \in Lease!Resumed(n, i, FALSE)
        PROVE  Leaving(x, n, i) /\ (x.ok => ~Lease!Pending(x.receipt))
    BY <2>2, ResumedLeaves
  <2>3. ASSUME NEW p \in Lease!Prepared(r, n, i), x \in Lease!Resumed(p.runtime, i, p.verified)
        PROVE  Leaving(x, n, i) /\ (x.ok => ~Lease!Pending(x.receipt))
    <3>1. p.runtime \in {n, i} /\ p.verified \in BOOLEAN
      BY PreparedLeaves DEF Leaving
    <3>2. Leaving(x, p.runtime, i) /\ (x.ok => ~Lease!Pending(x.receipt))
      BY <2>3, <3>1, ResumedLeaves
    <3> QED
      BY <3>1, <3>2 DEF Leaving
  <2>4. ASSUME NEW p \in Lease!Prepared(r, n, i), NEW ok \in BOOLEAN, ok = ~Lease!Pending(p.receipt),
               x = Lease!Left(p.receipt, p.runtime, ok, p.verified)
        PROVE  Leaving(x, n, i) /\ (x.ok => ~Lease!Pending(x.receipt))
    <3>1. Leaving(p, n, i)
      BY PreparedLeaves
    <3>2. /\ x.receipt = p.receipt /\ x.runtime = p.runtime /\ x.ok = ok
          /\ x.verified = p.verified
      BY <2>4 DEF Lease!Left
    <3> QED
      BY <2>4, <3>1, <3>2 DEF Leaving
  <2> QED
    BY <1>3, <2>1, <2>2, <2>3, <2>4
<1> QED
  BY <1>2, <1>4, <1>5, <1>6

-----------------------------------------------------------------------------
(* The host: its operator lease and what it holds for.                     *)

\* A change of the lease l knows: one given back stays so, and the application is
\* marked as one to be stopped once it was heard to be held.
Changed(l, g, e) ==
  /\ ~l.uncertain /\ l.mem # NoLease
  /\ \E r \in Maintenance :
       /\ g \in Saves(l, r) /\ r.id = l.mem.id
       /\ r.releaseKind = "none" =>
            /\ l.mem.releaseKind = "none"
            /\ r.stopMarked => l.mem.stopMarked \/ OperatorHeld(l, e)

\* A new lease.
Begins(l, g) ==
  /\ ~OperatorActive(l)
  /\ \E r \in Maintenance : g \in Saves(l, r) /\ l.disk[r.id] = NoLease /\ ~r.stopMarked

LEMMA SavesFields ==
  ASSUME NEW l \in OperatorLeases, NEW r \in Maintenance, NEW g \in Saves(l, r)
  PROVE  /\ g.disk = l.disk \/ \A i \in Maintenances : g.disk[i] = IF i = r.id THEN r ELSE l.disk[i]
         /\ \/ /\ g.mem = r /\ g.uncertain = l.uncertain
               /\ \A i \in Maintenances : g.disk[i] = IF i = r.id THEN r ELSE l.disk[i]
            \/ g.mem = l.mem /\ g.uncertain
<1> DEFINE d == [l EXCEPT !.disk[r.id] = r, !.current = r.id]
<1>1. r.id \in Maintenances
  BY DEF Maintenance
<1>2. /\ d \in OperatorLeases /\ d.mem = l.mem /\ d.uncertain = l.uncertain
      /\ \A i \in Maintenances : d.disk[i] = IF i = r.id THEN r ELSE l.disk[i]
  BY <1>1 DEF OperatorLeases
<1>3. g = [d EXCEPT !.mem = r] \/ g = [d EXCEPT !.uncertain = TRUE] \/ g = [l EXCEPT !.uncertain = TRUE]
  BY DEF Saves
<1> HIDE DEF d
<1>4. CASE g = [d EXCEPT !.mem = r]
  <2>1. g.disk = d.disk /\ g.mem = r /\ g.uncertain = d.uncertain
    BY <1>2, <1>4 DEF OperatorLeases
  <2> QED
    BY <1>2, <2>1
<1>5. CASE g = [d EXCEPT !.uncertain = TRUE]
  <2>1. g.disk = d.disk /\ g.mem = d.mem /\ g.uncertain
    BY <1>2, <1>5 DEF OperatorLeases
  <2> QED
    BY <1>2, <2>1
<1>6. CASE g = [l EXCEPT !.uncertain = TRUE]
  <2>1. g.disk = l.disk /\ g.mem = l.mem /\ g.uncertain
    BY <1>6 DEF OperatorLeases
  <2> QED
    BY <2>1
<1> QED
  BY <1>3, <1>4, <1>5, <1>6

LEMMA ObservedChanges ==
  ASSUME NEW l \in OperatorLeases, NEW e, NEW g \in Observed(l, e), NEW f
  PROVE  g = l \/ Changed(l, g, f)
<1> SUFFICES ASSUME g # l PROVE Changed(l, g, f)
  OBVIOUS
<1>1. /\ ~l.uncertain /\ Open(l.mem)
      /\ \E p \in Phases : g \in Saves(l, [l.mem EXCEPT !.phase = p])
  <2>1. {"failed", "held"} \subseteq Phases /\ Conclusions(l.mem) \subseteq Phases
    BY DEF Phases, Conclusions
  <2> QED
    BY <2>1 DEF Observed
<1>2. PICK p \in Phases : g \in Saves(l, [l.mem EXCEPT !.phase = p])
  BY <1>1
<1> DEFINE r == [l.mem EXCEPT !.phase = p]
<1>3. l.mem \in Maintenance /\ l.mem # NoLease
  BY <1>1 DEF Open, OperatorLeases
<1>4. /\ r \in Maintenance /\ r.id = l.mem.id /\ r.stopMarked = l.mem.stopMarked
      /\ r.releaseKind = l.mem.releaseKind
  BY <1>3, LeaseFields, MaintenancePhase
<1>5. g \in Saves(l, r)
  BY <1>2
<1> HIDE DEF r
<1> QED
  BY <1>1, <1>3, <1>4, <1>5 DEF Changed

LEMMA OperatedChanges ==
  ASSUME NEW l \in OperatorLeases, LeasesRight(l), Known(l), NEW e \in Envs, NEW i \in Maintenances,
         NEW epoch \in Epochs, NEW idle,
         NEW g \in Entered(l, e, i, epoch, idle) \cup Marked(l, e, i, idle)
                     \cup OperatorCancelled(l, e, i, idle) \cup Released(l, e, i, idle)
  PROVE  g = l \/ Changed(l, g, e) \/ Begins(l, g)
<1> DEFINE n == [id |-> i, candidate |-> e.selected, epoch |-> epoch, phase |-> "entered",
                 stopMarked |-> FALSE, releaseKind |-> "none"]
<1>1. CASE ~OperatorActive(l) /\ l.disk[i] = NoLease /\ g \in Saves(l, n)
  <2>1. n \in Maintenance /\ n.id = i /\ ~n.stopMarked
    BY DEF Envs, Maintenance, Phases
  <2> HIDE DEF n
  <2> QED
    BY <1>1, <2>1 DEF Begins
<1>2. ASSUME Owned(l, e, i)
      PROVE  ~l.uncertain /\ l.mem # NoLease /\ l.mem \in Maintenance /\ Unstopped(l.mem)
  BY <1>2, MemUnstopped DEF Owned
<1>3. CASE g \in Marked(l, e, i, idle) /\ g # l
  <2>1. PICK p \in {q \in Allowed(l.mem) : q = "stopping" => OperatorHeld(l, e)} :
          g \in Saves(l, [l.mem EXCEPT !.phase = p, !.stopMarked = TRUE])
    BY <1>3 DEF Marked
  <2>2. Owned(l, e, i)
    BY <1>3 DEF Marked
  <2>3. p \in Phases /\ (p # "stopping" => l.mem.stopMarked)
    BY <1>2, <2>1, <2>2 DEF Allowed, Phases, Unstopped
  <2> DEFINE r == [l.mem EXCEPT !.phase = p, !.stopMarked = TRUE]
  <2>4. r \in Maintenance /\ r.id = l.mem.id /\ r.releaseKind = l.mem.releaseKind
    BY <1>2, <2>2, <2>3 DEF Maintenance
  <2>5. g \in Saves(l, r)
    BY <2>1
  <2> HIDE DEF r
  <2> QED
    BY <1>2, <2>1, <2>2, <2>3, <2>4, <2>5 DEF Changed
<1>4. CASE g \in OperatorCancelled(l, e, i, idle) /\ g # l
  <2> DEFINE r == [l.mem EXCEPT !.phase = "releasing", !.releaseKind = "cancelled"]
  <2>1. Owned(l, e, i) /\ g \in Saves(l, r)
    BY <1>4 DEF OperatorCancelled
  <2>2. r \in Maintenance /\ r.id = l.mem.id /\ r.releaseKind = "cancelled"
    BY <1>2, <2>1 DEF Maintenance, Phases
  <2> HIDE DEF r
  <2> QED
    BY <1>2, <2>1, <2>2 DEF Changed
<1>5. CASE g \in Released(l, e, i, idle) /\ g # l
  <2> DEFINE r1 == [l.mem EXCEPT !.phase = "failed"]
             r2 == [l.mem EXCEPT !.phase = "releasing", !.releaseKind = "proved"]
  <2>1. Owned(l, e, i) /\ (g \in Saves(l, r1) \/ g \in Saves(l, r2))
    BY <1>5 DEF Released
  <2>2. /\ r1 \in Maintenance /\ r1.id = l.mem.id /\ r1.stopMarked = l.mem.stopMarked
        /\ r1.releaseKind = l.mem.releaseKind
        /\ r2 \in Maintenance /\ r2.id = l.mem.id /\ r2.releaseKind = "proved"
    BY <1>2, <2>1 DEF Maintenance, Phases
  <2> HIDE DEF r1, r2
  <2> QED
    BY <1>2, <2>1, <2>2 DEF Changed
<1>6. g \in Entered(l, e, i, epoch, idle) =>
        g = l \/ (~OperatorActive(l) /\ l.disk[i] = NoLease /\ g \in Saves(l, n))
  BY DEF Entered
<1> QED
  BY <1>1, <1>3, <1>4, <1>5, <1>6

\* The lease a controller knows is the one on disk.
LEMMA KnownLease ==
  ASSUME NEW l \in OperatorLeases, LeasesRight(l), Known(l), ~l.uncertain, l.mem # NoLease
  PROVE  l.mem.id \in Maintenances /\ l.mem = l.disk[l.mem.id] /\ l.current = l.mem.id
BY DEF Known, OperatorLeases, LeasesRight

\* What a change leaves of lease i.
LEMMA ChangedKeeps ==
  ASSUME NEW l \in OperatorLeases, LeasesRight(l), Known(l), MemFiled(l), NEW e,
         NEW g, LeasesRight(g), g = l \/ Changed(l, g, e), NEW i \in Maintenances
  PROVE  /\ MemFiled(g) /\ (l.disk[i] # NoLease <=> g.disk[i] # NoLease)
         /\ Undecided(g, i) =>
              /\ Undecided(l, i)
              /\ g.disk[i].stopMarked =>
                   l.disk[i].stopMarked \/ (OperatorHeld(l, e) /\ l.mem # NoLease /\ l.mem.id = i)
         /\ Undecided(g, i) /\ OperatorActive(l) /\ OperatorHoldFor(l) = i =>
              OperatorActive(g) /\ OperatorHoldFor(g) = i
<1>1. CASE g = l
  BY <1>1
<1>2. CASE Changed(l, g, e)
  <2>1. /\ ~l.uncertain /\ l.mem # NoLease /\ l.mem.id \in Maintenances
        /\ l.mem = l.disk[l.mem.id]
    BY <1>2, KnownLease DEF Changed
  <2>2. PICK r \in Maintenance :
          /\ g \in Saves(l, r) /\ r.id = l.mem.id
          /\ r.releaseKind = "none" =>
               /\ l.mem.releaseKind = "none"
               /\ r.stopMarked => l.mem.stopMarked \/ OperatorHeld(l, e)
    BY <1>2 DEF Changed
  <2>3. /\ r # NoLease
        /\ g.disk = l.disk \/ \A k \in Maintenances : g.disk[k] = IF k = r.id THEN r ELSE l.disk[k]
        /\ \/ g.mem = r /\ \A k \in Maintenances : g.disk[k] = IF k = r.id THEN r ELSE l.disk[k]
           \/ g.mem = l.mem /\ g.uncertain
    BY <2>2, SavesFields, NoLeaseAssumption
  <2>4. MemFiled(g) /\ (l.disk[i] # NoLease <=> g.disk[i] # NoLease)
    BY <2>1, <2>2, <2>3 DEF MemFiled
  <2>5. ASSUME Undecided(g, i)
        PROVE  /\ Undecided(l, i)
               /\ g.disk[i].stopMarked =>
                    l.disk[i].stopMarked \/ (OperatorHeld(l, e) /\ l.mem # NoLease /\ l.mem.id = i)
    BY <2>1, <2>2, <2>3, <2>5 DEF Undecided
  <2>6. ASSUME Undecided(g, i), OperatorActive(l), OperatorHoldFor(l) = i
        PROVE  OperatorActive(g) /\ OperatorHoldFor(g) = i
    <3>1. l.mem.id = i /\ Open(l.mem) /\ l.mem.phase # "releasing"
      BY <2>6, LeaseAssumption DEF OperatorHoldFor
    <3>2. CASE g.mem = l.mem /\ g.uncertain
      BY <3>1, <3>2 DEF OperatorActive, OperatorHoldFor
    <3>3. CASE g.mem = r /\ g.disk[i] = r
      <4>1. r.phase \notin {"releasing", "released", "cancelled"}
        BY <2>6, <3>3 DEF Undecided, LeasesRight, Unstopped
      <4> QED
        BY <2>2, <2>3, <3>1, <3>3, <4>1 DEF OperatorActive, OperatorHoldFor, Open
    <3> QED
      BY <2>2, <2>3, <3>1, <3>2, <3>3
  <2> QED
    BY <2>4, <2>5, <2>6
<1> QED
  BY <1>1, <1>2

LEMMA BeginsKeeps ==
  ASSUME NEW l \in OperatorLeases, MemFiled(l), NEW g, Begins(l, g), NEW i \in Maintenances
  PROVE  /\ MemFiled(g)
         /\ l.disk[i] # NoLease => g.disk[i] = l.disk[i]
         /\ l.disk[i] = NoLease /\ g.disk[i] # NoLease => ~g.disk[i].stopMarked
<1>1. PICK r \in Maintenance : g \in Saves(l, r) /\ l.disk[r.id] = NoLease /\ ~r.stopMarked
  BY DEF Begins
<1>2. /\ r # NoLease
      /\ g.disk = l.disk \/ \A k \in Maintenances : g.disk[k] = IF k = r.id THEN r ELSE l.disk[k]
      /\ \/ g.mem = r /\ \A k \in Maintenances : g.disk[k] = IF k = r.id THEN r ELSE l.disk[k]
         \/ g.mem = l.mem /\ g.uncertain
  BY <1>1, SavesFields, NoLeaseAssumption
<1>3. r.id \in Maintenances /\ (l.mem # NoLease => l.mem.id \in Maintenances)
  BY DEF Maintenance, OperatorLeases
<1> QED
  BY <1>1, <1>2, <1>3 DEF MemFiled

\* No record leaves the journal.
LEMMA FiledStays ==
  ASSUME HostInv, [Next]_vars, NEW k \in Jobs, host.journal[k] # NoJob
  PROVE  host'.journal[k] # NoJob
<1>1. host.journal[k] \in Job /\ (host.mem # NoJob => host.mem \in Job)
  BY DEF HostInv, Inv, SupOK, FiledOK, Supervisor
<1>2. Within(host, k, Job) /\ Stable(Job) /\ Job # Unstarted
  BY <1>1, NoJobAssumption DEF Within, Stable, Unstarted
<1>3. Within(host', k, Job)
  BY <1>2, StepsWithin
<1> QED
  BY <1>3, NoJobAssumption DEF Within

\* For whom the host holds.
LEMMA HoldForOf ==
  ASSUME Inv, MemFiled(operator)
  PROVE  /\ HoldFor \in {None} \cup Filings
         /\ \A i \in Maintenances :
              HoldFor = i <=> OperatorActive(operator) /\ OperatorHoldFor(operator) = i
<1>1. /\ host.mem # NoJob => host.mem.id \in Jobs /\ host.journal[host.mem.id] # NoJob
      /\ operator.mem # NoLease => operator.mem.id \in Maintenances
  BY NoJobAssumption DEF Inv, SupOK, FiledOK, Filed, TypeOK, OperatorLeases, Maintenance
<1>2. HoldFor \in {None} \cup Filings
  BY <1>1 DEF HoldFor, OperatorHoldFor, Open, MemFiled, Filings
<1>3. ASSUME NEW i \in Maintenances
      PROVE  HoldFor = i <=> OperatorActive(operator) /\ OperatorHoldFor(operator) = i
  BY <1>1, LeaseAssumption DEF HoldFor
<1> QED
  BY <1>2, <1>3

\* What a step of the host does to its operator lease.
OperatorStep ==
  \/ operator' = operator /\ host'.up = host.up
  \/ Restart
  \/ /\ host.up
     /\ \E o \in OperatorLeases :
          /\ LeasesRight(o) /\ (o = operator \/ Changed(operator, o, Env))
          /\ operator' = IF host'.up THEN o ELSE Forgotten(o)
  \/ Operate /\ host.up /\ host' = host /\ Begins(operator, operator')

LEMMA HearsOperator ==
  ASSUME Inv, LeaseInv, NEW b, Hears(b)
  PROVE  OperatorStep
<1> DEFINE e == [Env EXCEPT !.beat = b, !.fresh = TRUE]
<1>1. PICK o \in Observed(operator, e) : host.up /\ Remembers(o, b, TRUE)
  BY DEF Hears
<1> HIDE DEF e
<1>2. o \in OperatorLeases /\ LeasesRight(o) /\ (o = operator \/ Changed(operator, o, Env))
  BY <1>1, ObservedKeeps, ObservedRight, ObservedChanges DEF Inv, TypeOK, LeaseInv
<1> QED
  BY <1>1, <1>2 DEF OperatorStep, Remembers

LEMMA OperatorSteps ==
  ASSUME Inv, LeaseInv, [Next]_vars
  PROVE  OperatorStep
<1>0. operator \in OperatorLeases /\ Env \in Envs
  BY EnvTyped DEF Inv, TypeOK
<1>1. CASE Heartbeat
  BY <1>1, HearsOperator DEF Heartbeat
<1>2. ASSUME NEW hs, Supervise(hs) PROVE OperatorStep
  BY <1>0, <1>2 DEF Supervise, Remembers, OperatorStep, LeaseInv
<1>3. CASE Poll \/ Request \/ Cancel \/ PrepareReturns \/ Progress \/ PreflightReturns
             \/ ReconcileReturns \/ AwaitFails \/ RunReturns \/ Stop \/ Crash
  BY <1>2, <1>3 DEF Poll, Request, Cancel, PrepareReturns, Progress, PreflightReturns,
     ReconcileReturns, AwaitFails, RunReturns, Stop, Crash
<1>4. CASE Operate
  <2>1. PICK i \in Maintenances, epoch \in Epochs :
          LET idle == ~Installing /\ ~FrontendActive(frontend) IN
          operator' \in Entered(operator, Env, i, epoch, idle) \cup Marked(operator, Env, i, idle)
                          \cup OperatorCancelled(operator, Env, i, idle) \cup Released(operator, Env, i, idle)
    BY <1>4 DEF Operate
  <2>2. host.up /\ host' = host
    BY <1>4 DEF Operate
  <2>3. LeasesRight(operator') /\ Known(operator)
    BY <1>0, <2>1, <2>2, OperatedRight DEF LeaseInv
  <2>4. operator' \in OperatorLeases
    BY NextInv DEF Inv, TypeOK
  <2>5. operator' = operator \/ Changed(operator, operator', Env) \/ Begins(operator, operator')
    BY <1>0, <2>1, <2>2, <2>3, OperatedChanges DEF LeaseInv
  <2> QED
    BY <1>4, <2>2, <2>3, <2>4, <2>5 DEF OperatorStep
<1>5. CASE Restart
  BY <1>5 DEF OperatorStep
<1>6. CASE Stale \/ Refresh \/ SwitchFrontend \/ Launch
  BY <1>6 DEF Stale, Refresh, SwitchFrontend, Launch, OperatorStep
<1>7. ASSUME NEW k \in Jobs, Runner(k) PROVE OperatorStep
  <2>1. UNCHANGED operator
    BY <1>7 DEF Runner, RunnerPrepares, RunnerAdmits, RunnerStops, RunnerSwitches, RunnerChecks,
       RunnerRestores, RunnerReturns, RunnerAccepts, RunnerPublishes, RunnerDies, Moves
  <2>2. host' = host \/ \E s \in States : host' \in Reported(host, k, s)
    BY <1>7 DEF Runner, RunnerPrepares, RunnerAdmits, RunnerStops, RunnerSwitches, RunnerChecks,
       RunnerRestores, RunnerReturns, RunnerAccepts, RunnerPublishes, RunnerDies, Moves, States
  <2>3. host'.up = host.up
    BY <2>2, ReportedKeeps DEF Inv
  <2> QED
    BY <2>1, <2>3 DEF OperatorStep
<1>8. CASE UNCHANGED vars
  BY <1>8 DEF vars, OperatorStep
<1> QED
  BY <1>1, <1>3, <1>4, <1>5, <1>6, <1>7, <1>8 DEF Next

\* An operator lease that is not being given back was not before, or is new; where
\* the application may be stopped the host heard that it is held; and a host that
\* holds for it goes on to, also after a restart.
LEMMA OperatorStays ==
  ASSUME Inv, Inv', LeaseInv, LeaseInv', MemFiled(operator), [Next]_vars, NEW i \in Maintenances
  PROVE  /\ MemFiled(operator') /\ (operator.disk[i] # NoLease => operator'.disk[i] # NoLease)
         /\ Undecided(operator', i) =>
              \/ /\ Undecided(operator, i)
                 /\ operator'.disk[i].stopMarked =>
                      operator.disk[i].stopMarked \/ (beat \in Reports /\ Grants(beat, i))
                 /\ host'.up /\ (host.up => HoldFor = i) => HoldFor' = i
              \/ Operate /\ operator.disk[i] = NoLease /\ ~operator'.disk[i].stopMarked
<1> DEFINE Q == OperatorActive(operator') /\ OperatorHoldFor(operator') = i
<1>0. operator \in OperatorLeases /\ operator' \in OperatorLeases
  BY DEF Inv, TypeOK
<1>1. Q => HoldFor' = i
  BY DEF HoldFor, OperatorActive, OperatorHoldFor, Open
<1>2. HoldFor = i => OperatorActive(operator) /\ OperatorHoldFor(operator) = i
  BY HoldForOf
<1>3. LeasesRight(operator) /\ LeasesRight(operator') /\ (host.up => Known(operator))
  BY DEF LeaseInv, LeasesRight, Unstopped, Open
<1>4. CASE operator' = operator /\ host'.up = host.up
  BY <1>1, <1>2, <1>4
<1>5. CASE Restart
  <2>1. ~host.up /\ operator' = Loaded(operator)
    BY <1>5 DEF Restart
  <2>2. /\ operator'.disk = operator.disk /\ operator'.current = operator.current
        /\ operator'.mem = IF operator.current = None THEN NoLease ELSE operator.disk[operator.current]
    BY <1>0, <2>1 DEF Loaded, OperatorLeases
  <2>3. MemFiled(operator')
    BY <1>0, <1>3, <2>2 DEF MemFiled, OperatorLeases, LeasesRight
  <2>4. ASSUME Undecided(operator, i) PROVE Q
    <3>1. operator.disk[i].phase \notin {"releasing", "released", "cancelled"} /\ operator.disk[i].id = i
      BY <1>3, <2>4 DEF LeasesRight, Unstopped, Undecided
    <3>2. operator.current = i
      BY <1>3, <2>4, <3>1 DEF LeasesRight, Undecided, Open
    <3> QED
      BY <2>2, <2>4, <3>1, <3>2, LeaseAssumption DEF OperatorActive, OperatorHoldFor, Open, Undecided
  <2> HIDE DEF Q
  <2> QED
    BY <1>1, <2>1, <2>2, <2>3, <2>4 DEF Undecided
<1>6. CASE /\ host.up
           /\ \E o \in OperatorLeases :
                /\ LeasesRight(o) /\ (o = operator \/ Changed(operator, o, Env))
                /\ operator' = IF host'.up THEN o ELSE Forgotten(o)
  <2>1. PICK o \in OperatorLeases :
                /\ LeasesRight(o) /\ (o = operator \/ Changed(operator, o, Env))
                /\ operator' = IF host'.up THEN o ELSE Forgotten(o)
    BY <1>6
  <2>2. /\ operator'.disk = o.disk
        /\ operator'.mem = IF host'.up THEN o.mem ELSE NoLease
        /\ host'.up => operator' = o
    BY <2>1 DEF Forgotten, OperatorLeases
  <2>3. /\ MemFiled(o) /\ (operator.disk[i] # NoLease <=> o.disk[i] # NoLease)
        /\ Undecided(o, i) =>
              /\ Undecided(operator, i)
              /\ o.disk[i].stopMarked =>
                   operator.disk[i].stopMarked
                     \/ (OperatorHeld(operator, Env) /\ operator.mem # NoLease /\ operator.mem.id = i)
        /\ Undecided(o, i) /\ OperatorActive(operator) /\ OperatorHoldFor(operator) = i =>
              OperatorActive(o) /\ OperatorHoldFor(o) = i
    BY <1>0, <1>3, <1>6, <2>1, ChangedKeeps
  <2>4. OperatorHeld(operator, Env) /\ operator.mem.id = i => beat \in Reports /\ Grants(beat, i)
    BY DEF OperatorHeld, OperatorMatching, Live, Env, Grants, Reports
  <2>5. Undecided(operator', i) => Undecided(o, i)
    BY <2>2 DEF Undecided
  <2>6. MemFiled(operator')
    BY <2>2, <2>3 DEF MemFiled
  <2>7. Undecided(o, i) /\ host'.up /\ HoldFor = i => Q
    BY <1>2, <2>2, <2>3
  <2> HIDE DEF Q
  <2> QED
    BY <1>1, <1>6, <2>2, <2>3, <2>4, <2>5, <2>6, <2>7
<1>7. CASE Operate /\ host.up /\ host' = host /\ Begins(operator, operator')
  <2>1. /\ MemFiled(operator')
        /\ operator.disk[i] # NoLease => operator'.disk[i] = operator.disk[i]
        /\ operator.disk[i] = NoLease /\ operator'.disk[i] # NoLease => ~operator'.disk[i].stopMarked
    BY <1>0, <1>7, BeginsKeeps
  <2>2. HoldFor # i
    BY <1>2, <1>7 DEF Begins
  <2> QED
    BY <1>7, <2>1, <2>2 DEF Undecided
<1> QED
  BY <1>4, <1>5, <1>6, <1>7, OperatorSteps DEF OperatorStep

\* The host answers whoever asks that it holds for i, and not only until work ends.
Answers(i) == host.up => HoldFor = i /\ ~Waiting

LEMMA InstallerAnswers ==
  ASSUME HostInv, NEW k \in Jobs, Admitting(k)
  PROVE  Answers(k)
<1> SUFFICES ASSUME host.up PROVE HoldFor = k /\ ~Waiting
  BY DEF Answers
<1>1. Running(k)
  BY DEF Running, Admitting, HostInv, ResultEnds, Inv, TypeOK, Verdicts
<1>2. /\ host.mem # NoJob /\ host.mem.id = k /\ host.mem.hold /\ Sane(host.mem)
      /\ host.mem.started
  BY <1>1 DEF HostInv, Right, FileRight, MemRight, Even
<1>3. ~Busy
  BY <1>2 DEF HostInv, Inv, OneAuthority, Installing, Unsettled
<1> QED
  BY <1>2, <1>3 DEF HoldFor, Busy, Waiting, Sane, Preparing

LEMMA OperatorAnswers ==
  ASSUME HostInv, ReachRight, NEW i \in Maintenances, Stopping(i)
  PROVE  Answers(i)
<1> SUFFICES ASSUME host.up PROVE HoldFor = i /\ ~Waiting
  BY DEF Answers
<1>1. HoldFor = i
  BY DEF Stopping, ReachRight, Grants, Reached
<1>2. Busy
  BY <1>1, HoldForOf DEF HostInv, ReachRight, Busy
<1>3. ~Unsettled(host.mem)
  BY <1>2 DEF HostInv, Inv, OneAuthority, Installing
<1> QED
  BY <1>1, <1>3 DEF Waiting, Unsettled, Terminal

-----------------------------------------------------------------------------
(* What a refresh goes on with.                                            *)

\* The receipts of rs that are not resolved.
Unresolved(rs) == {i \in Ids : rs[i].state \notin {"none", "released"}}

LEMMA PendingIs ==
  PendingIds = Unresolved(receipts) /\ PendingIds' = Unresolved(receipts') /\ None \notin Ids
BY ReceiptKinds DEF PendingIds, Unresolved, Lease!Pending

LEMMA AppFields ==
  ASSUME NEW a \in App
  PROVE  /\ a.up \in BOOLEAN /\ a.hold \in Ids \cup {None} /\ a.held \in BOOLEAN
         /\ a.work \in BOOLEAN /\ a.verified \in Ids \cup {None} /\ a.seen \in View \cup {NoView}
         /\ a.for \in Ids \cup {None}
BY DEF App

\* Call c is a heartbeat of application a, for which nobody works if it says so.
Tells(c, a) ==
  /\ c.view = NoView /\ c.beat \in Beat /\ c.beat.candidate = selected
  /\ c.beat.heldFor = a.hold /\ (c.beat.native => a.hold # None)
  /\ c.beat.blockers = "none" => ~a.work

LEMMA SaysWhat ==
  ASSUME NEW a \in App, NEW b \in Blockers, selected \in Nat, a.work = app.work
  PROVE  /\ Says(a, b) \in Beat /\ Says(a, b).candidate = selected /\ Says(a, b).heldFor = a.hold
         /\ Says(a, b).blockers = b
         /\ Says(a, b).native => a.hold # None
         /\ b = "none" => ~a.work
<1>1. (CHOOSE e \in Epochs : TRUE) \in Epochs
  BY BridgeAssumption
<1>2. /\ Says(a, b).candidate = selected /\ Says(a, b).heldFor = a.hold
      /\ Says(a, b).blockers = b /\ (Says(a, b).native => a.hold # None)
      /\ b = "none" => ~a.work
  BY DEF Says, Suspended, Blockers
<1>3. Suspended(a, a.hold) \in BOOLEAN /\ a.hold \in Jobs \cup Maintenances \cup {None}
      /\ b \in {"none", "work", "switch"}
  BY AppFields DEF Suspended, Ids, Blockers
<1>4. Says(a, b) \in Beat
  BY <1>1, <1>3 DEF Says, Beat
<1> QED
  BY <1>2, <1>4

LEMMA BeatsWhat ==
  ASSUME NEW a \in App, NEW at \in {"beat", "final"}, NEW b \in Blockers, selected \in Nat,
         a.work = app.work, Beats(a, at, b)
  PROVE  /\ app' \in App /\ app'.at = at /\ app'.for = None
         /\ app'.up = a.up /\ app'.work = a.work /\ app'.hold = a.hold /\ app'.held = a.held
         /\ app'.seen = a.seen /\ app'.verified = a.verified
         /\ Tells(call', app') /\ call'.beat.blockers = b
<1>1. app' = [a EXCEPT !.at = at, !.for = None] /\ call' = [beat |-> Says(a, b), view |-> NoView]
  BY DEF Beats
<1>2. /\ app' \in App /\ app'.at = at /\ app'.for = None
      /\ app'.up = a.up /\ app'.work = a.work /\ app'.hold = a.hold /\ app'.held = a.held
      /\ app'.seen = a.seen /\ app'.verified = a.verified
  BY <1>1 DEF App
<1> QED
  BY <1>1, <1>2, SaysWhat DEF Tells

LEMMA AsksWhat ==
  ASSUME NEW a \in App, NEW at \in Amidst, NEW i \in Ids, Asks(a, at, i)
  PROVE  /\ app' \in App /\ app'.at = at /\ app'.for = i
         /\ app'.up = a.up /\ app'.work = a.work /\ app'.hold = a.hold /\ app'.held = a.held
         /\ app'.seen = a.seen /\ app'.verified = None /\ call' = NoCall
BY DEF Asks, App, Amidst

LEMMA RestsWhat ==
  ASSUME NEW a \in App, Rests(a)
  PROVE  /\ app' \in App /\ app'.at = "idle" /\ app'.for = None
         /\ app'.up = a.up /\ app'.work = a.work /\ app'.hold = a.hold /\ app'.held = a.held
         /\ app'.seen = NoView /\ app'.verified = a.verified /\ call' = NoCall
BY DEF Rests, App

\* How a refresh of application a goes on, with the leases of U to resolve first.
Outcome(a, U) ==
  /\ app' \in App /\ app'.up = a.up /\ app'.work = a.work
  /\ \/ /\ app'.at = "release" /\ app'.for \in U /\ app'.hold = app'.for /\ app'.held
        /\ app'.seen = a.seen /\ app'.verified = None /\ call' = NoCall
     \/ /\ U = {} /\ a.seen.hold = None /\ app'.at = "idle" /\ app'.for = None
        /\ app'.hold = None /\ ~app'.held
        /\ app'.seen = NoView /\ call' = NoCall
     \/ /\ U = {} /\ app'.at \in {"acquire", "giveback"} /\ a.seen.hold \in Ids
        /\ app'.for = a.seen.hold /\ app'.hold = a.seen.hold /\ app'.held
        /\ app'.at = "giveback" => a.seen.waiting
        /\ app'.seen = a.seen /\ app'.verified = None /\ call' = NoCall
     \/ /\ U = {} /\ app'.at = "final" /\ app'.for = None /\ app'.seen = a.seen
        /\ Tells(call', app') /\ call'.beat.blockers # "none"
        /\ \/ ~a.seen.waiting /\ app'.hold = a.seen.hold /\ app'.held
           \/ a.seen.hold \notin PendingIds /\ a.seen.waiting /\ app'.hold = None /\ ~app'.held

LEMMA ReconcilesWhat ==
  ASSUME NEW a \in App, a.seen \in View, a.work = app.work, selected \in Nat, NEW U \in SUBSET Ids,
         Reconciles(a, U)
  PROVE  Outcome(a, U)
<1>1. CASE U # {}
  <2>1. PICK i \in U : Asks([a EXCEPT !.hold = i, !.held = TRUE], "release", i)
    BY <1>1 DEF Reconciles
  <2> DEFINE h == [a EXCEPT !.hold = i, !.held = TRUE]
  <2>2. /\ h \in App /\ h.hold = i /\ h.held /\ h.up = a.up /\ h.work = a.work /\ h.seen = a.seen
    BY DEF App
  <2> HIDE DEF h
  <2>3. Asks(h, "release", i) /\ "release" \in Amidst
    BY <2>1 DEF h, Amidst
  <2> QED
    BY <2>2, <2>3, AsksWhat DEF Outcome
<1>2. CASE U = {}
  <2> DEFINE i == a.seen.hold
             h == [a EXCEPT !.hold = i, !.held = (i # None)]
             g == [h EXCEPT !.hold = None, !.held = FALSE]
  <2>1. i \in Ids \cup {None} /\ a.seen.waiting \in BOOLEAN
    BY DEF View
  <2>2. h \in App /\ h.hold = i /\ h.held = (i # None) /\ h.up = a.up /\ h.work = a.work /\ h.seen = a.seen
    BY <2>1 DEF App
  <2>3. Obeys(a)
    BY <1>2 DEF Reconciles
  <2>4. \/ i = None /\ Rests(h)
        \/ i # None /\ Asks(h, "acquire", i)
        \/ i # None /\ \E b \in Blockers : b # "none" /\ ~a.seen.waiting /\ Beats(h, "final", b)
        \/ i # None /\ a.seen.waiting /\ Asks(h, "giveback", i)
        \/ i # None /\ i \notin PendingIds /\ a.seen.waiting
             /\ \E b \in Blockers : b # "none" /\ Beats(g, "final", b)
    BY <2>3 DEF Obeys
  <2> HIDE DEF h
  <2>5. g \in App /\ g.hold = None /\ ~g.held /\ g.up = a.up /\ g.work = a.work /\ g.seen = a.seen
    BY <2>2 DEF App
  <2> HIDE DEF g
  <2>6. {"acquire", "giveback"} \subseteq Amidst
    BY DEF Amidst
  <2>7. CASE i = None /\ Rests(h)
    BY <1>2, <2>2, <2>7, RestsWhat DEF Outcome
  <2>8. CASE i # None /\ Asks(h, "acquire", i)
    <3>1. i \in Ids
      BY <2>1, <2>8
    <3>2. /\ app' \in App /\ app'.at = "acquire" /\ app'.for = i
          /\ app'.up = a.up /\ app'.work = a.work /\ app'.hold = i /\ app'.held
          /\ app'.seen = a.seen /\ app'.verified = None /\ call' = NoCall
      BY <2>2, <2>6, <2>8, <3>1, AsksWhat
    <3> QED
      BY <1>2, <3>1, <3>2 DEF Outcome
  <2>9. CASE i # None /\ a.seen.waiting /\ Asks(h, "giveback", i)
    <3>1. i \in Ids
      BY <2>1, <2>9
    <3>2. /\ app' \in App /\ app'.at = "giveback" /\ app'.for = i
          /\ app'.up = a.up /\ app'.work = a.work /\ app'.hold = i /\ app'.held
          /\ app'.seen = a.seen /\ app'.verified = None /\ call' = NoCall
      BY <2>2, <2>6, <2>9, <3>1, AsksWhat
    <3> QED
      BY <1>2, <2>9, <3>1, <3>2 DEF Outcome
  <2>10. CASE i # None /\ \E b \in Blockers : b # "none" /\ ~a.seen.waiting /\ Beats(h, "final", b)
    <3>1. /\ app' \in App /\ app'.at = "final" /\ app'.for = None /\ app'.up = a.up /\ app'.work = a.work /\ app'.hold = i
          /\ app'.held /\ app'.seen = a.seen /\ Tells(call', app') /\ call'.beat.blockers # "none"
      BY <2>2, <2>10, BeatsWhat
    <3> QED
      BY <1>2, <2>10, <3>1 DEF Outcome
  <2>11. CASE i # None /\ i \notin PendingIds /\ a.seen.waiting
             /\ \E b \in Blockers : b # "none" /\ Beats(g, "final", b)
    <3>1. /\ app' \in App /\ app'.at = "final" /\ app'.for = None /\ app'.up = a.up /\ app'.work = a.work /\ app'.hold = None
          /\ ~app'.held /\ app'.seen = a.seen /\ Tells(call', app') /\ call'.beat.blockers # "none"
      BY <2>5, <2>11, BeatsWhat
    <3> QED
      BY <1>2, <2>11, <3>1 DEF Outcome
  <2> QED
    BY <2>4, <2>7, <2>8, <2>9, <2>10, <2>11
<1> QED
  BY <1>1, <1>2

-----------------------------------------------------------------------------
(* The application's own steps.                                            *)

\* A step of the application alone: what it hears of is known already, or told by
\* the host; one that is held fast stays so; and it reports that nobody works only
\* when nobody does.
AppStep ==
  /\ AppInv'
  /\ \A i \in Ids : Reached(i)' => Reached(i) \/ HoldFor = i
  /\ \A i \in Ids : HeldFast(i) /\ Answers(i) => HeldFast(i)'
  /\ \A i \in Ids : \A b \in Reports' : Grants(b, i) => b \in Reports \/ HeldFast(i)'

LEMMA OutcomeRight ==
  ASSUME AppInv, NEW a \in App, a.up, a.seen \in View \ {NoView}, NEW U \in SUBSET Ids, a.seen.hold \notin U,
         runtime' \in Ids \cup {None, Dead}, receipts' \in [Ids -> Lease!Receipt], late' = late,
         PendingIds' \subseteq PendingIds, PendingIds' \subseteq U \cup {a.seen.hold},
         runtime' \in Ids => runtime' \in PendingIds', Outcome(a, U), beat' = beat, selected' = selected
  PROVE  AppInv'
<1> USE DEF AppInv
<1>1. /\ app' \in App /\ app'.up /\ None \notin Ids /\ PendingIds' \subseteq Ids
      /\ a.seen \in View /\ a.seen # NoView
      /\ NoCall.beat = NoBeat /\ NoCall.view = NoView
  BY PendingIs DEF Outcome, NoCall, Unresolved
<1>2. BridgeTypeOK'
  <2>1. call'.beat \in Beat \cup {NoBeat} /\ call'.view \in View \cup {NoView}
    BY <1>1 DEF Outcome, Tells
  <2> QED
    BY <1>1, <2>1 DEF BridgeTypeOK
<1>3. AppRight'
  <2>1. /\ app'.at \in Amidst =>
             /\ app'.held /\ app'.verified = None /\ call' = NoCall
             /\ app'.seen = a.seen /\ app'.for \in Ids
        /\ app'.at = "release" => app'.for # app'.seen.hold
        /\ app'.at = "giveback" => app'.seen.waiting
    BY <1>1 DEF Outcome, Amidst
  <2>2. app'.at \in {"acquire", "giveback"} => app'.for = app'.seen.hold /\ PendingIds' \subseteq {app'.for}
    BY <1>1 DEF Outcome
  <2>3. ~app'.held => PendingIds' = {}
    BY <1>1 DEF Outcome
  <2>4. runtime' \in Ids => runtime' \in PendingIds' /\ app'.held
    BY <2>3
  <2> QED
    BY <1>1, <2>1, <2>2, <2>4 DEF AppRight, Amidst, PendingIds, Ids, Lease!Pending, Stopped, NoCall
<1>4. ReportRight'
  <2>1. /\ call'.beat # NoBeat => call'.beat.candidate = selected
        /\ call'.beat # NoBeat => (call'.beat.native => call'.beat.heldFor # None)
    BY <1>1 DEF Outcome, Tells
  <2> QED
    BY <2>1 DEF ReportRight, Reports
<1> QED
  BY <1>2, <1>3, <1>4

LEMMA OutcomeStep ==
  ASSUME AppInv, NEW a \in App, a.up, a.seen \in View \ {NoView}, NEW U \in SUBSET Ids, a.seen.hold \notin U,
         runtime' \in Ids \cup {None, Dead}, receipts' \in [Ids -> Lease!Receipt], late' = late,
         PendingIds' \subseteq PendingIds, PendingIds' \subseteq U \cup {a.seen.hold},
         runtime' \in Ids => runtime' \in PendingIds', Outcome(a, U), beat' = beat, selected' = selected,
         a.work = app.work, \A i \in U \cup ({a.seen.hold} \cap Ids) : Reached(i),
         \A i \in Ids : HeldFast(i) => a.seen.hold = i /\ ~a.seen.waiting
  PROVE  AppStep
<1>1. AppInv'
  BY OutcomeRight
<1>2. /\ app' \in App /\ app'.up /\ app'.work = app.work /\ None \notin Ids /\ PendingIds' \subseteq Ids
      /\ a.seen \in View /\ a.seen # NoView /\ a.seen.hold \in Ids \cup {None}
      /\ NoCall.beat = NoBeat /\ NoCall.view = NoView
  BY PendingIs DEF Outcome, NoCall, Unresolved, View
<1>3. ASSUME NEW i \in Ids, Reached(i)' PROVE Reached(i)
  <2>1. /\ app'.hold \in U \cup {None, a.seen.hold} /\ app'.for \in U \cup {None, a.seen.hold}
        /\ app'.seen # NoView => app'.seen = a.seen
        /\ call'.view = NoView
        /\ call'.beat # NoBeat => call'.beat.heldFor = app'.hold
    BY <1>2 DEF Outcome, Tells
  <2>2. CASE i \in PendingIds'
    BY <2>2 DEF Reached
  <2>3. CASE i = app'.hold \/ i = app'.for \/ (app'.seen # NoView /\ i = app'.seen.hold)
    BY <1>2, <2>1, <2>3
  <2>4. CASE \E b \in Reports' : b.heldFor = i
    <3>1. PICK b \in Reports' : b.heldFor = i
      BY <2>4
    <3>2. b \in Reports \/ (b = call'.beat /\ call'.beat # NoBeat)
      BY <3>1 DEF Reports
    <3> QED
      BY <1>2, <2>1, <3>1, <3>2 DEF Reached
  <2> QED
    BY <1>3, <2>1, <2>2, <2>3, <2>4 DEF Reached, Reports, PendingIds, Ids, Lease!Pending
<1>4. ASSUME NEW i \in Ids, HeldFast(i) PROVE HeldFast(i)'
  <2>1. a.seen.hold = i /\ ~a.seen.waiting /\ ~app.work
    BY <1>4 DEF HeldFast
  <2>2. /\ app'.held /\ app'.at # "giveback" /\ call'.view = NoView
        /\ app'.at \in {"release", "acquire"} => app'.seen = a.seen
    BY <1>2, <2>1 DEF Outcome, Tells
  <2> QED
    BY <1>2, <2>1, <2>2 DEF HeldFast
<1>5. ASSUME NEW i \in Ids, NEW b \in Reports', Grants(b, i) PROVE b \in Reports
  <2>1. call'.beat # NoBeat => call'.beat.blockers # "none"
    BY <1>2 DEF Outcome
  <2> QED
    BY <1>5, <2>1 DEF Reports, Grants
<1> QED
  BY <1>1, <1>3, <1>4, <1>5 DEF AppStep

\* A step that ends a refresh, or sends a heartbeat.
LEMMA PlainStep ==
  ASSUME AppInv, app.up, app' \in App, app'.up, app'.work = app.work, app'.hold \in {None, app.hold},
         app'.seen \in {NoView, app.seen}, app'.at \in {"idle", "beat", "final"}, app'.for = None,
         call' = NoCall \/ Tells(call', app'), late' \in {late} \cup ({call.beat} \ {NoBeat}),
         runtime' \in Ids \cup {None, Dead}, receipts' \in [Ids -> Lease!Receipt],
         PendingIds' \subseteq PendingIds \cup {app.for},
         runtime' \in Ids => runtime' \in PendingIds' /\ app'.held, beat' = beat, selected' = selected,
         \A i \in Ids : HeldFast(i) => app'.held,
         call' # NoCall => \A i \in Ids : Grants(call'.beat, i) => app'.held
  PROVE  AppStep
<1>1. /\ None \notin Ids /\ NoCall.beat = NoBeat /\ NoCall.view = NoView /\ call'.view = NoView
      /\ app'.at \notin Amidst
  BY PendingIs DEF NoCall, Tells, Amidst
<1>2. AppInv'
  <2>1. call'.beat \in Beat \cup {NoBeat} /\ late' \in Beat \cup {NoBeat}
    BY <1>1 DEF Tells, AppInv, BridgeTypeOK
  <2>2. BridgeTypeOK'
    BY <1>1, <2>1 DEF BridgeTypeOK
  <2>3. AppRight'
    BY <1>1 DEF AppRight, Amidst, PendingIds, Ids, Lease!Pending, Stopped, NoCall
  <2>4. /\ call'.beat # NoBeat => call'.beat.candidate = selected
        /\ call'.beat # NoBeat => (call'.beat.native => call'.beat.heldFor # None)
    BY <1>1 DEF Tells
  <2>5. late' # NoBeat => late' \in Reports
    BY DEF Reports
  <2>6. ReportRight'
    BY <2>4, <2>5 DEF ReportRight, Reports, AppInv
  <2> QED
    BY <2>2, <2>3, <2>6 DEF AppInv
<1>3. Reports' \subseteq Reports \cup ({call'.beat} \ {NoBeat})
  BY DEF Reports
<1>4. call'.beat # NoBeat => call'.beat.heldFor = app'.hold /\ (call'.beat.blockers = "none" => ~app.work)
  BY <1>1 DEF Tells
<1>5. ASSUME NEW i \in Ids, Reached(i)' PROVE Reached(i)
  <2>1. ASSUME i \in PendingIds' PROVE Reached(i)
    BY <2>1 DEF Reached
  <2>2. ASSUME NEW b \in Reports', b.heldFor = i PROVE Reached(i)
    BY <1>1, <1>3, <1>4, <2>2 DEF Reached
  <2>3. ASSUME i = app'.hold \/ i = app'.for \/ (app'.seen # NoView /\ i = app'.seen.hold) PROVE Reached(i)
    BY <1>1, <2>3 DEF Reached
  <2> QED
    BY <1>1, <1>5, <2>1, <2>2, <2>3 DEF Reached, Reports, PendingIds, Ids, Lease!Pending
<1>6. ASSUME NEW i \in Ids, HeldFast(i) PROVE HeldFast(i)'
  BY <1>1, <1>6 DEF HeldFast
<1>7. ASSUME NEW i \in Ids, NEW b \in Reports', Grants(b, i) PROVE b \in Reports \/ HeldFast(i)'
  <2>1. CASE b = call'.beat /\ call'.beat # NoBeat
    <3>1. ~app.work /\ app'.held
      BY <1>1, <1>4, <1>7, <2>1 DEF Grants
    <3> QED
      BY <1>1, <3>1 DEF HeldFast
  <2> QED
    BY <1>3, <2>1
<1> QED
  BY <1>2, <1>5, <1>6, <1>7 DEF AppStep

LEMMA BeginRefreshRight ==
  ASSUME Inv, AppInv, BeginRefresh
  PROVE  AppStep
<1>1. PICK b \in Blockers : Beats(app, "beat", b)
  BY DEF BeginRefresh
<1>2. /\ app \in App /\ selected \in Nat /\ runtime \in Ids \cup {None, Dead}
      /\ receipts \in [Ids -> Lease!Receipt] /\ app.up
  BY DEF AppInv, BridgeTypeOK, Inv, TypeOK, BeginRefresh
<1>3. /\ app' \in App /\ app'.at = "beat" /\ app'.for = None
      /\ app'.up = app.up /\ app'.work = app.work /\ app'.hold = app.hold /\ app'.held = app.held
      /\ app'.seen = app.seen /\ Tells(call', app')
  BY <1>1, <1>2, BeatsWhat
<1>4. call'.beat.native => app.held
  BY <1>1 DEF Beats, Says, Suspended
<1>5. PendingIds' = PendingIds /\ UNCHANGED <<late, runtime, receipts, beat, selected>>
  BY DEF BeginRefresh, vars, PendingIds, Ids, Lease!Pending
<1>6. runtime' \in Ids => runtime' \in PendingIds' /\ app'.held
  BY <1>3, <1>5 DEF AppInv, AppRight
<1>7. \A i \in Ids : HeldFast(i) => app'.held
  BY <1>2, <1>3 DEF HeldFast
<1>8. \A i \in Ids : Grants(call'.beat, i) => app'.held
  BY <1>3, <1>4 DEF Grants
<1> QED
  BY <1>2, <1>3, <1>5, <1>6, <1>7, <1>8, PlainStep

LEMMA RestingRight ==
  ASSUME Inv, AppInv, CallFails \/ FinalAnswered
  PROVE  AppStep
<1>1. Rests(app) /\ app.at \in {"beat", "final"}
  BY DEF CallFails, FinalAnswered
<1>2. /\ app \in App /\ runtime \in Ids \cup {None, Dead}
      /\ receipts \in [Ids -> Lease!Receipt] /\ app.up
  BY <1>1 DEF AppInv, BridgeTypeOK, AppRight, Stopped
<1>3. /\ app' \in App /\ app'.at = "idle" /\ app'.for = None
      /\ app'.up = app.up /\ app'.work = app.work /\ app'.hold = app.hold /\ app'.held = app.held
      /\ app'.seen = NoView /\ call' = NoCall
  BY <1>1, <1>2, RestsWhat
<1>4. /\ PendingIds' = PendingIds /\ UNCHANGED <<runtime, receipts, beat, selected>>
      /\ late' \in {late} \cup ({call.beat} \ {NoBeat})
  BY DEF CallFails, FinalAnswered, vars, PendingIds, Ids, Lease!Pending
<1>5. runtime' \in Ids => runtime' \in PendingIds' /\ app'.held
  BY <1>3, <1>4 DEF AppInv, AppRight
<1>6. \A i \in Ids : HeldFast(i) => app'.held
  BY <1>2, <1>3 DEF HeldFast
<1> QED
  BY <1>2, <1>3, <1>4, <1>5, <1>6, PlainStep

LEMMA BeatAnsweredRight ==
  ASSUME Inv, AppInv, BeatAnswered
  PROVE  AppStep
<1> DEFINE a == [app EXCEPT !.seen = call.view]
           U == (PendingIds \cup {app.hold}) \ {None, call.view.hold}
<1>1. /\ app \in App /\ runtime \in Ids \cup {None, Dead} /\ receipts \in [Ids -> Lease!Receipt]
      /\ app.up /\ call.view \in View \ {NoView} /\ selected \in Nat
  BY DEF BeatAnswered, AppInv, BridgeTypeOK, AppRight, Stopped, Inv, TypeOK
<1>2. a \in App /\ a.up /\ a.seen = call.view /\ a.work = app.work
  BY <1>1 DEF App
<1>3. U \in SUBSET Ids /\ call.view.hold \notin U
  BY <1>1, AppFields DEF PendingIds
<1>4. PendingIds \subseteq U \cup {call.view.hold}
  BY PendingIs DEF PendingIds
<1>5. /\ PendingIds' = PendingIds /\ UNCHANGED <<late, runtime, receipts, beat, selected>>
      /\ Reconciles(a, U)
  BY DEF BeatAnswered, vars, PendingIds, Ids, Lease!Pending
<1>6. runtime' \in Ids => runtime' \in PendingIds'
  BY <1>5 DEF AppInv, AppRight
<1>7. \A i \in U \cup ({call.view.hold} \cap Ids) : Reached(i)
  BY <1>1 DEF Reached
<1>8. \A i \in Ids : HeldFast(i) => call.view.hold = i /\ ~call.view.waiting
  BY <1>1 DEF HeldFast
<1> HIDE DEF a, U
<1>9. Outcome(a, U)
  BY <1>1, <1>2, <1>3, <1>5, ReconcilesWhat
<1> QED
  BY <1>1, <1>2, <1>3, <1>4, <1>5, <1>6, <1>7, <1>8, <1>9, OutcomeStep

-----------------------------------------------------------------------------
(* Its calls of the runtime.                                               *)

LEMMA CallsLease ==
  ASSUME AppInv, app.at \in Amidst, NEW x, Leaving(x, runtime, app.for), Leaves(x)
  PROVE  /\ runtime' \in Ids \cup {None, Dead} /\ receipts' \in [Ids -> Lease!Receipt]
         /\ PendingIds' \subseteq PendingIds \cup {app.for}
         /\ ~Lease!Pending(x.receipt) => PendingIds' = PendingIds \ {app.for}
         /\ runtime' \in Ids => runtime' \in PendingIds'
<1>1. /\ app.for \in Ids /\ runtime \in Ids \cup {None, Dead} /\ receipts \in [Ids -> Lease!Receipt]
      /\ x.receipt \in Lease!Receipt /\ x.runtime \in {runtime, app.for, None} /\ None \notin Ids
      /\ runtime \in Ids => runtime \in PendingIds
      /\ x.runtime = app.for => Lease!Pending(x.receipt)
  BY PendingIs DEF AppInv, AppRight, BridgeTypeOK, Leaving
<1>2. receipts' = [receipts EXCEPT ![app.for] = x.receipt] /\ runtime' = x.runtime
  BY DEF Leaves
<1>3. /\ runtime' \in Ids \cup {None, Dead} /\ receipts' \in [Ids -> Lease!Receipt]
      /\ \A i \in Ids : receipts'[i] = IF i = app.for THEN x.receipt ELSE receipts[i]
  BY <1>1, <1>2
<1>4. \A i \in Ids : i \in PendingIds' <=> IF i = app.for THEN Lease!Pending(x.receipt) ELSE i \in PendingIds
  BY <1>3, PendingIs DEF Unresolved, Lease!Pending
<1>5. PendingIds \subseteq Ids /\ PendingIds' \subseteq Ids
  BY PendingIs DEF Unresolved
<1> QED
  BY <1>1, <1>2, <1>3, <1>4, <1>5

LEMMA AfterWhat ==
  ASSUME AppInv, app.at \in Amidst, NEW x
  PROVE  /\ After(x) \in App /\ After(x).up /\ After(x).held /\ After(x).work = app.work
         /\ After(x).hold = app.hold /\ After(x).seen = app.seen
BY DEF After, AppInv, BridgeTypeOK, AppRight, App

LEMMA ResolvedRight ==
  ASSUME Inv, AppInv, Resolved
  PROVE  AppStep
<1>0. /\ app.at = "release" /\ app.at \in Amidst /\ app.up /\ app.for \in Ids /\ app \in App
      /\ app.seen \in View \ {NoView} /\ runtime \in Ids \cup {None, Dead}
      /\ receipts \in [Ids -> Lease!Receipt] /\ selected \in Nat
      /\ runtime \in Ids => runtime \in PendingIds
  BY DEF Resolved, AppInv, AppRight, Amidst, BridgeTypeOK, Inv, TypeOK
<1>1. PICK x \in Lease!Released(receipts[app.for], runtime, app.for) :
        /\ Leaves(x)
        /\ IF x.ok THEN Reconciles(After(x), PendingIds \ {app.for, app.seen.hold})
           ELSE Rests(After(x))
  BY DEF Resolved
<1>2. Leaving(x, runtime, app.for) /\ (x.ok => ~Lease!Pending(x.receipt))
  <2>1. receipts[app.for] \in Lease!Receipt /\ (runtime = app.for => Lease!Pending(receipts[app.for]))
    BY <1>0 DEF PendingIds
  <2> QED
    BY <1>0, <2>1, ReleasedLeaves
<1>3. /\ runtime' \in Ids \cup {None, Dead} /\ receipts' \in [Ids -> Lease!Receipt]
      /\ PendingIds' \subseteq PendingIds \cup {app.for}
      /\ ~Lease!Pending(x.receipt) => PendingIds' = PendingIds \ {app.for}
      /\ runtime' \in Ids => runtime' \in PendingIds'
  BY <1>0, <1>1, <1>2, CallsLease
<1>4. /\ After(x) \in App /\ After(x).up /\ After(x).held /\ After(x).work = app.work
      /\ After(x).hold = app.hold /\ After(x).seen = app.seen
  BY <1>0, AfterWhat
<1>5. UNCHANGED <<late, beat, selected>>
  BY DEF Resolved, vars
<1>6. CASE x.ok
  <2> DEFINE U == PendingIds \ {app.for, app.seen.hold}
  <2>1. U \in SUBSET Ids /\ app.seen.hold \notin U
    BY PendingIs DEF Unresolved
  <2>2. PendingIds' \subseteq PendingIds /\ PendingIds' \subseteq U \cup {app.seen.hold}
    BY <1>2, <1>3, <1>6
  <2>3. Reconciles(After(x), U)
    BY <1>1, <1>6
  <2>4. \A i \in U \cup ({app.seen.hold} \cap Ids) : Reached(i)
    BY <1>0 DEF Reached
  <2>5. \A i \in Ids : HeldFast(i) => app.seen.hold = i /\ ~app.seen.waiting
    BY <1>0 DEF HeldFast
  <2> HIDE DEF U
  <2>6. Outcome(After(x), U)
    BY <1>0, <1>4, <2>1, <2>3, ReconcilesWhat
  <2> QED
    BY <1>0, <1>3, <1>4, <1>5, <2>1, <2>2, <2>4, <2>5, <2>6, OutcomeStep
<1>7. CASE ~x.ok
  <2>1. /\ app' \in App /\ app'.at = "idle" /\ app'.for = None
        /\ app'.up = app.up /\ app'.work = app.work /\ app'.hold = app.hold /\ app'.held
        /\ app'.seen = NoView /\ call' = NoCall
    BY <1>0, <1>1, <1>4, <1>7, RestsWhat
  <2> QED
    BY <1>0, <1>3, <1>5, <2>1, PlainStep
<1> QED
  BY <1>6, <1>7

LEMMA AcquiredRight ==
  ASSUME Inv, AppInv, Acquired
  PROVE  AppStep
<1>0. /\ app.at = "acquire" /\ app.at \in Amidst /\ app.up /\ app.held /\ app.for \in Ids /\ app \in App
      /\ app.seen \in View \ {NoView} /\ runtime \in Ids \cup {None, Dead}
      /\ receipts \in [Ids -> Lease!Receipt] /\ selected \in Nat
      /\ runtime \in Ids => runtime \in PendingIds
      /\ app.for = app.seen.hold /\ PendingIds \subseteq {app.for}
  BY DEF Acquired, AppInv, AppRight, Amidst, BridgeTypeOK, Inv, TypeOK
<1>1. PICK x \in Lease!Prepared(receipts[app.for], runtime, app.for), b \in Blockers :
        /\ Leaves(x)
        /\ IF x.ok /\ b = "none" THEN Beats(After(x), "final", "none")
           ELSE IF app.seen.waiting THEN Asks(After(x), "giveback", app.for)
           ELSE Beats(After(x), "final", "work")
  BY DEF Acquired
<1>2. Leaving(x, runtime, app.for)
  <2>1. receipts[app.for] \in Lease!Receipt /\ (runtime = app.for => Lease!Pending(receipts[app.for]))
    BY <1>0 DEF PendingIds
  <2> QED
    BY <1>0, <2>1, PreparedLeaves
<1>3. /\ runtime' \in Ids \cup {None, Dead} /\ receipts' \in [Ids -> Lease!Receipt]
      /\ PendingIds' \subseteq PendingIds \cup {app.for}
      /\ runtime' \in Ids => runtime' \in PendingIds'
  BY <1>0, <1>1, <1>2, CallsLease
<1>4. /\ After(x) \in App /\ After(x).up /\ After(x).held /\ After(x).work = app.work
      /\ After(x).hold = app.hold /\ After(x).seen = app.seen
  BY <1>0, AfterWhat
<1>5. UNCHANGED <<late, beat, selected>>
  BY DEF Acquired, vars
<1>6. ASSUME NEW c \in Blockers, Beats(After(x), "final", c) PROVE AppStep
  <2>1. /\ app' \in App /\ app'.at = "final" /\ app'.for = None
        /\ app'.up = app.up /\ app'.work = app.work /\ app'.hold = app.hold /\ app'.held
        /\ app'.seen = app.seen /\ Tells(call', app')
    BY <1>0, <1>4, <1>6, BeatsWhat
  <2> QED
    BY <1>0, <1>3, <1>5, <2>1, PlainStep
<1>7. CASE app.seen.waiting /\ Asks(After(x), "giveback", app.for)
  <2>1. /\ app' \in App /\ app'.at = "giveback" /\ app'.for = app.for
        /\ app'.up = app.up /\ app'.work = app.work /\ app'.hold = app.hold /\ app'.held
        /\ app'.seen = app.seen /\ app'.verified = None /\ call' = NoCall
    BY <1>0, <1>4, <1>7, AsksWhat DEF Amidst
  <2>2. Reports' \subseteq Reports /\ NoCall.beat = NoBeat /\ NoCall.view = NoView
    BY <1>5, <2>1 DEF Reports, NoCall
  <2>3. PendingIds' \subseteq {app.for}
    BY <1>0, <1>3
  <2>4. AppInv'
    <3>1. BridgeTypeOK'
      BY <1>3, <1>5, <2>1, <2>2 DEF AppInv, BridgeTypeOK
    <3>2. AppRight'
      BY <1>0, <1>3, <1>7, <2>1, <2>3 DEF AppRight, Amidst, PendingIds, Ids, Lease!Pending, Stopped, NoCall
    <3>3. ReportRight'
      BY <1>5, <2>1, <2>2 DEF AppInv, ReportRight
    <3> QED
      BY <3>1, <3>2, <3>3 DEF AppInv
  <2>5. ASSUME NEW i \in Ids, Reached(i)' PROVE Reached(i)
    <3>1. ASSUME i \in PendingIds' PROVE Reached(i)
      BY <2>3, <3>1 DEF Reached
    <3> QED
      BY <1>0, <2>1, <2>2, <2>5, <3>1 DEF Reached, Reports, PendingIds, Ids, Lease!Pending
  <2>6. \A i \in Ids : ~HeldFast(i)
    BY <1>0, <1>7 DEF HeldFast
  <2> QED
    BY <2>2, <2>4, <2>5, <2>6 DEF AppStep
<1>8. ASSUME Beats(After(x), "final", "none"), b = "none" PROVE AppStep
  BY <1>6, <1>8
<1>9. ASSUME Beats(After(x), "final", "work") PROVE AppStep
  BY <1>6, <1>9 DEF Blockers
<1> QED
  BY <1>1, <1>7, <1>8, <1>9

LEMMA GivenBackRight ==
  ASSUME Inv, AppInv, GivenBack
  PROVE  AppStep
<1>0. /\ app.at = "giveback" /\ app.at \in Amidst /\ app.up /\ app.held /\ app.for \in Ids /\ app \in App
      /\ app.seen \in View \ {NoView} /\ runtime \in Ids \cup {None, Dead}
      /\ receipts \in [Ids -> Lease!Receipt] /\ selected \in Nat
      /\ runtime \in Ids => runtime \in PendingIds
      /\ PendingIds \subseteq {app.for}
  BY DEF GivenBack, AppInv, AppRight, Amidst, BridgeTypeOK, Inv, TypeOK
<1>1. PICK x \in Lease!Released(receipts[app.for], runtime, app.for) :
        /\ Leaves(x)
        /\ Beats(IF x.ok THEN [After(x) EXCEPT !.hold = None, !.held = FALSE] ELSE After(x),
                 "final", "work")
  BY DEF GivenBack
<1>2. Leaving(x, runtime, app.for) /\ (x.ok => ~Lease!Pending(x.receipt))
  <2>1. receipts[app.for] \in Lease!Receipt /\ (runtime = app.for => Lease!Pending(receipts[app.for]))
    BY <1>0 DEF PendingIds
  <2> QED
    BY <1>0, <2>1, ReleasedLeaves
<1>3. /\ runtime' \in Ids \cup {None, Dead} /\ receipts' \in [Ids -> Lease!Receipt]
      /\ PendingIds' \subseteq PendingIds \cup {app.for}
      /\ ~Lease!Pending(x.receipt) => PendingIds' = PendingIds \ {app.for}
      /\ runtime' \in Ids => runtime' \in PendingIds'
  BY <1>0, <1>1, <1>2, CallsLease
<1>4. /\ After(x) \in App /\ After(x).up /\ After(x).held /\ After(x).work = app.work
      /\ After(x).hold = app.hold /\ After(x).seen = app.seen
  BY <1>0, AfterWhat
<1> DEFINE a == IF x.ok THEN [After(x) EXCEPT !.hold = None, !.held = FALSE] ELSE After(x)
<1>5. /\ a \in App /\ a.up /\ a.work = app.work /\ a.hold \in {None, app.hold} /\ a.seen = app.seen
      /\ a.held = ~x.ok
  BY <1>2, <1>4 DEF App, Leaving
<1>6. Beats(a, "final", "work") /\ "work" \in Blockers
  BY <1>1 DEF Blockers
<1> HIDE DEF a
<1>7. /\ app' \in App /\ app'.at = "final" /\ app'.for = None
      /\ app'.up = a.up /\ app'.work = a.work /\ app'.hold = a.hold /\ app'.held = a.held
      /\ app'.seen = a.seen /\ Tells(call', app') /\ call'.beat.blockers = "work"
  BY <1>0, <1>5, <1>6, BeatsWhat
<1>8. UNCHANGED <<late, beat, selected>>
  BY DEF GivenBack, vars
<1>9. \A i \in Ids : ~HeldFast(i) /\ ~Grants(call'.beat, i)
  BY <1>0, <1>7 DEF HeldFast, Grants
<1>10. runtime' \in Ids => runtime' \in PendingIds' /\ app'.held
  BY <1>0, <1>2, <1>3, <1>5, <1>7
<1> QED
  BY <1>0, <1>3, <1>5, <1>7, <1>8, <1>9, <1>10, PlainStep

-----------------------------------------------------------------------------
(* Its life, and its runtime's.                                            *)

\* The runtime ends: what was not resolved still is not.
LEMMA RuntimeEnded ==
  ASSUME BridgeTypeOK, RuntimeEnds
  PROVE  runtime' = Dead /\ receipts' \in [Ids -> Lease!Receipt] /\ PendingIds' = PendingIds
<1>1. receipts' = [i \in Ids |-> [receipts[i] EXCEPT !.mine = FALSE]] /\ runtime' = Dead
  BY DEF RuntimeEnds
<1>2. \A i \in Ids : /\ [receipts[i] EXCEPT !.mine = FALSE] \in Lease!Receipt
                     /\ [receipts[i] EXCEPT !.mine = FALSE].state = receipts[i].state
  BY DEF BridgeTypeOK, Lease!Receipt
<1>3. receipts' \in [Ids -> Lease!Receipt] /\ \A i \in Ids : receipts'[i].state = receipts[i].state
  BY <1>1, <1>2
<1> QED
  BY <1>1, <1>3, PendingIs DEF Unresolved

\* The application ends.
LEMMA EndsRight ==
  ASSUME AppInv, Ends, beat' = beat
  PROVE  /\ AppInv' /\ Reports' \subseteq Reports
         /\ \A i \in Ids : (Reached(i)' => Reached(i)) /\ HeldFast(i)'
<1>1. /\ app' = Stopped /\ call' = NoCall /\ RuntimeEnds
      /\ late' \in {late} \cup ({call.beat} \ {NoBeat})
  BY DEF Ends
<1>2. runtime' = Dead /\ receipts' \in [Ids -> Lease!Receipt] /\ PendingIds' = PendingIds
  BY <1>1, RuntimeEnded DEF AppInv
<1>3. /\ NoCall.beat = NoBeat /\ NoCall.view = NoView /\ Dead \notin Ids /\ None \notin Ids
      /\ Stopped \in App /\ Stopped.hold = None /\ Stopped.for = None /\ Stopped.seen = NoView
      /\ ~Stopped.up /\ ~Stopped.work /\ Stopped.at = "idle"
  BY ReceiptKinds DEF NoCall, Stopped, App
<1>4. Reports' \subseteq Reports
  BY <1>1, <1>3 DEF Reports
<1>5. BridgeTypeOK'
  BY <1>1, <1>2, <1>3 DEF BridgeTypeOK, AppInv
<1>6. AppRight'
  BY <1>1, <1>2, <1>3 DEF AppRight, Amidst, Stopped, NoCall, PendingIds, Ids, Lease!Pending
<1>7. ReportRight'
  BY <1>1, <1>3, <1>4 DEF ReportRight, AppInv
<1>8. ASSUME NEW i \in Ids, Reached(i)' PROVE Reached(i)
  BY <1>1, <1>2, <1>3, <1>4, <1>8 DEF Reached, Reports, PendingIds, Ids, Lease!Pending
<1>9. \A i \in Ids : HeldFast(i)'
  BY <1>1, <1>3 DEF HeldFast
<1> QED
  BY <1>4, <1>5, <1>6, <1>7, <1>8, <1>9 DEF AppInv

LEMMA AppCrashesRight ==
  ASSUME AppInv, AppCrashes
  PROVE  AppStep
<1>1. Ends /\ beat' = beat
  BY DEF AppCrashes, vars
<1> QED
  BY <1>1, EndsRight DEF AppStep

LEMMA AppStartsRight ==
  ASSUME Inv, MemFiled(operator), AppInv, AppStarts
  PROVE  AppStep
<1>1. PICK known \in {FALSE} \cup {host.up} :
        LET hold == IF known THEN HoldFor ELSE None IN
        app' = [Stopped EXCEPT !.up = TRUE, !.hold = hold,
                               !.held = ~known \/ hold # None \/ PendingIds # {}]
  BY DEF AppStarts
<1> DEFINE hold == IF known THEN HoldFor ELSE None
<1>2. /\ ~app.up /\ app = Stopped /\ call = NoCall /\ runtime = Dead
      /\ UNCHANGED <<call, late, runtime, receipts, beat, selected>>
      /\ PendingIds' = PendingIds
  BY DEF AppStarts, vars, AppInv, AppRight, PendingIds, Ids, Lease!Pending
<1>3. HoldFor \in Ids \cup {None} /\ None \notin Ids /\ Dead \notin Ids
  BY HoldForOf, ReceiptKinds DEF Filings, Ids
<1>4. known \in BOOLEAN /\ (known => host.up)
  BY DEF Inv, TypeOK, Supervisor
<1> HIDE DEF hold
<1>5. hold \in Ids \cup {None} /\ (known => hold = HoldFor) /\ (hold # None => hold = HoldFor)
  BY <1>3 DEF hold
<1>6. /\ app' = [Stopped EXCEPT !.up = TRUE, !.hold = hold,
                                !.held = ~known \/ hold # None \/ PendingIds # {}]
  BY <1>1 DEF hold
<1>7. /\ app' \in App /\ app'.up /\ ~app'.work /\ app'.at = "idle" /\ app'.for = None
      /\ app'.hold = hold /\ app'.seen = NoView /\ app'.held = (~known \/ hold # None \/ PendingIds # {})
  BY <1>4, <1>5, <1>6 DEF Stopped, App
<1>8. Reports' = Reports /\ call'.view = NoView /\ call'.beat = NoBeat
  BY <1>2 DEF Reports, NoCall
<1>9. AppInv'
  <2>1. BridgeTypeOK'
    BY <1>2, <1>7 DEF BridgeTypeOK, AppInv
  <2>2. AppRight'
    BY <1>2, <1>3, <1>7 DEF AppRight, Amidst
  <2>3. ReportRight'
    BY <1>2, <1>8 DEF ReportRight, AppInv
  <2> QED
    BY <2>1, <2>2, <2>3 DEF AppInv
<1>10. ASSUME NEW i \in Ids, Reached(i)' PROVE Reached(i) \/ HoldFor = i
  <2>1. CASE i = app'.hold
    BY <1>3, <1>5, <1>7, <2>1
  <2>2. CASE i # app'.hold
    BY <1>2, <1>3, <1>7, <1>8, <1>10, <2>2 DEF Reached, PendingIds, Ids, Lease!Pending, Reports
  <2> QED
    BY <2>1, <2>2
<1>11. ASSUME NEW i \in Ids, Answers(i) PROVE HeldFast(i)'
  <2>1. app'.held
    BY <1>3, <1>4, <1>5, <1>7, <1>11 DEF Answers
  <2> QED
    BY <1>7, <1>8, <2>1 DEF HeldFast
<1> QED
  BY <1>8, <1>9, <1>10, <1>11 DEF AppStep

\* The other steps leave what the application heard and claims.
LEMMA QuietRight ==
  ASSUME AppInv, app.up, app' \in App, app'.up, app'.hold = app.hold, app'.held = app.held,
         app'.at = app.at, app'.for = app.for, app'.seen = app.seen,
         app'.verified \in {None, app.verified}, app'.work => app.work \/ ~app.held,
         runtime' \in Ids \cup {None, Dead}, receipts' \in [Ids -> Lease!Receipt],
         PendingIds' = PendingIds, runtime' \in Ids => runtime' = runtime,
         UNCHANGED <<call, late, beat, selected>>
  PROVE  AppStep
<1>1. Reports' = Reports
  BY DEF Reports
<1>2. AppInv'
  <2>1. BridgeTypeOK'
    BY DEF BridgeTypeOK, AppInv
  <2>2. AppRight'
    BY DEF AppRight, AppInv, Amidst, PendingIds, Ids, Lease!Pending, Stopped, NoCall
  <2>3. ReportRight'
    BY <1>1 DEF ReportRight, AppInv
  <2> QED
    BY <2>1, <2>2, <2>3 DEF AppInv
<1>3. ASSUME NEW i \in Ids, Reached(i)' PROVE Reached(i)
  BY <1>1, <1>3 DEF Reached, Reports, PendingIds, Ids, Lease!Pending
<1>4. ASSUME NEW i \in Ids, HeldFast(i) PROVE HeldFast(i)'
  <2>1. app' \in App /\ app \in App
    BY DEF AppInv, BridgeTypeOK
  <2>2. ~app'.work
    BY <1>4 DEF HeldFast
  <2> QED
    BY <1>4, <2>2 DEF HeldFast
<1> QED
  BY <1>1, <1>2, <1>3, <1>4 DEF AppStep

LEMMA RuntimeRight ==
  ASSUME AppInv, RuntimeStarts \/ RuntimeDies \/ Doubts \/ Expires \/ Work
  PROVE  AppStep
<1>1. /\ app \in App /\ receipts \in [Ids -> Lease!Receipt] /\ runtime \in Ids \cup {None, Dead}
      /\ None \notin Ids /\ Dead \notin Ids
  BY ReceiptKinds DEF AppInv, BridgeTypeOK
<1>2. app.up
  BY <1>1, AppFields DEF RuntimeStarts, RuntimeDies, Doubts, Expires, Work, AppInv, AppRight, Stopped
<1>3. UNCHANGED <<call, late, beat, selected>>
  BY DEF RuntimeStarts, RuntimeDies, Doubts, Expires, Work, vars
<1>4. CASE RuntimeStarts \/ Expires
  <2>1. UNCHANGED <<app, receipts>> /\ runtime' = None
    BY <1>4 DEF RuntimeStarts, Expires
  <2>2. PendingIds' = PendingIds
    BY <2>1, PendingIs
  <2> QED
    BY <1>1, <1>2, <1>3, <2>1, <2>2, QuietRight
<1>5. CASE RuntimeDies
  <2>1. /\ app' = [app EXCEPT !.verified = None] /\ runtime' = Dead
        /\ receipts' \in [Ids -> Lease!Receipt] /\ PendingIds' = PendingIds
    BY <1>5, RuntimeEnded DEF RuntimeDies, AppInv
  <2>2. /\ app' \in App /\ app'.up = app.up /\ app'.hold = app.hold /\ app'.held = app.held
        /\ app'.at = app.at /\ app'.for = app.for /\ app'.seen = app.seen
        /\ app'.verified = None /\ app'.work = app.work
    BY <1>1, <2>1 DEF App
  <2> QED
    BY <1>1, <1>2, <1>3, <2>1, <2>2, QuietRight
<1>6. CASE Doubts
  <2>1. app' = [app EXCEPT !.verified = None] /\ UNCHANGED <<runtime, receipts>>
    BY <1>6 DEF Doubts
  <2>2. /\ app' \in App /\ app'.up = app.up /\ app'.hold = app.hold /\ app'.held = app.held
        /\ app'.at = app.at /\ app'.for = app.for /\ app'.seen = app.seen
        /\ app'.verified = None /\ app'.work = app.work
    BY <1>1, <2>1 DEF App
  <2>3. PendingIds' = PendingIds
    BY <2>1, PendingIs
  <2> QED
    BY <1>1, <1>2, <1>3, <2>1, <2>2, <2>3, QuietRight
<1>7. CASE Work
  <2>1. app' = [app EXCEPT !.work = ~app.work] /\ UNCHANGED <<runtime, receipts>>
        /\ (app.work \/ ~app.held)
    BY <1>7 DEF Work
  <2>2. /\ app' \in App /\ app'.up = app.up /\ app'.hold = app.hold /\ app'.held = app.held
        /\ app'.at = app.at /\ app'.for = app.for /\ app'.seen = app.seen
        /\ app'.verified = app.verified /\ app'.work = ~app.work
    BY <1>1, <2>1, AppFields DEF App
  <2>3. PendingIds' = PendingIds
    BY <2>1, PendingIs
  <2> QED
    BY <1>1, <1>2, <1>3, <2>1, <2>2, <2>3, QuietRight
<1> QED
  BY <1>4, <1>5, <1>6, <1>7

\* The steps of the application that the host knows nothing of.
Silent ==
  \/ BeginRefresh \/ CallFails \/ BeatAnswered \/ FinalAnswered \/ Resolved \/ Acquired \/ GivenBack
  \/ AppStarts \/ AppCrashes \/ RuntimeStarts \/ RuntimeDies \/ Doubts \/ Expires \/ Work

LEMMA SilentSteps ==
  ASSUME Inv, MemFiled(operator), AppInv, Silent
  PROVE  AppStep /\ UNCHANGED vars
<1>1. UNCHANGED vars
  BY DEF Silent, BeginRefresh, CallFails, BeatAnswered, FinalAnswered, Resolved, Acquired, GivenBack,
     AppStarts, AppCrashes, RuntimeStarts, RuntimeDies, Doubts, Expires, Work
<1>2. AppStep
  BY BeginRefreshRight, RestingRight, BeatAnsweredRight, ResolvedRight, AcquiredRight, GivenBackRight,
     AppStartsRight, AppCrashesRight, RuntimeRight DEF Silent
<1> QED
  BY <1>1, <1>2

-----------------------------------------------------------------------------
(* The steps of the host.                                                  *)

LEMMA AnswersNext ==
  /\ (HostInv => \A k \in Jobs : Admitting(k) => Answers(k))'
  /\ (HostInv /\ ReachRight => \A i \in Maintenances : Stopping(i) => Answers(i))'
  /\ (Inv /\ MemFiled(operator) => HoldFor \in {None} \cup Filings)'
<1>1. HostInv => \A k \in Jobs : Admitting(k) => Answers(k)
  BY InstallerAnswers
<1>2. HostInv /\ ReachRight => \A i \in Maintenances : Stopping(i) => Answers(i)
  BY OperatorAnswers
<1>3. Inv /\ MemFiled(operator) => HoldFor \in {None} \cup Filings
  BY HoldForOf
<1> QED
  BY <1>1, <1>2, <1>3, PTL

LEMMA MemStays ==
  ASSUME Inv, Inv', LeaseInv, LeaseInv', MemFiled(operator), [Next]_vars
  PROVE  MemFiled(operator)'
<1>1. operator'.mem # NoLease => operator'.mem.id \in Maintenances
  BY DEF Inv, TypeOK, OperatorLeases, Maintenance
<1>2. MemFiled(operator')
  BY <1>1, OperatorStays DEF MemFiled
<1> QED
  BY <1>2 DEF MemFiled

\* A step of the host beside an application that hears of nothing but for whom it
\* holds: what the application may rely on stays.
LEMMA HostStep ==
  ASSUME HostInv, LeaseInv, ReachRight, [Next]_vars, Reports' \subseteq Reports,
         \A i \in Ids : Reached(i)' => Reached(i) \/ (host'.up /\ HoldFor' = i)
  PROVE  /\ HostInv' /\ LeaseInv' /\ ReachRight'
         /\ \A i \in Maintenances : Stopping(i)' => Stopping(i)
<1>1. HostInv' /\ LeaseInv' /\ Inv /\ Inv'
  BY NextHostInv, NextLeaseInv DEF HostInv
<1>3. MemFiled(operator)'
  BY <1>1, MemStays DEF ReachRight
<1>4. ASSUME NEW i \in Filings PROVE i \in Filings'
  BY <1>1, OperatorStays, FiledStays DEF Filings, ReachRight
<1>5. ASSUME NEW i \in Ids, Reached(i)' PROVE i \in Filings'
  <2>1. CASE Reached(i)
    BY <1>4, <2>1 DEF ReachRight
  <2>2. CASE HoldFor' = i
    <3>1. i # None
      BY ReceiptKinds
    <3> QED
      BY <1>1, <1>3, <2>2, <3>1, AnswersNext
  <2> QED
    BY <1>5, <2>1, <2>2
<1>6. ASSUME NEW i \in Maintenances, operator.disk[i] = NoLease PROVE ~Reached(i)
  <2>1. i \notin Filings /\ i \in Ids
    BY <1>6, LeaseAssumption DEF Filings, Ids
  <2> QED
    BY <2>1 DEF ReachRight
<1>7. ASSUME NEW i \in Maintenances, NEW b \in Reports, Grants(b, i) PROVE Reached(i)
  BY <1>7 DEF Grants, Reached
<1>8. ASSUME NEW i \in Maintenances, Undecided(operator', i), Reached(i)' \/ operator'.disk[i].stopMarked,
             host'.up
      PROVE  HoldFor' = i
  <2>1. CASE /\ Undecided(operator, i)
             /\ operator'.disk[i].stopMarked =>
                  operator.disk[i].stopMarked \/ (beat \in Reports /\ Grants(beat, i))
             /\ host'.up /\ (host.up => HoldFor = i) => HoldFor' = i
    <3>1. Reached(i) \/ operator.disk[i].stopMarked => (host.up => HoldFor = i)
      BY <2>1 DEF ReachRight
    <3>2. i \in Ids
      BY DEF Ids
    <3> QED
      BY <1>7, <1>8, <2>1, <3>1, <3>2
  <2>2. CASE operator.disk[i] = NoLease /\ ~operator'.disk[i].stopMarked
    BY <1>6, <1>8, <2>2 DEF Ids
  <2> QED
    BY <1>1, <1>8, <2>1, <2>2, OperatorStays DEF ReachRight
<1>9. ReachRight'
  BY <1>3, <1>5, <1>8 DEF ReachRight, Undecided
<1>10. ASSUME NEW i \in Maintenances, Stopping(i)' PROVE Stopping(i)
  <2>1. Undecided(operator', i) /\ (operator'.disk[i].stopMarked \/ \E b \in Reports : Grants(b, i))
    BY <1>10 DEF Stopping, Undecided, Grants
  <2>2. CASE /\ Undecided(operator, i)
             /\ operator'.disk[i].stopMarked =>
                  operator.disk[i].stopMarked \/ (beat \in Reports /\ Grants(beat, i))
    BY <2>1, <2>2 DEF Stopping
  <2>3. CASE operator.disk[i] = NoLease /\ ~operator'.disk[i].stopMarked
    BY <1>6, <1>7, <2>1, <2>3
  <2> QED
    BY <1>1, <2>1, <2>2, <2>3, OperatorStays DEF ReachRight
<1> QED
  BY <1>1, <1>9, <1>10

LEMMA SilentRight ==
  ASSUME BridgeInv, Silent
  PROVE  BridgeInv' /\ UNCHANGED vars
<1>1. AppStep /\ UNCHANGED vars
  BY SilentSteps DEF BridgeInv, HostInv, ReachRight
<1>2. UNCHANGED <<host, operator, frontend, beat, fresh, feed, selected, runner, verdict>>
  BY <1>1 DEF vars
<1>3. HostInv' /\ LeaseInv'
  BY <1>1, NextHostInv, NextLeaseInv DEF BridgeInv, HostInv
<1>4. HoldFor' = HoldFor /\ Filings' = Filings
  BY <1>2 DEF HoldFor, Filings, OperatorActive, OperatorHoldFor, Open
<1>5. ReachRight'
  <2>1. HoldFor \in {None} \cup Filings /\ None \notin Ids
    BY HoldForOf, ReceiptKinds DEF BridgeInv, HostInv, ReachRight
  <2>2. \A i \in Ids : Reached(i)' => i \in Filings'
    BY <1>1, <1>4, <2>1 DEF BridgeInv, ReachRight, AppStep
  <2>3. ASSUME NEW i \in Maintenances, Undecided(operator, i), Reached(i)' \/ operator.disk[i].stopMarked, host.up
        PROVE  HoldFor = i
    BY <1>1, <2>3 DEF BridgeInv, ReachRight, AppStep, Ids
  <2> QED
    BY <1>2, <1>4, <2>2, <2>3 DEF BridgeInv, ReachRight, Undecided, MemFiled
<1>6. FastRight'
  <2>1. ASSUME NEW k \in Jobs, Admitting(k)' PROVE HeldFast(k)'
    <3>1. Admitting(k)
      BY <1>2, <2>1 DEF Admitting
    <3>2. HeldFast(k) /\ Answers(k)
      BY <3>1, InstallerAnswers DEF BridgeInv, FastRight
    <3> QED
      BY <1>1, <3>2 DEF AppStep, Ids
  <2>2. ASSUME NEW i \in Maintenances, Stopping(i)' PROVE HeldFast(i)'
    <3>1. Undecided(operator, i) /\ (operator.disk[i].stopMarked \/ \E b \in Reports' : Grants(b, i))
      BY <1>2, <2>2 DEF Stopping, Undecided, Grants
    <3>2. Stopping(i) => HeldFast(i)'
      <4>1. Stopping(i) => HeldFast(i) /\ Answers(i)
        BY OperatorAnswers DEF BridgeInv, FastRight
      <4> QED
        BY <1>1, <4>1 DEF AppStep, Ids
    <3> QED
      BY <1>1, <3>1, <3>2 DEF AppStep, Ids, Stopping
  <2> QED
    BY <2>1, <2>2 DEF FastRight
<1> QED
  BY <1>1, <1>3, <1>5, <1>6 DEF BridgeInv, AppStep

\* The heartbeats the host hears here are heartbeats of UpdateHost.
LEMMA HearsIsHeartbeat ==
  ASSUME BridgeInv, NEW b \in Reports, b \in Beat, b.candidate = selected, Hears(b)
  PROVE  Heartbeat /\ beat' \in {b, NoBeat} /\ UNCHANGED <<selected, runner>>
<1>1. b.heldFor \in {None} \cup {k \in Jobs : host.journal[k] # NoJob}
                      \cup {i \in Maintenances : operator.disk[i] # NoLease}
  <2>1. b.heldFor \in Ids => b.heldFor \in Filings
    BY DEF BridgeInv, ReachRight, Reached
  <2>2. b.heldFor \in Ids \cup {None}
    BY DEF Beat, Ids
  <2> QED
    BY <2>1, <2>2 DEF Filings
<1>2. b \in [candidate : {selected}, epoch : Epochs, native : BOOLEAN,
            heldFor : {None} \cup {k \in Jobs : host.journal[k] # NoJob}
                             \cup {i \in Maintenances : operator.disk[i] # NoLease},
            blockers : {"none", "work", "switch"}]
  BY <1>1 DEF Beat
<1>3. beat # NoBeat /\ b.epoch # beat.epoch => "epoch" \in Disturbances
  BY BridgeAssumption DEF BridgeInv, HostInv, Inv, TypeOK, Beat
<1>4. b.native => b.heldFor # None
  BY DEF BridgeInv, AppInv, ReportRight
<1>5. Heartbeat
  BY <1>2, <1>3, <1>4 DEF Heartbeat
<1> QED
  BY <1>5 DEF Hears, Remembers, installer

LEMMA HearsRight ==
  ASSUME BridgeInv, HostHears \/ HostHearsLate
  PROVE  BridgeInv' /\ Heartbeat
<1> DEFINE b == IF HostHears THEN call.beat ELSE late
<1>1. /\ UNCHANGED <<app, runtime, receipts>>
      /\ \/ /\ HostHears /\ late' = late /\ call'.beat = NoBeat
            /\ call'.view = IF host'.up /\ ~operator'.uncertain
                           THEN [hold |-> HoldFor',
                                 waiting |-> host'.mem # NoJob /\ host'.mem.state = "waiting"]
                           ELSE NoView
         \/ ~HostHears /\ late' = NoBeat /\ call' = call
  BY DEF HostHears, HostHearsLate
<1>2. b \in Reports /\ b \in Beat /\ b.candidate = selected /\ Hears(b)
  BY DEF HostHears, HostHearsLate, BridgeInv, AppInv, ReportRight, BridgeTypeOK, Reports
<1> HIDE DEF b
<1>3. Heartbeat /\ beat' \in {b, NoBeat} /\ UNCHANGED <<selected, runner>>
  BY <1>2, HearsIsHeartbeat
<1>4. [Next]_vars
  BY <1>3 DEF Next
<1>5. Reports' \subseteq Reports
  BY <1>1, <1>2, <1>3 DEF Reports
<1>6. PendingIds' = PendingIds
  BY <1>1, PendingIs
<1>7. HostInv' /\ Inv' /\ LeaseInv'
  BY <1>4, NextHostInv, NextLeaseInv DEF BridgeInv, HostInv
<1>8. MemFiled(operator)'
  BY <1>4, <1>7, MemStays DEF BridgeInv, HostInv, ReachRight
<1>9. HoldFor' \in Ids \cup {None}
  BY <1>7, <1>8, AnswersNext DEF Filings, Ids
<1> DEFINE h == HoldFor'
           w == host'.mem # NoJob /\ host'.mem.state = "waiting"
<1>15. /\ call'.view = NoView \/ call'.view = call.view \/ (host'.up /\ call'.view = [hold |-> h, waiting |-> w])
       /\ w \in BOOLEAN
  BY <1>1
<1>16. w <=> Waiting'
  BY DEF Waiting
<1>17. h = HoldFor'
  OBVIOUS
<1> HIDE DEF h, w
<1>18. \/ call'.view = NoView \/ call'.view = call.view
       \/ host'.up /\ Waiting' /\ call'.view = [hold |-> h, waiting |-> TRUE]
       \/ host'.up /\ ~Waiting' /\ call'.view = [hold |-> h, waiting |-> FALSE]
  <2>1. CASE w = TRUE
    BY <1>15, <1>16, <2>1
  <2>2. CASE w = FALSE
    BY <1>15, <1>16, <2>2
  <2> QED
    BY <1>15, <2>1, <2>2
<1>10. AppInv'
  <2>1. call'.view \in View \cup {NoView} /\ call'.beat \in Beat \cup {NoBeat} /\ late' \in Beat \cup {NoBeat}
    <3>1. call'.view \in View \cup {NoView}
      <4>1. \A v \in BOOLEAN : [hold |-> h, waiting |-> v] \in View
        BY <1>9, <1>17 DEF View
      <4>2. call.view \in View \cup {NoView}
        BY DEF BridgeInv, AppInv, BridgeTypeOK
      <4>3. [hold |-> h, waiting |-> TRUE] \in View /\ [hold |-> h, waiting |-> FALSE] \in View
        BY <4>1
      <4> QED
        BY <1>18, <4>2, <4>3
    <3>2. call'.beat \in Beat \cup {NoBeat} /\ late' \in Beat \cup {NoBeat}
      <4>1. call.beat \in Beat \cup {NoBeat} /\ late \in Beat \cup {NoBeat}
        BY DEF BridgeInv, AppInv, BridgeTypeOK
      <4>2. (call'.beat = NoBeat \/ call'.beat = call.beat) /\ (late' = NoBeat \/ late' = late)
        BY <1>1
      <4> QED
        BY <4>1, <4>2
    <3> QED
      BY <3>1, <3>2
  <2>2. BridgeTypeOK'
    BY <1>1, <2>1 DEF BridgeInv, AppInv, BridgeTypeOK
  <2>3. call = NoCall => call' = NoCall
    BY <1>1 DEF HostHears, NoCall
  <2>4. AppRight'
    BY <1>1, <1>6, <2>3 DEF BridgeInv, AppInv, AppRight, Amidst, PendingIds, Ids, Lease!Pending, Stopped
  <2>5. ReportRight'
    BY <1>1, <1>3, <1>5 DEF BridgeInv, AppInv, ReportRight
  <2> QED
    BY <2>2, <2>4, <2>5 DEF AppInv
<1>11. ASSUME NEW i \in Ids, Reached(i)' PROVE Reached(i) \/ (host'.up /\ HoldFor' = i)
  <2>1. CASE call'.view # NoView /\ call' # call
    BY <1>1, <1>5, <1>6, <1>11, <2>1 DEF Reached, PendingIds, Ids, Lease!Pending, Reports
  <2>2. CASE call'.view = NoView \/ call' = call
    BY <1>1, <1>5, <1>6, <1>11, <2>2 DEF Reached, PendingIds, Ids, Lease!Pending, Reports
  <2> QED
    BY <2>1, <2>2
<1>12. ReachRight' /\ \A i \in Maintenances : Stopping(i)' => Stopping(i)
  BY <1>4, <1>5, <1>11, HostStep DEF BridgeInv
<1>13. ASSUME NEW i \in Ids, HeldFast(i), Answers(i)' PROVE HeldFast(i)'
  <2>1. host'.up => h = i /\ ~Waiting'
    BY <1>13, <1>17 DEF Answers
  <2>2. call'.view # NoView => host'.up \/ call'.view = call.view
    BY <1>18
  <2>3. app'.up /\ call'.view # NoView => call'.view.hold = i /\ ~call'.view.waiting
    BY <1>1, <1>13, <1>18, <2>1 DEF HeldFast
  <2> QED
    BY <1>1, <1>13, <2>3 DEF HeldFast
<1>14. FastRight'
  <2>1. ASSUME NEW k \in Jobs, Admitting(k)' PROVE HeldFast(k)'
    <3>1. HeldFast(k) /\ Answers(k)'
      BY <1>3, <1>7, <2>1, AnswersNext DEF Admitting, BridgeInv, FastRight
    <3> QED
      BY <1>13, <3>1 DEF Ids
  <2>2. ASSUME NEW i \in Maintenances, Stopping(i)' PROVE HeldFast(i)'
    <3>1. HeldFast(i) /\ Answers(i)'
      BY <1>7, <1>12, <2>2, AnswersNext DEF BridgeInv, FastRight
    <3> QED
      BY <1>13, <3>1 DEF Ids
  <2> QED
    BY <2>1, <2>2 DEF FastRight
<1> QED
  BY <1>3, <1>7, <1>10, <1>12, <1>14 DEF BridgeInv

\* The application does nothing, and the host what is not about a heartbeat.
Unheard ==
  /\ UNCHANGED bridge /\ [Next]_vars /\ beat' \in {beat, NoBeat}
  /\ app.up => selected' = selected
  /\ \A k \in Jobs : Admitting(k)' => Admitting(k) \/ Accepts(k)

LEMMA ForgetsAtMost ==
  (\E o, f : Remembers(o, beat, f)) \/ UNCHANGED beat => beat' \in {beat, NoBeat}
BY DEF Remembers

LEMMA HostQuiet ==
  ASSUME Inv, Asked \/ Alone
  PROVE  Unheard
<1>1. CASE Launch
  <2>1. \A k \in Jobs : Admitting(k)' => Admitting(k)
    BY <1>1 DEF Launch, Inv, TypeOK, Admitting
  <2>2. beat' = beat /\ selected' = selected
    BY <1>1 DEF Launch
  <2> QED
    BY <1>1, <2>1, <2>2 DEF Unheard, Asked, Alone, Next
<1>2. CASE ~Launch
  <2>1. UNCHANGED installer
    BY <1>2 DEF Asked, Alone, Request, Cancel, Stale, Poll, PrepareReturns, Progress, PreflightReturns,
       ReconcileReturns, AwaitFails, RunReturns, Operate, SwitchFrontend, Stop, Crash, Restart, Refresh,
       Supervise
  <2>2. (\E o, f : Remembers(o, beat, f)) \/ UNCHANGED beat
    BY <1>2 DEF Asked, Alone, Request, Cancel, Stale, Poll, PrepareReturns, Progress, PreflightReturns,
       ReconcileReturns, AwaitFails, RunReturns, Operate, SwitchFrontend, Stop, Crash, Restart, Refresh,
       Supervise
  <2>3. selected' = selected /\ \A k \in Jobs : Admitting(k)' => Admitting(k)
    BY <2>1 DEF installer, Admitting
  <2> QED
    BY <2>2, <2>3, ForgetsAtMost DEF Unheard, Asked, Alone, Next
<1> QED
  BY <1>1, <1>2

\* An installer's step that leaves the application alone.
LEMMA InstallerQuiet ==
  ASSUME Inv, NEW k \in Jobs, Installs(k), ~((RunnerStops(k) \/ RunnerRestores(k)) /\ Ends)
  PROVE  Unheard
<1>0. UNCHANGED bridge
  BY DEF Installs
<1>1. runner \in [Jobs -> Stages]
  BY DEF Inv, TypeOK
<1>2. Next
  BY DEF Installs, Runner, Next
<1>3. beat' = beat /\ \A j \in Jobs : j # k => runner'[j] = runner[j]
  BY <1>1 DEF Installs, RunnerPrepares, RunnerAdmits, RunnerSwitches, RunnerChecks, RunnerReturns,
     RunnerAccepts, RunnerPublishes, RunnerDies, Moves
<1>4. app.up => selected' = selected
  BY DEF Installs, RunnerPrepares, RunnerAdmits, RunnerChecks, RunnerAccepts, RunnerPublishes, RunnerDies
<1>5. Admitting(k)' => Admitting(k) \/ Accepts(k)
  <2>1. CASE Accepts(k)
    BY <2>1
  <2>2. CASE ~Accepts(k)
    <3>1. \/ \E to : Moves(k, {"stopped", "restoring", "switched"} \cup (Verdicts \ {"none"}), to)
          \/ Moves(k, Stages \ {"none", "exited"}, "exited")
      BY <2>2 DEF Installs, RunnerSwitches, RunnerChecks, RunnerReturns, RunnerPublishes, RunnerDies, Moves
    <3>2. runner[k] \in {"stopped", "restoring", "switched"} \cup (Verdicts \ {"none"}) => Admitting(k)
      BY DEF Verdicts, Admitting
    <3>3. Moves(k, Stages \ {"none", "exited"}, "exited") => ~Admitting(k)'
      BY <1>1 DEF Moves, Admitting
    <3> QED
      BY <3>1, <3>2, <3>3 DEF Moves
  <2> QED
    BY <2>1, <2>2
<1>6. \A j \in Jobs : j # k /\ Admitting(j)' => Admitting(j)
  BY <1>3 DEF Admitting
<1>7. \A j \in Jobs : Admitting(j)' => Admitting(j) \/ Accepts(j)
  BY <1>5, <1>6
<1> QED
  BY <1>2, <1>3, <1>4, <1>0, <1>7 DEF Unheard

\* The application that an installer accepts works for nobody.
LEMMA AcceptedIsFast ==
  ASSUME AppInv, NEW k \in Jobs, Accepts(k)
  PROVE  HeldFast(k)
<1>1. k # None
  BY LeaseAssumption
<1>2. app.up /\ app.held /\ app.verified # None /\ call.view = NoView
  BY <1>1 DEF Accepts, Suspended
<1>3. ~app.work
  BY DEF Accepts, Blockers
<1> QED
  BY <1>2, <1>3 DEF HeldFast, AppInv, AppRight, Amidst

LEMMA UnheardRight ==
  ASSUME BridgeInv, Unheard
  PROVE  BridgeInv' /\ [Next]_vars
<1>0. [Next]_vars
  BY DEF Unheard
<1>1. /\ app' = app /\ call' = call /\ late' = late /\ runtime' = runtime /\ receipts' = receipts
      /\ PendingIds' = PendingIds /\ Reports' \subseteq Reports
  BY PendingIs DEF Unheard, bridge, Reports
<1>2. \A i \in Ids : (Reached(i)' => Reached(i)) /\ (HeldFast(i) => HeldFast(i)')
  BY <1>1 DEF Reached, HeldFast
<1>3. /\ HostInv' /\ LeaseInv' /\ ReachRight'
      /\ \A i \in Maintenances : Stopping(i)' => Stopping(i)
  BY <1>0, <1>1, <1>2, HostStep DEF BridgeInv
<1>4. AppInv'
  <2>1. BridgeTypeOK' /\ AppRight'
    BY <1>1 DEF BridgeInv, AppInv, BridgeTypeOK, AppRight
  <2>2. call.beat # NoBeat => app.up
    BY DEF BridgeInv, AppInv, AppRight, NoCall
  <2>3. ReportRight'
    BY <1>1, <2>2 DEF BridgeInv, AppInv, ReportRight, Unheard
  <2> QED
    BY <2>1, <2>3 DEF AppInv
<1>5. \A k \in Jobs : Admitting(k)' => HeldFast(k)'
  BY <1>2, AcceptedIsFast DEF Unheard, BridgeInv, FastRight, Ids
<1>6. \A i \in Maintenances : Stopping(i)' => HeldFast(i)'
  BY <1>2, <1>3 DEF BridgeInv, FastRight, Ids
<1> QED
  BY <1>0, <1>3, <1>4, <1>5, <1>6 DEF BridgeInv, FastRight

\* An installer that stops the application ends whatever it was about.
LEMMA StopsRight ==
  ASSUME BridgeInv, NEW k \in Jobs, RunnerStops(k) \/ RunnerRestores(k), Ends
  PROVE  BridgeInv' /\ Next
<1>1. Next /\ beat' = beat
  BY DEF RunnerStops, RunnerRestores, Moves, Next, Runner
<1>2. /\ AppInv' /\ Reports' \subseteq Reports
      /\ \A i \in Ids : (Reached(i)' => Reached(i)) /\ HeldFast(i)'
  BY <1>1, EndsRight DEF BridgeInv
<1>3. HostInv' /\ LeaseInv' /\ ReachRight'
  BY <1>1, <1>2, HostStep DEF BridgeInv
<1> QED
  BY <1>1, <1>2, <1>3 DEF BridgeInv, FastRight, Ids

-----------------------------------------------------------------------------
(* What the application and the host keep together.                        *)

LEMMA BridgeInitRight ==
  ASSUME BridgeInit
  PROVE  BridgeInv
<1>1. HostInv
  BY InitHostInv DEF BridgeInit
<1>2. LeaseInv /\ MemFiled(operator) /\ beat = NoBeat /\ runner = [k \in Jobs |-> "none"]
      /\ \A i \in Maintenances : operator.disk[i] = NoLease
  BY DEF BridgeInit, Init, LeaseInv, LeasesRight, Known, NoLeases, MemFiled
<1>3. /\ app \in App /\ ~app.up /\ ~app.work /\ app.hold = None /\ app.for = None /\ app.seen = NoView
      /\ app.at = "idle" /\ call.beat = NoBeat /\ call.view = NoView /\ late = NoBeat
      /\ app = Stopped /\ call = NoCall /\ runtime = Dead
  BY DEF BridgeInit, App, Stopped, NoCall
<1>4. /\ receipts \in [Ids -> Lease!Receipt] /\ PendingIds = {} /\ None \notin Ids /\ Dead \notin Ids
  <2>1. Lease!NoReceipt \in Lease!Receipt /\ Lease!NoReceipt.state = "none"
    BY DEF Lease!NoReceipt, Lease!Receipt, Lease!ReceiptStates
  <2> QED
    BY <2>1, PendingIs, ReceiptKinds DEF BridgeInit, Unresolved
<1>5. Reports = {}
  BY <1>2, <1>3 DEF Reports
<1>6. AppInv
  BY <1>3, <1>4, <1>5 DEF AppInv, BridgeTypeOK, AppRight, ReportRight, Amidst
<1>7. ReachRight
  BY <1>2, <1>3, <1>4, <1>5 DEF ReachRight, Reached, Undecided
<1>8. FastRight
  BY <1>2, <1>3 DEF FastRight, Admitting, Stopping, Undecided
<1> QED
  BY <1>1, <1>2, <1>6, <1>7, <1>8 DEF BridgeInv

LEMMA BridgeStep ==
  ASSUME BridgeInv, [BridgeNext]_allvars
  PROVE  BridgeInv' /\ [Next]_vars
<1>1. CASE Silent
  BY <1>1, SilentRight
<1>2. CASE HostHears \/ HostHearsLate
  BY <1>2, HearsRight DEF Next
<1>3. CASE Asked \/ Alone
  BY <1>3, HostQuiet, UnheardRight DEF BridgeInv, HostInv
<1>4. CASE \E k \in Jobs : Installs(k)
  <2>1. PICK k \in Jobs : Installs(k)
    BY <1>4
  <2>2. CASE (RunnerStops(k) \/ RunnerRestores(k)) /\ Ends
    BY <2>2, StopsRight
  <2>3. CASE ~((RunnerStops(k) \/ RunnerRestores(k)) /\ Ends)
    <3>1. Unheard
      BY <2>1, <2>3, InstallerQuiet DEF BridgeInv, HostInv
    <3> QED
      BY <3>1, UnheardRight
  <2> QED
    BY <2>2, <2>3
<1>5. CASE UNCHANGED allvars
  <2>1. UNCHANGED vars /\ UNCHANGED bridge
    BY <1>5 DEF allvars
  <2>2. beat' = beat /\ selected' = selected /\ runner' = runner
    BY <2>1 DEF vars
  <2>3. Unheard
    BY <2>1, <2>2 DEF Unheard, Admitting
  <2> QED
    BY <2>1, <2>3, UnheardRight
<1> QED
  BY <1>1, <1>2, <1>3, <1>4, <1>5 DEF BridgeNext, Silent

LEMMA BridgeInvHolds == BridgeSpec => []BridgeInv
BY BridgeInitRight, BridgeStep, PTL DEF BridgeSpec

\* Every heartbeat, answer, receipt and claim the application keeps is one the
\* code can write, for any requests and leases.
THEOREM BridgeTypes == BridgeSpec => []BridgeTypeOK
<1>1. BridgeInv => BridgeTypeOK
  BY DEF BridgeInv, AppInv
<1> QED
  BY <1>1, BridgeInvHolds, PTL

\* Once an installer was admitted, or an operator may have stopped the
\* application and has not proved its return, no work runs there or begins,
\* however late or lost its heartbeats and whatever its runtime answers.
THEOREM NobodyWorksHolds == BridgeSpec => []NobodyWorks
<1>1. BridgeInv => NobodyWorks
  <2> SUFFICES ASSUME BridgeInv, Beyond PROVE ~app.work /\ (app.up => app.held)
    BY DEF NobodyWorks
  <2>1. CASE \E k \in Jobs : Admitting(k)
    BY <2>1 DEF BridgeInv, FastRight, HeldFast
  <2>2. CASE \E i \in Maintenances : Stopping(i)
    BY <2>2 DEF BridgeInv, FastRight, HeldFast
  <2>3. (\E k \in Jobs : Admitting(k)) \/ \E i \in Maintenances : Stopping(i)
    BY DEF Beyond, Admitting, Stopping, Undecided
  <2> QED
    BY <2>1, <2>2, <2>3
<1> QED
  BY <1>1, BridgeInvHolds, PTL

\* The application never opens for work while its runtime is suspended for an
\* update, wherever it crashes, starts again or loses the runtime.
THEOREM SuspendedStaysHeld == BridgeSpec => []SuspendedIsHeld
<1>1. BridgeInv => SuspendedIsHeld
  BY DEF BridgeInv, AppInv, AppRight, SuspendedIsHeld
<1> QED
  BY <1>1, BridgeInvHolds, PTL

\* The host beside the application does only what UpdateHost lets it do, so that
\* every theorem of the host holds with this application in the place of the
\* free heartbeats it is stated for.
THEOREM BridgeRefinesHost == BridgeSpec => Spec
<1>1. BridgeInit => Init
  BY DEF BridgeInit
<1>2. BridgeInv /\ [BridgeNext]_allvars => [Next]_vars
  BY BridgeStep
<1> QED
  BY <1>1, <1>2, BridgeInvHolds, PTL DEF BridgeSpec, Spec
=============================================================================
