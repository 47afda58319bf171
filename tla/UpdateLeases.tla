----------------------------- MODULE UpdateLeases -----------------------------
(***************************************************************************)
(* The two leases that exclude a software update on the host: the one of   *)
(* operator maintenance, which pauses the workspace, and the one of a      *)
(* frontend switch, which does not. Each handler is a function from the    *)
(* lease's part of the controller to the set of what it may become; a      *)
(* refused request leaves it as it is.                                     *)
(*                                                                         *)
(* l.disk holds every lease ever saved, l.current names the one in         *)
(* current.json, l.mem is the controller's copy, and l.uncertain says that *)
(* a save threw, so that the copy may be behind the disk. e is what a      *)
(* handler reads of the controller: the last heartbeat, whether it is less *)
(* than ten seconds old, the release feed and the selected candidate.      *)
(*                                                                         *)
(* A definition whose comment begins with "Fault" is no part of the model: *)
(* it is the next definition with a plausible bug, put in its place to see *)
(* that the properties notice.                                             *)
(***************************************************************************)
EXTENDS Naturals

CONSTANTS
  Jobs,         \* installation requests, by idempotency key
  Maintenances, \* operator lease ids
  Switches,     \* frontend operation ids
  Epochs,       \* workspace epochs
  Faults,       \* bound: how a save may throw, "lost" before or "kept" after the rename
  None,         \* no lease, job or heartbeat is named
  NoLease, NoBeat

ASSUME LeaseAssumption ==
  /\ None \notin Jobs \cup Maintenances \cup Switches
  /\ Jobs \cap Maintenances = {}
  /\ Faults \subseteq {"kept", "lost"}

\* What the workspace reports: the last answer's hold, the native suspension,
\* and whether nothing, ordinary work or a workspace switch is in the way.
Beat == [candidate : Nat, epoch : Epochs, heldFor : Jobs \cup Maintenances \cup {None},
         native : BOOLEAN, blockers : {"none", "work", "switch"}]

\* A fresh heartbeat of this candidate and epoch.
Live(e, candidate, epoch) ==
  /\ e.beat # NoBeat /\ e.fresh
  /\ e.beat.candidate = candidate /\ e.beat.epoch = epoch

\* The results of a save: done, thrown after it persisted, thrown before.
Saves(l, r) ==
  LET onDisk == [l EXCEPT !.disk[r.id] = r, !.current = r.id] IN
  {[onDisk EXCEPT !.mem = r]}
    \cup {[onDisk EXCEPT !.uncertain = TRUE] : f \in Faults \cap {"kept"}}
    \cup {[l EXCEPT !.uncertain = TRUE] : f \in Faults \cap {"lost"}}

NoLeases(ids) ==
  [disk |-> [i \in ids |-> NoLease], current |-> None, mem |-> NoLease, uncertain |-> FALSE]

\* What a controller reads when it starts.
Loaded(l) ==
  [l EXCEPT !.mem = IF l.current = None THEN NoLease ELSE l.disk[l.current], !.uncertain = FALSE]

\* What is left when the controller's process exits.
Forgotten(l) == [l EXCEPT !.mem = NoLease, !.uncertain = FALSE]

-----------------------------------------------------------------------------
(* Operator maintenance.                                                   *)

Phases == {"entered", "held", "stopping", "stopped", "snapshot", "restore", "checking",
           "releasing", "released", "cancelled", "failed"}

Maintenance == [id : Maintenances, candidate : Nat, epoch : Epochs, phase : Phases,
                stopMarked : BOOLEAN, releaseKind : {"none", "cancelled", "proved"}]

ASSUME NoLeaseAssumption == NoLease \notin Maintenance

OperatorLeases == [disk : [Maintenances -> Maintenance \cup {NoLease}],
                   current : Maintenances \cup {None}, mem : Maintenance \cup {NoLease},
                   uncertain : BOOLEAN]

\* Fault: a failed lease is over.
OpenUnlessFailed(r) == r # NoLease /\ r.phase \notin {"released", "cancelled", "failed"}

\* A lease that keeps every other authority out.
Open(r) == r # NoLease /\ r.phase \notin {"released", "cancelled"}

OperatorActive(l) == l.uncertain \/ Open(l.mem)

OperatorHoldFor(l) == IF Open(l.mem) /\ l.mem.phase # "releasing" THEN l.mem.id ELSE None

OperatorMatching(l, e) == e.selected = l.mem.candidate /\ Live(e, l.mem.candidate, l.mem.epoch)

OperatorHeld(l, e) ==
  /\ OperatorMatching(l, e)
  /\ e.beat.heldFor = l.mem.id /\ e.beat.native /\ e.beat.blockers = "none"

\* An owned lease: this id, and no other candidate or workspace was seen.
Owned(l, e, id) ==
  /\ ~l.uncertain /\ l.mem # NoLease /\ l.mem.id = id
  /\ e.selected = l.mem.candidate
  /\ e.beat # NoBeat => e.beat.candidate = l.mem.candidate /\ e.beat.epoch = l.mem.epoch

\* How a lease under release ends. The acceptance proof is checked again, and
\* may have been changed.
Conclusions(r) == IF r.releaseKind = "cancelled" THEN {"cancelled"} ELSE {"released", "failed"}

\* A heartbeat establishes the hold, and ends a lease under release once the
\* workspace reports itself free. A heartbeat follows every release, so the
\* serial it is compared with is left out.
Observed(l, e) ==
  IF l.uncertain \/ ~Open(l.mem) THEN {l}
  ELSE IF \/ e.selected # l.mem.candidate \/ e.beat.candidate # l.mem.candidate
          \/ e.beat.epoch # l.mem.epoch
       THEN Saves(l, [l.mem EXCEPT !.phase = "failed"])
  ELSE IF l.mem.phase = "entered" /\ OperatorHeld(l, e)
       THEN Saves(l, [l.mem EXCEPT !.phase = "held"])
  ELSE IF /\ l.mem.phase = "releasing" /\ e.beat.heldFor = None
          /\ ~e.beat.native /\ e.beat.blockers = "none"
       THEN UNION {Saves(l, [l.mem EXCEPT !.phase = p]) : p \in Conclusions(l.mem)}
  ELSE {l}

\* Fault: an operator enters without asking the supervisor.
EnteredUnasked(l, e, id, epoch, idle) ==
  IF /\ ~OperatorActive(l) /\ l.disk[id] = NoLease
     /\ Live(e, e.selected, epoch)
     /\ e.beat.heldFor = None /\ ~e.beat.native /\ e.beat.blockers = "none"
  THEN Saves(l, [id |-> id, candidate |-> e.selected, epoch |-> epoch, phase |-> "entered",
                 stopMarked |-> FALSE, releaseKind |-> "none"])
  ELSE {l}

\* idle: no installation is unsettled and no frontend lease is active.
Entered(l, e, id, epoch, idle) ==
  IF /\ ~OperatorActive(l) /\ idle /\ l.disk[id] = NoLease
     /\ Live(e, e.selected, epoch)
     /\ e.beat.heldFor = None /\ ~e.beat.native /\ e.beat.blockers = "none"
  THEN Saves(l, [id |-> id, candidate |-> e.selected, epoch |-> epoch, phase |-> "entered",
                 stopMarked |-> FALSE, releaseKind |-> "none"])
  ELSE {l}

\* The phases a mark may set from each phase.
Allowed(r) ==
  CASE r.phase = "held"     -> {"stopping"}
    [] r.phase = "stopping" -> {"stopped", "checking"}
    [] r.phase = "stopped"  -> {"snapshot", "checking"}
    [] r.phase = "snapshot" -> {"restore", "checking"}
    [] r.phase = "restore"  -> {"checking"}
    [] r.phase = "failed" /\ r.stopMarked -> {"checking"}
    [] OTHER -> {}

Marked(l, e, id, idle) ==
  IF idle /\ Owned(l, e, id)
  THEN UNION {Saves(l, [l.mem EXCEPT !.phase = p, !.stopMarked = TRUE]) :
                p \in {q \in Allowed(l.mem) : q = "stopping" => OperatorHeld(l, e)}}
  ELSE {l}

OperatorCancelled(l, e, id, idle) ==
  IF /\ idle /\ Owned(l, e, id)
     /\ ~l.mem.stopMarked /\ l.mem.phase \in {"entered", "held"} /\ OperatorMatching(l, e)
  THEN Saves(l, [l.mem EXCEPT !.phase = "releasing", !.releaseKind = "cancelled"])
  ELSE {l}

\* A release needs a valid acceptance; one that is found changed while the
\* workspace is being released brings the hold back.
Released(l, e, id, idle) ==
  IF ~idle \/ ~Owned(l, e, id) THEN {l}
  ELSE IF l.mem.phase = "releasing" /\ l.mem.releaseKind = "proved"
       THEN {l} \cup Saves(l, [l.mem EXCEPT !.phase = "failed"])
  ELSE IF l.mem.phase = "checking" /\ l.mem.stopMarked /\ OperatorHeld(l, e)
       THEN {l} \cup Saves(l, [l.mem EXCEPT !.phase = "releasing", !.releaseKind = "proved"])
  ELSE {l}

-----------------------------------------------------------------------------
(* Frontend switches.                                                      *)

Switch == [id : Switches, candidate : Nat, epoch : Epochs, active : BOOLEAN]

FrontendLeases == [disk : [Switches -> Switch \cup {NoLease}],
                   current : Switches \cup {None}, mem : Switch \cup {NoLease},
                   uncertain : BOOLEAN]

FrontendActive(l) == l.uncertain \/ (l.mem # NoLease /\ l.mem.active)

FrontendMatching(e, candidate, epoch) ==
  /\ Live(e, candidate, epoch)
  /\ e.beat.heldFor = None /\ ~e.beat.native /\ e.beat.blockers # "switch"

\* idle: no installation is unsettled and no operator lease is active.
Begun(l, e, id, epoch, idle) ==
  IF /\ ~FrontendActive(l) /\ idle /\ l.disk[id] = NoLease
     /\ FrontendMatching(e, e.selected, epoch)
  THEN Saves(l, [id |-> id, candidate |-> e.selected, epoch |-> epoch, active |-> TRUE])
  ELSE {l}

Ended(l, e, id) ==
  IF /\ ~l.uncertain /\ l.mem # NoLease /\ l.mem.id = id /\ l.mem.active
     /\ e.selected = l.mem.candidate /\ FrontendMatching(e, l.mem.candidate, l.mem.epoch)
  THEN Saves(l, [l.mem EXCEPT !.active = FALSE])
  ELSE {l}

\* A switch cancelled before it began leaves an inactive lease, which a
\* delayed begin will find.
CancelledBeforeBegin(l, e, id, epoch, idle) ==
  IF ~FrontendActive(l) /\ idle /\ l.disk[id] = NoLease
  THEN Saves(l, [id |-> id, candidate |-> e.selected, epoch |-> epoch, active |-> FALSE])
  ELSE {l}
=============================================================================
