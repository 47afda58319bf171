------------------------------ MODULE NativeLease ------------------------------
(***************************************************************************)
(* The application's lease on its runtime: a suspension, asked for and     *)
(* given back in the name i of the host's job or operator lease, with a    *)
(* durable receipt of it. Each function gives what a call may become, from *)
(* the receipt r of i and the suspension of the runtime, n.                *)
(*                                                                         *)
(* n is Dead, None, or the id the runtime is suspended for. One request is *)
(* under way at a time, and the runtime serves requests in the order they  *)
(* are sent. A request or its answer may be lost with the connection: the  *)
(* caller then knows nothing. The suspension contract is the runtime's own *)
(* and is modelled as this code uses it.                                   *)
(***************************************************************************)
CONSTANTS None, Dead

ReceiptStates == {"none", "preparing", "held", "releasing", "released"}

\* mine: the receipt names the runtime process that runs now. A receipt that is
\* held or releasing has the runtime's suspension id.
Receipt == [state : ReceiptStates, mine : BOOLEAN]

NoReceipt == [state |-> "none", mine |-> FALSE]

\* A receipt that is not resolved: the application keeps itself held for it.
Pending(r) == r.state \notin {"none", "released"}

\* What a receipt becomes without a request.
Over(r) == [state |-> "released", mine |-> r.mine]

Named(r) == r.mine /\ r.state \in {"held", "releasing"}

\* What a call may leave: the receipt, the runtime, whether it returned without
\* a blocker, and whether the lease is verified as held.
Left(r, n, ok, verified) == [receipt |-> r, runtime |-> n, ok |-> ok, verified |-> verified]

Unknown(r, n) == Left(r, n, FALSE, FALSE)

\* The runtime's answers to a request for i: it is suspended for i already,
\* suspends now if it is idle, or refuses.
Suspends(n, i) ==
  IF n = i THEN {"ready"} ELSE IF n = None THEN {"ready", "busy"} ELSE {"refused"}

\* prepare: a receipt of another process, or a resolved one, is replaced by a
\* new request; system.info, which a suspended runtime refuses, comes first.
\* After a refusal as after a loss the caller knows nothing.
Prepared(r, n, i) ==
  LET again == Pending(r) /\ r.mine
      asked == IF again THEN r ELSE [state |-> "preparing", mine |-> TRUE]
      held  == [state |-> "held", mine |-> TRUE]
      over  == [state |-> "released", mine |-> TRUE]
  IN {Unknown(r, n)} \cup
     IF n = Dead \/ (~again /\ n # None) THEN {}
     ELSE {Unknown(asked, n)}
          \cup (IF "busy" \in Suspends(n, i) THEN {Left(over, n, FALSE, FALSE)} ELSE {})
          \cup (IF "ready" \in Suspends(n, i)
                THEN {Unknown(asked, i), Left(held, i, FALSE, FALSE), Left(held, i, TRUE, TRUE)}
                ELSE {})

\* After a resume the runtime's models must be read before the lease is over.
Ready(n) == IF n = None THEN {TRUE, FALSE} ELSE {FALSE}

\* The resume of a receipt that has a suspension id; verified is what the lease
\* was just before. The runtime tells of the resume before it answers, and that
\* ends the verification.
Resumed(n, i, verified) ==
  LET releasing == [state |-> "releasing", mine |-> TRUE] IN
  {Left(releasing, n, FALSE, verified)} \cup
  IF n \notin {i, None} THEN {}
  ELSE {Left(IF ready THEN [state |-> "released", mine |-> TRUE] ELSE releasing, None, ready, FALSE) :
          ready \in Ready(None)}

\* Fault: without a suspension id there is nothing to resume, and so nothing is.
ReleasedByIdOnly(r, n, i) ==
  CASE ~Pending(r) -> {Left(r, n, TRUE, FALSE)}
    [] Pending(r) /\ n # Dead /\ ~r.mine ->
         {Left(IF ready THEN Over(r) ELSE r, n, ready, FALSE) : ready \in Ready(n)}
    [] Pending(r) /\ n # Dead /\ Named(r) -> {Unknown(r, n)} \cup Resumed(n, i, FALSE)
    [] OTHER -> {Unknown(r, n)}

\* release: a receipt of another process ends without a resume, and one without
\* a suspension id is prepared again with its original request first.
Released(r, n, i) ==
  IF ~Pending(r) THEN {Left(r, n, TRUE, FALSE)}
  ELSE IF n = Dead THEN {Unknown(r, n)}
  ELSE IF ~r.mine THEN {Left(IF ready THEN Over(r) ELSE r, n, ready, FALSE) : ready \in Ready(n)}
  ELSE {Unknown(r, n)} \cup
       IF Named(r) THEN Resumed(n, i, FALSE)
       ELSE UNION {IF Named(p.receipt) THEN Resumed(p.runtime, i, p.verified)
                   ELSE {Left(p.receipt, p.runtime, ~Pending(p.receipt), p.verified)} :
                     p \in Prepared(r, n, i)}
=============================================================================
