----------------------------- MODULE CalendarProofs -----------------------------
(***************************************************************************)
(* Of every instance of Accounts and CalendarWrites, whatever happens to   *)
(* an account and an event at each wait: types, the ownership of refreshes *)
(* and connections, one event per draft, one hand per event, consent at    *)
(* the request, and that each write implements DurableEffect.              *)
(***************************************************************************)
EXTENDS CalendarPromises, FiniteSetTheorems, TLAPS

-----------------------------------------------------------------------------
(* The invariant of one operation, and of two.                             *)

\* What the function of an operation does is what its record says, and what
\* the provider answered is what happened.
Function(w) ==
  /\ task[w].kind = "none" <=> task[w].at = "none"
  /\ task[w].kind = "prepare" <=> write[w].state = "preparing"
  /\ task[w].kind = "apply" <=> write[w].state = "applying"
  /\ task[w].kind = "check" => write[w].state = "unknown"
  /\ task[w].at = "answer" <=> write[w].state = "applying" /\ write[w].attempted
  /\ task[w].kind \in {"prepare", "apply"} => task[w].generation = write[w].generation
  /\ write[w].state \in {"none", "preparing", "review", "cancelled"} => ~write[w].attempted
  /\ reply[w] # "none" => w \notin wire /\ write[w].attempted
  /\ reply[w] = "done" => landed[w] = 1
  /\ reply[w] \in {"changed", "denied"} => landed[w] = 0

\* The record covers what may have happened.
Covered(w) ==
  /\ landed[w] \in {0, 1} /\ (w \in wire => landed[w] = 0)
  /\ Claim(w) \in {"unsent", "pending"} => w \notin wire /\ landed[w] = 0
  /\ Claim(w) = "known" => landed[w] = 1

\* A mark is left by the change it names, and the event of a draft by its making.
Marks ==
  /\ \A e \in Targets : event[e].marker # Nobody => landed[event[e].marker] = 1
  /\ \A w \in Writes : task[w].seen.marker # Nobody => landed[task[w].seen.marker] = 1
  /\ \A w \in Writes : event[w].present \/ event[w].version > 0 => landed[w] = 1

Deleted(w) == write[w].state = "observed" /\ write[w].action = "delete"

\* A draft makes an event of its own, and another change is of an event that was
\* there, so that an event observed to be gone never comes back.
Aim(w) ==
  /\ write[w].action = "create" => write[w].target = w
  /\ write[w].action # "create" =>
       /\ write[w].target # w
       /\ write[w].target \in Events \/ landed[write[w].target] = 1
  /\ Deleted(w) => ~event[write[w].target].present
  /\ write[w].action # "create" /\ task[w].at = "seen" /\ ~task[w].seen.present =>
       ~event[write[w].target].present

Alive(w) == Reserved(w) \/ write[w].state \in {"confirmed", "observed"}

\* Two operations exclude each other from a draft and from an event, and nothing
\* follows a deletion that was observed.
Apart(v, w) ==
  /\ write[v].draft = write[w].draft => ~(Reserved(v) /\ Reserved(w))
  /\ write[v].draft = write[w].draft /\ write[v].action = "create" /\ write[w].action = "create"
       => ~(Alive(v) /\ Alive(w))
  /\ write[v].target = write[w].target /\ write[v].action # "create" /\ write[w].action # "create"
       => ~(Reserved(v) /\ Reserved(w))
  /\ write[v].target = write[w].target /\ write[w].action # "create" /\ Deleted(v) =>
       /\ w \notin wire
       /\ Reserved(w) => /\ write[w].state = "preparing"
                         /\ task[w].at = "seen" => ~task[w].seen.present

WriteInv ==
  /\ \A w \in Writes : Function(w) /\ Covered(w) /\ Aim(w)
  /\ Marks
  /\ \A v, w \in Writes : v # w => Apart(v, w)

\* A refresh is known by its connection, and what it will save is its own.
RefreshInv ==
  \A i \in Identities :
    /\ account[i].state \in {"connected", "refreshing"} =>
         credential[i].generation = account[i].generation
    /\ account[i].state = "refreshing" /\ ~closed => \E r \in refreshing : r.who = i /\ Mine(r)
    /\ \A r, s \in refreshing : r.who = s.who /\ r.generation = s.generation => r = s

-----------------------------------------------------------------------------
(* Types.                                                                  *)

LEMMA AttemptTypes ==
  ASSUME AccountTypeOK, NEW a \in SignIns, NEW s \in AttemptStates
  PROVE  [attempt EXCEPT ![a].state = s] \in [SignIns -> Attempt]
<1>1. [attempt[a] EXCEPT !.state = s] \in Attempt
  BY DEF AccountTypeOK, Attempt
<1>2. QED
  BY <1>1 DEF AccountTypeOK

LEMMA SigningTypes ==
  ASSUME AccountTypeOK, NEW a \in SignIns
  PROVE  /\ \A p \in {"none", "exchange", "profile"} :
              [signing EXCEPT ![a].at = p] \in [SignIns -> Signing]
         /\ [signing EXCEPT ![a] = NotSigning] \in [SignIns -> Signing]
<1>1. \A p \in {"none", "exchange", "profile"} : [signing[a] EXCEPT !.at = p] \in Signing
  BY DEF AccountTypeOK, Signing
<1>2. NotSigning \in Signing
  BY DEF NotSigning, Signing
<1>3. QED
  BY <1>1, <1>2 DEF AccountTypeOK

LEMMA GivingUpTypes ==
  ASSUME AccountTypeOK, NEW A \in SUBSET SignIns
  PROVE  Ended(A) \in [SignIns -> Attempt] /\ Stopped(A) \in [SignIns -> Signing]
<1>1. \A a \in SignIns : [attempt[a] EXCEPT !.state = GivenUp(a)] \in Attempt
  BY DEF AccountTypeOK, Attempt, AttemptStates, GivenUp
<1>2. \A a \in SignIns : [signing[a] EXCEPT !.live = FALSE] \in Signing
  BY DEF AccountTypeOK, Signing
<1>3. QED
  BY <1>1, <1>2 DEF AccountTypeOK, Ended, Stopped

LEMMA SignInTypes == AccountTypeOK /\ SignInStep => AccountTypeOK'
<1> SUFFICES ASSUME AccountTypeOK, SignInStep PROVE AccountTypeOK'
  OBVIOUS
<1> USE DEF AccountTypeOK
<1>1. Swept \in SUBSET SignIns /\ \A a \in SignIns : {a} \in SUBSET SignIns
  BY DEF Swept
<1>2. ASSUME NEW a \in SignIns, NEW i \in Identities \cup {Anyone}, NEW upgrade \in BOOLEAN,
             Begin(a, i, upgrade)
      PROVE  AccountTypeOK'
  <2> DEFINE x == [state |-> "preparing", late |-> FALSE, expected |-> i,
                   base |-> [j \in Identities |-> account[j].revision],
                   keep |-> IF upgrade THEN account[i].generation ELSE 0]
  <2>1. upgrade => i \in Identities
    BY <1>2 DEF Begin
  <2>2. x \in Attempt
    BY <2>1 DEF Attempt, AttemptStates, Account
  <2>3. attempt' = [Ended(Swept) EXCEPT ![a] = x]
    BY <1>2 DEF Begin
  <2>4. signing' = [Stopped(Swept) EXCEPT ![a] = [at |-> "prepare", live |-> TRUE]]
    BY <1>2 DEF Begin
  <2>5. [at |-> "prepare", live |-> TRUE] \in Signing
    BY DEF Signing
  <2> HIDE DEF x
  <2>6. attempt' \in [SignIns -> Attempt] /\ signing' \in [SignIns -> Signing]
    BY <1>1, <2>2, <2>3, <2>4, <2>5, GivingUpTypes
  <2>7. QED
    BY <1>2, <2>6 DEF Begin
<1>3. ASSUME NEW a \in SignIns, NEW code \in BOOLEAN, Callback(a, code) PROVE AccountTypeOK'
  BY <1>3, AttemptTypes, SigningTypes DEF Callback, AttemptStates
<1>4. ASSUME NEW a \in SignIns, NEW i \in Identities, NEW writes \in BOOLEAN, SignedIn(a, i, writes)
      PROVE  AccountTypeOK'
  <2> DEFINE rev == account[i].revision + 1
             gen == IF attempt[a].keep # 0 THEN attempt[a].keep ELSE rev
             x == [state |-> "connected", generation |-> gen, revision |-> rev, write |-> writes]
             c == [generation |-> gen, version |-> rev, fresh |-> TRUE]
  <2>1. rev \in Nat /\ gen \in Nat
    BY DEF Account, Attempt
  <2> HIDE DEF rev, gen
  <2>2. x \in Account /\ c \in Credential
    BY <2>1 DEF Account, AccountStates, Credential
  <2>3. account' = [account EXCEPT ![i] = x] /\ credential' = [credential EXCEPT ![i] = c]
    BY <1>4 DEF SignedIn, rev, gen
  <2> HIDE DEF x, c
  <2>4. account' \in [Identities -> Account] /\ credential' \in [Identities -> Credential]
    BY <2>2, <2>3
  <2>5. attempt' \in [SignIns -> Attempt] /\ signing' \in [SignIns -> Signing]
    BY <1>4, AttemptTypes, SigningTypes DEF SignedIn, AttemptStates
  <2>6. QED
    BY <1>4, <2>4, <2>5 DEF SignedIn
<1>5. ASSUME NEW a \in SignIns, Listen(a) \/ ListenFails(a) \/ Exchanged(a) PROVE AccountTypeOK'
  <2>0. \A s \in {"waiting", "failed"} : [attempt EXCEPT ![a].state = s] \in [SignIns -> Attempt]
    BY AttemptTypes DEF AttemptStates
  <2>1. attempt' \in [SignIns -> Attempt]
    BY <1>5, <2>0 DEF Listen, ListenFails, Exchanged
  <2>2. signing' \in [SignIns -> Signing]
    BY <1>5, SigningTypes DEF Listen, ListenFails, Exchanged
  <2>3. QED
    BY <1>5, <2>1, <2>2 DEF Listen, ListenFails, Exchanged
<1>6. ASSUME NEW a \in SignIns, SignInFails(a) \/ SignInDropped(a) PROVE AccountTypeOK'
  <2>0. \A s \in {"failed", "unknown"} : [attempt EXCEPT ![a].state = s] \in [SignIns -> Attempt]
    BY AttemptTypes DEF AttemptStates
  <2>1. attempt' \in [SignIns -> Attempt]
    BY <1>6, <2>0 DEF SignInFails, SignInDropped
  <2>2. signing' \in [SignIns -> Signing]
    BY <1>6, SigningTypes DEF SignInFails, SignInDropped
  <2>3. QED
    BY <1>6, <2>1, <2>2 DEF SignInFails, SignInDropped
<1>7. ASSUME NEW a \in SignIns, Cancel(a) PROVE AccountTypeOK'
  BY <1>1, <1>7, GivingUpTypes DEF Cancel, Attempt, AttemptStates
<1>8. ASSUME NEW a \in SignIns, Lapse(a) PROVE AccountTypeOK'
  BY <1>8 DEF Lapse, Attempt
<1>9. CASE Sweep
  BY <1>1, <1>9, GivingUpTypes DEF Sweep
<1>10. QED
  BY <1>2, <1>3, <1>4, <1>5, <1>6, <1>7, <1>8, <1>9 DEF SignInStep

\* The record of an account that changes its state.
LEMMA BecomeTypes ==
  ASSUME AccountTypeOK, NEW i \in Identities, NEW s \in AccountStates
  PROVE  /\ Become(i, s) \in [Identities -> Account]
         /\ Become(i, s)[i].state = s
         /\ Become(i, s)[i].generation = account[i].generation
         /\ Become(i, s)[i].revision = account[i].revision + 1
         /\ \A j \in Identities \ {i} : Become(i, s)[j] = account[j]
<1>1. account[i] \in Account /\ account[i].revision + 1 \in Nat
  BY DEF AccountTypeOK, Account
<1>2. \A x \in Account, n \in Nat : [x EXCEPT !.state = s, !.revision = n] \in Account
  BY DEF Account
<1>3. [account[i] EXCEPT !.state = s, !.revision = account[i].revision + 1] \in Account
  BY <1>1, <1>2
<1>4. Become(i, s) = [account EXCEPT ![i] =
        [account[i] EXCEPT !.state = s, !.revision = account[i].revision + 1]]
  BY DEF Become
<1>5. /\ Become(i, s)[i] = [account[i] EXCEPT !.state = s, !.revision = account[i].revision + 1]
      /\ \A j \in Identities \ {i} : Become(i, s)[j] = account[j]
  BY <1>4 DEF AccountTypeOK
<1>6. QED
  BY <1>1, <1>3, <1>4, <1>5 DEF AccountTypeOK, Account

LEMMA RefreshStartTypes ==
  ASSUME AccountTypeOK, NEW i \in Identities, RefreshStarts(i)
  PROVE  account' \in [Identities -> Account] /\ refreshing' \subseteq Refresh
<1>1. account' = Become(i, "refreshing")
  BY DEF RefreshStarts
<1>2. [who |-> i, generation |-> account[i].generation, revision |-> account[i].revision + 1,
       at |-> "token"] \in Refresh
  BY DEF AccountTypeOK, Account, Refresh
<1>3. QED
  BY <1>1, <1>2, BecomeTypes DEF AccountTypeOK, RefreshStarts, AccountStates

LEMMA CredentialTypes == AccountTypeOK /\ CredentialStep => AccountTypeOK'
<1> SUFFICES ASSUME AccountTypeOK, CredentialStep PROVE AccountTypeOK'
  OBVIOUS
<1> USE DEF AccountTypeOK
<1>0. \A r \in refreshing : r \in Refresh /\ r.who \in Identities
  BY DEF Refresh
<1>1. ASSUME NEW r \in refreshing, TokenReply(r) PROVE AccountTypeOK'
  BY <1>0, <1>1 DEF TokenReply, Refresh
<1>2. ASSUME NEW r \in refreshing, RefreshFails(r) PROVE AccountTypeOK'
  BY <1>0, <1>2, BecomeTypes DEF RefreshFails, AccountStates
<1>3. ASSUME NEW r \in refreshing, NEW writes \in BOOLEAN, Refreshed(r, writes) PROVE AccountTypeOK'
  <2> DEFINE x == [account[r.who] EXCEPT !.state = "connected", !.revision = r.revision + 1, !.write = writes]
             c == [generation |-> r.generation, version |-> r.revision + 1, fresh |-> TRUE]
  <2>0. r.who \in Identities /\ r.generation \in Nat /\ r.revision + 1 \in Nat
    BY <1>0 DEF Refresh
  <2>1. c \in Credential
    BY <2>0 DEF Credential
  <2>5. \A y \in Account, n \in Nat :
          [y EXCEPT !.state = "connected", !.revision = n, !.write = writes] \in Account
    BY DEF Account, AccountStates
  <2>6. x \in Account
    BY <2>0, <2>5
  <2>2. account' = [account EXCEPT ![r.who] = x] /\ credential' = [credential EXCEPT ![r.who] = c]
    BY <1>3 DEF Refreshed
  <2> HIDE DEF x, c
  <2>3. account' \in [Identities -> Account] /\ credential' \in [Identities -> Credential]
    BY <2>0, <2>1, <2>2, <2>6
  <2>4. QED
    BY <1>3, <2>3 DEF Refreshed
<1>4. ASSUME NEW i \in Identities, Age(i) PROVE AccountTypeOK'
  BY <1>4 DEF Age, Credential
<1>5. ASSUME NEW i \in Identities, StartRefresh(i) PROVE AccountTypeOK'
  BY <1>5, RefreshStartTypes DEF StartRefresh
<1>6. ASSUME NEW i \in Identities, Denied(i) PROVE AccountTypeOK'
  BY <1>6, BecomeTypes DEF Denied, AccountStates
<1>7. QED
  BY <1>1, <1>2, <1>3, <1>4, <1>5, <1>6 DEF CredentialStep

LEMMA ConnectionTypes ==
  ASSUME AccountTypeOK,
         (\E i \in Identities : Disconnect(i)) \/ Hold \/ CloseAccounts \/ RestartAccounts
  PROVE  AccountTypeOK'
<1> USE DEF AccountTypeOK
<1>1. ASSUME NEW i \in Identities, Disconnect(i) PROVE AccountTypeOK'
  BY <1>1 DEF Disconnect, Account, AccountStates, Credential, NoCredential
<1>2. CASE Hold
  BY <1>2 DEF Hold
<1>3. CASE CloseAccounts
  BY <1>3, GivingUpTypes DEF CloseAccounts
<1>4. CASE RestartAccounts
  <2>1. \A i \in Identities : Become(i, "reconnect")[i] \in Account
    BY BecomeTypes DEF AccountStates
  <2>2. attempt' \in [SignIns -> Attempt]
    BY <1>4, GivingUpTypes DEF RestartAccounts
  <2>3. QED
    BY <1>4, <2>1, <2>2 DEF RestartAccounts, Signing, NotSigning
<1>5. QED
  BY <1>1, <1>2, <1>3, <1>4

\* What the beginning of a function leaves of it.
LEMMA BeginsTask ==
  ASSUME TypeOK, NEW w \in Writes, NEW x \in Write, NEW kind \in Kinds, NEW g \in Nat,
         Begins(w, x, kind, g)
  PROVE  \E t \in Task : /\ t.kind = kind /\ t.at \in {"refused", "token"} /\ t.generation = g
                         /\ t.seen = Absent /\ task' = [task EXCEPT ![w] = t]
<1> DEFINE f(p, v) == [Idle EXCEPT !.kind = kind, !.at = p, !.generation = g, !.version = v]
           at(p, v) == task' = [task EXCEPT ![w] = f(p, v)]
<1>1. x.who \in Identities
  BY DEF Write
<1>2. account[x.who].revision \in Nat /\ credential[x.who].version \in Nat
  BY <1>1 DEF TypeOK, AccountTypeOK, Account, Credential
<1>3. \A p \in {"refused", "token"}, v \in Nat :
        /\ f(p, v) \in Task /\ f(p, v).kind = kind /\ f(p, v).at = p
        /\ f(p, v).generation = g /\ f(p, v).seen = Absent
  BY DEF Idle, Task, Event, Absent
<1>4. \/ at("refused", 0)
      \/ at("token", credential[x.who].version)
      \/ at("token", account[x.who].revision + 1) \/ at("token", account[x.who].revision + 2)
  BY DEF Begins
<1> HIDE DEF f
<1>5. \E p \in {"refused", "token"}, v \in Nat : at(p, v)
  BY <1>2, <1>4
<1>6. QED
  BY <1>3, <1>5

LEMMA BeginsTypes ==
  ASSUME TypeOK, NEW w \in Writes, NEW x \in Write, NEW kind \in Kinds, NEW g \in Nat,
         Begins(w, x, kind, g)
  PROVE  TypeOK'
<1>1. x.who \in Identities
  BY DEF Write
<1>2. task' \in [Writes -> Task]
  BY BeginsTask DEF TypeOK
<1>3. account' \in [Identities -> Account] /\ refreshing' \subseteq Refresh
  BY <1>1, RefreshStartTypes DEF Begins, TypeOK, AccountTypeOK
<1>4. QED
  BY <1>2, <1>3 DEF Begins, TypeOK, AccountTypeOK

LEMMA TasksTypes ==
  ASSUME TypeOK, NEW w \in Writes, NEW t \in Task, Tasks(w, t)
  PROVE  TypeOK'
BY DEF Tasks, TypeOK, AccountTypeOK, accountVars

LEMMA StateTypes ==
  ASSUME TypeOK, NEW w \in Writes, NEW s \in WriteStates
  PROVE  [write EXCEPT ![w].state = s] \in [Writes -> Write]
<1>1. [write[w] EXCEPT !.state = s] \in Write
  BY DEF TypeOK, Write
<1>2. QED
  BY <1>1 DEF TypeOK

LEMMA EndsTypes ==
  ASSUME TypeOK, NEW w \in Writes, NEW s \in WriteStates, Ends(w, s)
  PROVE  TypeOK'
<1>1. Idle \in Task
  BY DEF Idle, Task, Kinds, Event, Absent
<1>2. write' \in [Writes -> Write] /\ task' \in [Writes -> Task]
  BY <1>1, StateTypes DEF Ends, TypeOK
<1>3. QED
  BY <1>2 DEF Ends, TypeOK, AccountTypeOK, accountVars

\* A record or a task that changes in one field.
LEMMA FieldTypes ==
  /\ \A x \in Write : /\ [x EXCEPT !.state = "applying"] \in Write
                      /\ [x EXCEPT !.late = TRUE] \in Write
                      /\ [x EXCEPT !.attempted = TRUE] \in Write
                      /\ Recovered(x) \in Write
  /\ \A t \in Task : /\ [t EXCEPT !.at = "read"] \in Task
                     /\ [t EXCEPT !.at = "answer"] \in Task
                     /\ \A e \in Event : [t EXCEPT !.at = "seen", !.seen = e] \in Task
<1>1. ASSUME NEW x \in Write
      PROVE  /\ \A s \in WriteStates : [x EXCEPT !.state = s] \in Write
             /\ [x EXCEPT !.late = TRUE] \in Write
             /\ [x EXCEPT !.attempted = TRUE] \in Write
  BY DEF Write
<1>2. \A x \in Write : Recovered(x) \in Write
  BY <1>1 DEF Recovered, WriteStates
<1>3. ASSUME NEW t \in Task
      PROVE  /\ \A p \in {"read", "answer"} : [t EXCEPT !.at = p] \in Task
             /\ \A e \in Event : [t EXCEPT !.at = "seen", !.seen = e] \in Task
  BY DEF Task
<1>4. QED
  BY <1>1, <1>2, <1>3 DEF WriteStates

LEMMA OverTypes ==
  ASSUME TypeOK, NEW w \in Writes, NEW answer \in {"none", "done", "changed", "denied"}, Over(w, answer)
  PROVE  /\ AccountTypeOK' /\ write' \in [Writes -> Write] /\ task' \in [Writes -> Task]
         /\ wire' \subseteq Writes /\ edits' \in 0 .. MaxEdits
         /\ reply' \in [Writes -> {"none", "done", "changed", "denied"}]
BY DEF Over, TypeOK, AccountTypeOK, accountVars

LEMMA ProviderTypes ==
  ASSUME TypeOK, NEW w \in Writes, Land(w) \/ Refuse(w) \/ Lose(w)
  PROVE  TypeOK'
<1>0. write[w].target \in Targets
  BY DEF TypeOK, Write
<1>1. CASE Land(w)
  <2> DEFINE e == event[write[w].target]
             x == IF write[w].action = "delete" THEN [e EXCEPT !.present = FALSE]
                  ELSE [present |-> TRUE, version |-> e.version + 1, marker |-> w]
  <2>1. e \in Event
    BY <1>0 DEF TypeOK
  <2>2. x \in Event
    <3>1. [e EXCEPT !.present = FALSE] \in Event
      BY <2>1 DEF Event
    <3>2. [present |-> TRUE, version |-> e.version + 1, marker |-> w] \in Event
      BY <2>1 DEF Event
    <3>3. QED
      BY <3>1, <3>2
  <2>3. event' = [event EXCEPT ![write[w].target] = x]
    BY <1>1 DEF Land
  <2> HIDE DEF x
  <2>4. event' \in [Targets -> Event]
    BY <2>2, <2>3 DEF TypeOK
  <2>5. landed' \in [Writes -> Nat]
    BY <1>1 DEF Land, TypeOK
  <2>6. Over(w, "done")
    BY <1>1 DEF Land
  <2>7. QED
    BY <2>4, <2>5, <2>6, OverTypes DEF TypeOK
<1>2. CASE Refuse(w) \/ Lose(w)
  <2>1. PICK answer \in {"none", "done", "changed", "denied"} : Over(w, answer)
    BY <1>2 DEF Refuse, Lose
  <2>2. UNCHANGED <<event, landed>>
    BY <1>2 DEF Refuse, Lose
  <2>3. QED
    BY <2>1, <2>2, OverTypes DEF TypeOK
<1>3. QED
  BY <1>1, <1>2

LEMMA WriteTypes == \A w \in Writes : TypeOK /\ WriteStep(w) => TypeOK'
<1> SUFFICES ASSUME NEW w \in Writes, TypeOK, WriteStep(w) PROVE TypeOK'
  OBVIOUS
<1>0. /\ write[w] \in Write /\ Who(w) \in Identities /\ write[w].generation \in Nat
      /\ account[Who(w)].generation \in Nat /\ task[w] \in Task
      /\ event[write[w].target] \in Event
  BY DEF TypeOK, AccountTypeOK, Account, Write, Who
<1>1. ASSUME NEW i \in Identities, NEW d \in Drafts, NEW a \in Actions, NEW e \in Targets,
             NEW opened \in 0 .. event[e].version, Prepare(w, i, d, a, e, opened)
      PROVE  TypeOK'
  <2> DEFINE x == [state |-> "preparing", who |-> i, draft |-> d, action |-> a, target |-> e,
                   generation |-> account[i].generation, base |-> opened,
                   late |-> FALSE, attempted |-> FALSE]
  <2>1. account[i].generation \in Nat /\ event[e].version \in Nat
    BY DEF TypeOK, AccountTypeOK, Account, Event
  <2>2. opened \in Nat
    BY <2>1
  <2>3. x \in Write
    BY <2>1, <2>2 DEF Write, WriteStates
  <2>4. Begins(w, x, "prepare", account[i].generation)
    BY <1>1 DEF Prepare
  <2> HIDE DEF x
  <2>5. QED
    BY <2>1, <2>3, <2>4, BeginsTypes DEF Kinds
<1>2. CASE Confirm(w)
  BY <1>0, <1>2, BeginsTypes, FieldTypes DEF Confirm, Kinds
<1>3. CASE Reconcile(w)
  BY <1>0, <1>3, BeginsTypes DEF Reconcile, Kinds
<1>4. CASE Token(w) \/ ReadEvent(w)
  BY <1>0, <1>4, TasksTypes, FieldTypes DEF Token, ReadEvent
<1>5. CASE \/ Fails(w) \/ Prepared(w) \/ Conflict(w)
           \/ Confirmed(w) \/ Refused(w) \/ Unclear(w) \/ Observed(w)
  <2>1. PICK s \in WriteStates : Ends(w, s)
    BY <1>5 DEF Fails, Prepared, Conflict, Confirmed, Refused, Unclear, Observed, WriteStates
  <2>2. QED
    BY <2>1, EndsTypes
<1>6. CASE ReviewLapses(w)
  BY <1>0, <1>6, FieldTypes DEF ReviewLapses, TypeOK, AccountTypeOK, accountVars
<1>7. CASE CancelReview(w)
  BY <1>7, StateTypes DEF CancelReview, TypeOK, AccountTypeOK, accountVars, WriteStates
<1>8. CASE Dispatch(w)
  <2>1. write' \in [Writes -> Write] /\ task' \in [Writes -> Task]
    BY <1>0, <1>8, FieldTypes DEF Dispatch, TypeOK
  <2>2. QED
    BY <1>8, <2>1 DEF Dispatch, TypeOK, AccountTypeOK, accountVars
<1>9. CASE Land(w) \/ Refuse(w) \/ Lose(w)
  BY <1>9, ProviderTypes
<1>10. QED
  BY <1>1, <1>2, <1>3, <1>4, <1>5, <1>6, <1>7, <1>8, <1>9 DEF WriteStep

\* An edit by another program changes the event and nothing of the service.
LEMMA EditTypes ==
  ASSUME TypeOK, NEW e \in Targets, NEW present \in BOOLEAN, Edit(e, present)
  PROVE  TypeOK'
<1> DEFINE x == [event[e] EXCEPT !.present = present, !.version = event[e].version + 1]
<1>1. event[e] \in Event /\ event[e].version + 1 \in Nat
  BY DEF TypeOK, Event
<1>2. x \in Event
  BY <1>1 DEF Event
<1>3. event' = [event EXCEPT ![e] = x]
  BY DEF Edit
<1> HIDE DEF x
<1>4. event' \in [Targets -> Event] /\ edits' \in 0 .. MaxEdits
  BY <1>2, <1>3, CalendarAssumption DEF Edit, TypeOK
<1>5. QED
  BY <1>4 DEF Edit, TypeOK, AccountTypeOK, accountVars

LEMMA WorldTypes == TypeOK /\ World => TypeOK'
<1> SUFFICES ASSUME TypeOK, World PROVE TypeOK'
  OBVIOUS
<1>1. CASE /\ SignInStep \/ CredentialStep \/ (\E i \in Identities : Disconnect(i)) \/ Hold \/ CloseAccounts
           /\ UNCHANGED calendarVars
  <2>1. AccountTypeOK'
    BY <1>1, SignInTypes, CredentialTypes, ConnectionTypes DEF TypeOK
  <2>2. QED
    BY <1>1, <2>1 DEF TypeOK, calendarVars
<1>2. CASE \E e \in Targets, present \in BOOLEAN : Edit(e, present)
  BY <1>2, EditTypes
<1>3. CASE Restart
  <2>1. AccountTypeOK'
    BY <1>3, ConnectionTypes DEF Restart, TypeOK
  <2>2. write' \in [Writes -> Write]
    BY <1>3, FieldTypes DEF Restart, TypeOK
  <2>3. task' \in [Writes -> Task] /\ reply' \in [Writes -> {"none", "done", "changed", "denied"}]
    BY <1>3 DEF Restart, Idle, Task, Kinds, Event, Absent
  <2>4. QED
    BY <1>3, <2>1, <2>2, <2>3 DEF Restart, TypeOK
<1>4. QED
  BY <1>1, <1>2, <1>3 DEF World, Close

LEMMA InitTypes == Init => TypeOK
<1> SUFFICES ASSUME Init PROVE TypeOK
  OBVIOUS
<1>1. NoAccount \in Account /\ Connected \in Account /\ NoCredential \in Credential
      /\ [generation |-> 1, version |-> 1, fresh |-> TRUE] \in Credential
  BY DEF Account, AccountStates, NoAccount, Connected, Credential, NoCredential
<1>2. NoAttempt \in Attempt /\ NotSigning \in Signing
  BY DEF NoAttempt, Attempt, AttemptStates, NotSigning, Signing
<1>3. AccountTypeOK
  BY <1>1, <1>2 DEF Init, AccountInit, AccountTypeOK
<1>4. (CHOOSE i \in Identities : TRUE) \in Identities /\ (CHOOSE d \in Drafts : TRUE) \in Drafts
  BY CalendarAssumption
<1>5. \A w \in Writes : NoWrite(w) \in Write
  BY <1>4 DEF NoWrite, Write, WriteStates, Actions, Targets
<1>6. Idle \in Task /\ Absent \in Event /\ [Absent EXCEPT !.present = TRUE] \in Event
  BY DEF Idle, Task, Kinds, Event, Absent
<1>7. QED
  BY <1>3, <1>5, <1>6, CalendarAssumption DEF Init, TypeOK

\* Every variable of the accounts and of the calendar keeps its shape.
THEOREM CalendarTypes == Spec => []TypeOK
<1>1. TypeOK /\ [Next]_vars => TypeOK'
  <2> SUFFICES ASSUME TypeOK, [Next]_vars PROVE TypeOK'
    OBVIOUS
  <2>1. CASE Next
    BY <2>1, WriteTypes, WorldTypes DEF Next
  <2>2. CASE UNCHANGED vars
    BY <2>2 DEF vars, accountVars, calendarVars, TypeOK, AccountTypeOK
  <2>3. QED
    BY <2>1, <2>2
<1>2. QED
  BY <1>1, InitTypes, PTL DEF Spec

-----------------------------------------------------------------------------
(* Connections and refreshes.                                              *)

\* Where neither accounts, nor refreshes, nor whose tokens they are change.
LEMMA RefreshInvStands ==
  ASSUME RefreshInv, UNCHANGED <<account, refreshing, closed>>,
         \A i \in Identities : credential'[i].generation = credential[i].generation
  PROVE  RefreshInv'
BY DEF RefreshInv, Mine, Current

\* A refresh begins where none is under way, for the connection there is.
LEMMA RefreshStartKeeps ==
  ASSUME AccountTypeOK, RefreshInv, NEW i \in Identities, Current(i, account[i].generation),
         NeedsRefresh(i), RefreshStarts(i), UNCHANGED <<credential, closed>>
  PROVE  RefreshInv'
<1>1. PICK q : /\ q.who = i /\ q.generation = account[i].generation
               /\ q.revision = account[i].revision + 1
               /\ refreshing' = refreshing \cup {q}
  BY DEF RefreshStarts
<1>2. \A j \in Identities \ {i} : account'[j] = account[j]
  BY BecomeTypes DEF RefreshStarts, AccountStates
<1>3. /\ account'[i].state = "refreshing" /\ account'[i].generation = account[i].generation
      /\ account'[i].revision = account[i].revision + 1
  BY BecomeTypes DEF RefreshStarts, AccountStates
<1>5. \A r \in refreshing : ~(r.who = i /\ r.generation = account[i].generation)
  BY DEF NeedsRefresh, UnderWay
<1>6. ~closed /\ account[i].state \in {"connected", "refreshing"}
  BY DEF Current
<1>7. \A j \in Identities :
        account'[j].state \in {"connected", "refreshing"} =>
          credential'[j].generation = account'[j].generation
  BY <1>2, <1>3, <1>6 DEF RefreshInv
<1>8. ASSUME NEW j \in Identities, account'[j].state = "refreshing", ~closed'
      PROVE  \E r \in refreshing' : r.who = j /\ Mine(r)'
  <2>1. CASE j = i
    <3>1. Mine(q)'
      BY <1>1, <1>3, <1>6 DEF Mine, Current
    <3>2. QED
      BY <1>1, <2>1, <3>1
  <2>2. CASE j # i
    <3>1. PICK r \in refreshing : r.who = j /\ Mine(r)
      BY <1>2, <1>6, <1>8, <2>2 DEF RefreshInv
    <3>2. Mine(r)'
      BY <1>2, <2>2, <3>1 DEF Mine, Current
    <3>3. QED
      BY <1>1, <3>1, <3>2
  <2>3. QED
    BY <2>1, <2>2
<1>9. \A r, s \in refreshing' : r.who = s.who /\ r.generation = s.generation => r = s
  BY <1>1, <1>5 DEF RefreshInv
<1>10. QED
  BY <1>7, <1>8, <1>9 DEF RefreshInv

\* The account of one person changes, and becomes neither refreshing nor anybody
\* else's.
LEMMA ConnectionKeeps ==
  ASSUME AccountTypeOK, RefreshInv, NEW i \in Identities,
         refreshing' \subseteq refreshing, closed' = closed,
         \A r \in refreshing \ refreshing' : r.who = i,
         \A j \in Identities \ {i} : account'[j] = account[j] /\ credential'[j] = credential[j],
         account'[i].state # "refreshing",
         account'[i].state = "connected" => credential'[i].generation = account'[i].generation
  PROVE  RefreshInv'
<1>1. \A j \in Identities :
        account'[j].state \in {"connected", "refreshing"} =>
          credential'[j].generation = account'[j].generation
  BY DEF RefreshInv
<1>2. ASSUME NEW j \in Identities, account'[j].state = "refreshing", ~closed'
      PROVE  \E r \in refreshing' : r.who = j /\ Mine(r)'
  <2>1. j # i /\ account'[j] = account[j] /\ ~closed
    BY <1>2
  <2>2. PICK r \in refreshing : r.who = j /\ Mine(r)
    BY <1>2, <2>1 DEF RefreshInv
  <2>3. r \in refreshing' /\ Mine(r)'
    BY <2>1, <2>2 DEF Mine, Current
  <2>4. QED
    BY <2>2, <2>3
<1>3. QED
  BY <1>1, <1>2 DEF RefreshInv

LEMMA SignInKeeps == AccountTypeOK /\ RefreshInv /\ SignInStep => RefreshInv'
<1> SUFFICES ASSUME AccountTypeOK, RefreshInv, SignInStep PROVE RefreshInv'
  OBVIOUS
<1>1. ASSUME NEW a \in SignIns, NEW i \in Identities, NEW writes \in BOOLEAN, SignedIn(a, i, writes)
      PROVE  RefreshInv'
  <2>1. /\ account'[i].state = "connected" /\ account'[i].generation = credential'[i].generation
        /\ \A j \in Identities \ {i} : account'[j] = account[j] /\ credential'[j] = credential[j]
    BY <1>1 DEF SignedIn, AccountTypeOK
  <2>2. UNCHANGED <<refreshing, closed>>
    BY <1>1 DEF SignedIn
  <2>3. QED
    BY <2>1, <2>2, ConnectionKeeps
<1>2. CASE UNCHANGED <<account, credential, refreshing, closed>>
  BY <1>2, RefreshInvStands
<1>3. QED
  BY <1>1, <1>2 DEF SignInStep, Begin, Callback, Listen, ListenFails, Exchanged, SignInFails,
                    SignInDropped, Cancel, Lapse, Sweep

LEMMA CredentialKeeps == AccountTypeOK /\ RefreshInv /\ CredentialStep => RefreshInv'
<1> SUFFICES ASSUME AccountTypeOK, RefreshInv, CredentialStep PROVE RefreshInv'
  OBVIOUS
<1>0. \A r \in refreshing : r \in Refresh /\ r.who \in Identities
  BY DEF AccountTypeOK, Refresh
<1>1. ASSUME NEW r \in refreshing, TokenReply(r) PROVE RefreshInv'
  <2>1. PICK q : /\ q.who = r.who /\ q.generation = r.generation /\ q.revision = r.revision
                 /\ refreshing' = (refreshing \ {r}) \cup {q}
    BY <1>0, <1>1 DEF TokenReply, Refresh
  <2>2. UNCHANGED <<account, credential, closed>>
    BY <1>1 DEF TokenReply
  <2>3. \A s, t \in refreshing' : s.who = t.who /\ s.generation = t.generation => s = t
    BY <1>0, <2>1 DEF RefreshInv
  <2>4. ASSUME NEW i \in Identities, account[i].state = "refreshing", ~closed
        PROVE  \E s \in refreshing' : s.who = i /\ Mine(s)
    <3>1. PICK s \in refreshing : s.who = i /\ Mine(s)
      BY <2>4 DEF RefreshInv
    <3>2. s = r => q.who = i /\ Mine(q)
      BY <2>1, <3>1 DEF Mine, Current
    <3>3. QED
      BY <2>1, <3>1, <3>2
  <2>5. \A s : Mine(s)' <=> Mine(s)
    BY <2>2 DEF Mine, Current
  <2>6. QED
    BY <2>2, <2>3, <2>4, <2>5 DEF RefreshInv
<1>2. ASSUME NEW r \in refreshing, RefreshFails(r) PROVE RefreshInv'
  <2>1. refreshing' = refreshing \ {r} /\ UNCHANGED <<credential, closed>>
    BY <1>2 DEF RefreshFails
  <2>2. CASE ~closed /\ account[r.who].generation = r.generation /\ account[r.who].state = "refreshing"
    <3>1. account' = Become(r.who, "reconnect")
      BY <1>2, <2>2 DEF RefreshFails
    <3>2. /\ account'[r.who].state = "reconnect"
          /\ \A j \in Identities \ {r.who} : account'[j] = account[j]
      BY <1>0, <3>1, BecomeTypes DEF AccountStates
    <3>3. QED
      BY <1>0, <2>1, <3>2, ConnectionKeeps
  <2>3. CASE ~(~closed /\ account[r.who].generation = r.generation /\ account[r.who].state = "refreshing")
    <3>1. account' = account
      BY <1>2, <2>3 DEF RefreshFails
    <3>2. ~Mine(r) \/ account[r.who].state # "refreshing"
      BY <2>3 DEF Mine, Current
    <3>3. ASSUME NEW i \in Identities, account[i].state = "refreshing", ~closed
          PROVE  \E s \in refreshing' : s.who = i /\ Mine(s)
      <4>1. PICK s \in refreshing : s.who = i /\ Mine(s)
        BY <3>3 DEF RefreshInv
      <4>2. s # r
        BY <3>2, <3>3, <4>1
      <4>3. QED
        BY <2>1, <4>1, <4>2
    <3>4. \A s : Mine(s)' <=> Mine(s)
      BY <2>1, <3>1 DEF Mine, Current
    <3>5. QED
      BY <2>1, <3>1, <3>3, <3>4 DEF RefreshInv
  <2>4. QED
    BY <2>2, <2>3
<1>3. ASSUME NEW r \in refreshing, NEW writes \in BOOLEAN, Refreshed(r, writes) PROVE RefreshInv'
  <2>1. /\ account'[r.who].state = "connected"
        /\ account'[r.who].generation = account[r.who].generation
        /\ credential'[r.who].generation = r.generation
        /\ \A j \in Identities \ {r.who} : account'[j] = account[j] /\ credential'[j] = credential[j]
    BY <1>0, <1>3 DEF Refreshed, AccountTypeOK, Account
  <2>2. account[r.who].generation = r.generation
    BY <1>3 DEF Refreshed, Mine, Current
  <2>3. refreshing' = refreshing \ {r} /\ closed' = closed
    BY <1>3 DEF Refreshed
  <2>4. QED
    BY <1>0, <2>1, <2>2, <2>3, ConnectionKeeps
<1>4. ASSUME NEW i \in Identities, Age(i) PROVE RefreshInv'
  <2>1. \A j \in Identities : credential'[j].generation = credential[j].generation
    BY <1>4 DEF Age, AccountTypeOK, Credential
  <2>2. QED
    BY <1>4, <2>1, RefreshInvStands DEF Age
<1>5. ASSUME NEW i \in Identities, StartRefresh(i) PROVE RefreshInv'
  BY <1>5, RefreshStartKeeps DEF StartRefresh
<1>6. ASSUME NEW i \in Identities, Denied(i) PROVE RefreshInv'
  <2>1. /\ account'[i].state = "reconnect"
        /\ \A j \in Identities \ {i} : account'[j] = account[j]
    BY <1>6, BecomeTypes DEF Denied, AccountStates
  <2>2. UNCHANGED <<credential, refreshing, closed>>
    BY <1>6 DEF Denied
  <2>3. QED
    BY <2>1, <2>2, ConnectionKeeps
<1>7. QED
  BY <1>1, <1>2, <1>3, <1>4, <1>5, <1>6 DEF CredentialStep

LEMMA ConnectionsKeep ==
  ASSUME AccountTypeOK, RefreshInv,
         (\E i \in Identities : Disconnect(i)) \/ Hold \/ CloseAccounts \/ RestartAccounts
  PROVE  RefreshInv'
<1>1. ASSUME NEW i \in Identities, Disconnect(i) PROVE RefreshInv'
  <2>1. /\ account'[i].state = "disconnected"
        /\ \A j \in Identities \ {i} : account'[j] = account[j] /\ credential'[j] = credential[j]
    BY <1>1 DEF Disconnect, AccountTypeOK
  <2>2. UNCHANGED <<refreshing, closed>>
    BY <1>1 DEF Disconnect
  <2>3. QED
    BY <2>1, <2>2, ConnectionKeeps
<1>2. CASE Hold
  BY <1>2, RefreshInvStands DEF Hold
<1>3. CASE CloseAccounts
  BY <1>3 DEF CloseAccounts, RefreshInv
<1>4. CASE RestartAccounts
  <2>1. \A i \in Identities :
          /\ account'[i].state # "refreshing"
          /\ account'[i].state = "connected" => account'[i] = account[i]
    BY <1>4, BecomeTypes DEF RestartAccounts, AccountStates
  <2>2. refreshing' = {} /\ credential' = credential
    BY <1>4 DEF RestartAccounts
  <2>3. QED
    BY <2>1, <2>2 DEF RefreshInv
<1>5. QED
  BY <1>1, <1>2, <1>3, <1>4

LEMMA BeginsKeeps ==
  ASSUME TypeOK, RefreshInv, NEW w, NEW x \in Write, NEW kind, NEW g, Begins(w, x, kind, g)
  PROVE  RefreshInv'
<1>1. x.who \in Identities /\ UNCHANGED <<credential, closed>>
  BY DEF Write, Begins
<1>2. CASE UNCHANGED <<account, refreshing>>
  BY <1>1, <1>2, RefreshInvStands
<1>3. CASE Current(x.who, g) /\ NeedsRefresh(x.who) /\ RefreshStarts(x.who)
  <2>1. Current(x.who, account[x.who].generation)
    BY <1>3 DEF Current
  <2>2. QED
    BY <1>1, <1>3, <2>1, RefreshStartKeeps DEF TypeOK
<1>4. QED
  BY <1>2, <1>3 DEF Begins

\* The operations that begin a function, and those that leave the accounts alone.
LEMMA WriteSteps ==
  ASSUME TypeOK, NEW w \in Writes, WriteStep(w)
  PROVE  \/ \E x \in Write, kind \in Kinds, g \in Nat : Begins(w, x, kind, g)
         \/ UNCHANGED <<accountVars, closed, held>>
<1>0. /\ write[w] \in Write /\ Who(w) \in Identities /\ write[w].generation \in Nat
      /\ account[Who(w)].generation \in Nat
  BY DEF TypeOK, AccountTypeOK, Account, Write, Who
<1>1. ASSUME NEW i \in Identities, NEW d \in Drafts, NEW a \in Actions, NEW e \in Targets,
             NEW opened \in 0 .. event[e].version, Prepare(w, i, d, a, e, opened)
      PROVE  \E x \in Write, kind \in Kinds, g \in Nat : Begins(w, x, kind, g)
  <2> DEFINE x == [state |-> "preparing", who |-> i, draft |-> d, action |-> a, target |-> e,
                   generation |-> account[i].generation, base |-> opened,
                   late |-> FALSE, attempted |-> FALSE]
  <2>1. account[i].generation \in Nat /\ event[e].version \in Nat
    BY DEF TypeOK, AccountTypeOK, Account, Event
  <2>2. x \in Write
    BY <2>1 DEF Write, WriteStates
  <2>3. Begins(w, x, "prepare", account[i].generation)
    BY <1>1 DEF Prepare
  <2> HIDE DEF x
  <2>4. QED
    BY <2>1, <2>2, <2>3 DEF Kinds
<1>2. CASE Confirm(w)
  BY <1>0, <1>2, FieldTypes DEF Confirm, Kinds
<1>3. CASE Reconcile(w)
  BY <1>0, <1>3 DEF Reconcile, Kinds
<1>4. CASE Land(w) \/ Refuse(w) \/ Lose(w)
  BY <1>4 DEF Land, Refuse, Lose, Over
<1>5. CASE ReviewLapses(w) \/ CancelReview(w) \/ Dispatch(w) \/ Token(w) \/ ReadEvent(w)
  BY <1>5 DEF ReviewLapses, CancelReview, Dispatch, Token, ReadEvent, Tasks
<1>6. CASE \/ Fails(w) \/ Prepared(w) \/ Conflict(w)
           \/ Confirmed(w) \/ Refused(w) \/ Unclear(w) \/ Observed(w)
  BY <1>6 DEF Fails, Prepared, Conflict, Confirmed, Refused, Unclear, Observed, Ends
<1>7. QED
  BY <1>1, <1>2, <1>3, <1>4, <1>5, <1>6 DEF WriteStep

LEMMA RefreshInvKept == TypeOK /\ RefreshInv /\ [Next]_vars => RefreshInv'
<1> SUFFICES ASSUME TypeOK, RefreshInv, [Next]_vars PROVE RefreshInv'
  OBVIOUS
<1>0. AccountTypeOK
  BY DEF TypeOK
<1>1. ASSUME NEW w \in Writes, WriteStep(w) PROVE RefreshInv'
  BY <1>1, WriteSteps, BeginsKeeps, RefreshInvStands DEF accountVars
<1>2. CASE World
  BY <1>0, <1>2, SignInKeeps, CredentialKeeps, ConnectionsKeep, RefreshInvStands
     DEF World, Close, Restart, Edit, accountVars
<1>3. CASE UNCHANGED vars
  BY <1>3, RefreshInvStands DEF vars, accountVars
<1>4. QED
  BY <1>1, <1>2, <1>3 DEF Next

LEMMA RefreshInvHolds == Spec => []RefreshInv
<1>1. Init => RefreshInv
  BY DEF Init, AccountInit, RefreshInv, NoAccount, Connected, NoCredential
<1>2. QED
  BY <1>1, RefreshInvKept, CalendarTypes, PTL DEF Spec

\* An account does not stay "refreshing" without a refresh that may still save its
\* result, a connection is refreshed by one function at a time, and connected
\* means with tokens of this connection (the account service's refreshes).
THEOREM RefreshesAreOwned == Spec => []RefreshIsOwned
<1>1. RefreshInv => RefreshIsOwned
  <2> SUFFICES ASSUME RefreshInv, NEW i \in Identities, NEW g \in 1 .. account[i].revision
               PROVE  Cardinality(UnderWay(i, g)) <= 1
    BY DEF RefreshInv, RefreshIsOwned
  <2>1. \A r, s \in UnderWay(i, g) : r = s
    BY DEF RefreshInv, UnderWay
  <2>2. UnderWay(i, g) = {} \/ \E r : UnderWay(i, g) = {r}
    BY <2>1
  <2>3. Cardinality(UnderWay(i, g)) \in {0, 1}
    BY <2>2, FS_EmptySet, FS_Singleton
  <2>4. QED
    BY <2>3
<1>2. QED
  BY <1>1, RefreshInvHolds, PTL

\* What OldConsentIsGone says of a step.
ConsentStep ==
  \A i \in Identities :
    account[i].state \in {"disconnected", "reconnect"} /\ account'[i].state = "connected" =>
      \E a \in SignIns : /\ attempt[a].state = "exchanging" /\ attempt'[a].state = "completed"
                         /\ attempt[a].base[i] = account[i].revision

\* It holds of every step that only connects who was connected.
LEMMA NobodyConnects ==
  ASSUME \A i \in Identities : \/ account'[i] = account[i]
                               \/ account'[i].state # "connected"
                               \/ account[i].state \in {"connected", "refreshing"}
  PROVE  ConsentStep
BY DEF ConsentStep

LEMMA StartsRefreshing ==
  ASSUME AccountTypeOK, NEW i \in Identities, RefreshStarts(i)
  PROVE  ConsentStep
<1>1. account'[i].state = "refreshing" /\ \A j \in Identities \ {i} : account'[j] = account[j]
  BY BecomeTypes DEF RefreshStarts, AccountStates
<1>2. QED
  BY <1>1, NobodyConnects

LEMMA ConsentKept == TypeOK /\ [Next]_vars => ConsentStep
<1> SUFFICES ASSUME TypeOK, [Next]_vars PROVE ConsentStep
  OBVIOUS
<1>0. AccountTypeOK /\ \A r \in refreshing : r.who \in Identities
  BY DEF TypeOK, AccountTypeOK, Refresh
<1>1. CASE UNCHANGED account
  BY <1>1, NobodyConnects
<1>2. ASSUME NEW w \in Writes, WriteStep(w) PROVE ConsentStep
  <2>1. ASSUME NEW x \in Write, NEW kind, NEW g, Begins(w, x, kind, g) PROVE ConsentStep
    <3>1. x.who \in Identities
      BY DEF Write
    <3>2. UNCHANGED account \/ RefreshStarts(x.who)
      BY <2>1 DEF Begins
    <3>3. QED
      BY <1>0, <1>1, <3>1, <3>2, StartsRefreshing
  <2>2. QED
    BY <1>1, <1>2, <2>1, WriteSteps DEF accountVars
<1>3. ASSUME SignInStep PROVE ConsentStep
  <2>1. ASSUME NEW a \in SignIns, NEW i \in Identities, NEW writes \in BOOLEAN, SignedIn(a, i, writes)
        PROVE  ConsentStep
    <3>1. \A j \in Identities \ {i} : account'[j] = account[j]
      BY <1>0, <2>1 DEF SignedIn, AccountTypeOK
    <3>2. attempt[a].state = "exchanging" /\ account[i].revision = attempt[a].base[i]
      BY <2>1 DEF SignedIn, Owned, Chosen
    <3>3. attempt'[a].state = "completed"
      BY <1>0, <2>1 DEF SignedIn, AccountTypeOK, Attempt
    <3>4. QED
      BY <3>1, <3>2, <3>3 DEF ConsentStep
  <2>2. QED
    BY <1>1, <1>3, <2>1 DEF SignInStep, Begin, Callback, Listen, ListenFails, Exchanged,
                            SignInFails, SignInDropped, Cancel, Lapse, Sweep
<1>4. ASSUME CredentialStep PROVE ConsentStep
  <2>1. ASSUME NEW r \in refreshing, RefreshFails(r) PROVE ConsentStep
    BY <1>0, <2>1, BecomeTypes, NobodyConnects DEF RefreshFails, AccountStates
  <2>2. ASSUME NEW r \in refreshing, NEW writes \in BOOLEAN, Refreshed(r, writes) PROVE ConsentStep
    <3>1. account[r.who].state \in {"connected", "refreshing"}
      BY <2>2 DEF Refreshed, Mine, Current
    <3>2. \A j \in Identities \ {r.who} : account'[j] = account[j]
      BY <1>0, <2>2 DEF Refreshed, AccountTypeOK
    <3>3. QED
      BY <3>1, <3>2, NobodyConnects
  <2>3. ASSUME NEW i \in Identities, Denied(i) PROVE ConsentStep
    <3>1. account'[i].state = "reconnect" /\ \A j \in Identities \ {i} : account'[j] = account[j]
      BY <1>0, <2>3, BecomeTypes DEF Denied, AccountStates
    <3>2. QED
      BY <3>1, NobodyConnects
  <2>4. QED
    BY <1>0, <1>1, <1>4, <2>1, <2>2, <2>3, StartsRefreshing DEF CredentialStep, TokenReply, Age, StartRefresh
<1>5. ASSUME NEW i \in Identities, Disconnect(i) PROVE ConsentStep
  <2>1. account'[i].state = "disconnected" /\ \A j \in Identities \ {i} : account'[j] = account[j]
    BY <1>0, <1>5 DEF Disconnect, AccountTypeOK
  <2>2. QED
    BY <2>1, NobodyConnects
<1>6. ASSUME RestartAccounts PROVE ConsentStep
  BY <1>0, <1>6, BecomeTypes, NobodyConnects DEF RestartAccounts, AccountStates
<1>7. CASE Hold \/ CloseAccounts \/ (\E e \in Targets, present \in BOOLEAN : Edit(e, present)) \/ UNCHANGED vars
  BY <1>1, <1>7 DEF Hold, CloseAccounts, Edit, vars, accountVars
<1>8. QED
  BY <1>2, <1>3, <1>4, <1>5, <1>6, <1>7 DEF Next, World, Close, Restart

\* No reply to a refresh or a sign-in begun before a disconnection or a refusal
\* connects the account again, however late it comes.
THEOREM OldConsentStaysGone == Spec => OldConsentIsGone
BY ConsentKept, CalendarTypes, PTL DEF Spec, OldConsentIsGone, ConsentStep

-----------------------------------------------------------------------------
(* Writes.                                                                 *)

\* A step of the function of w leaves the other operations and the provider alone.
Local(w) ==
  /\ event' = event /\ landed' = landed
  /\ \A v \in Writes \ {w} : /\ write'[v] = write[v] /\ task'[v] = task[v]
                             /\ reply'[v] = reply[v] /\ (v \in wire' <=> v \in wire)
  /\ write'[w].draft = write[w].draft /\ write'[w].target = write[w].target
  /\ write'[w].action = write[w].action

\* What such a step may do to w itself, so that what two operations exclude stays
\* excluded.
Modest(w) ==
  /\ Reserved(w)' => Reserved(w)
  /\ Alive(w)' => Alive(w)
  /\ w \in wire' => w \in wire \/ (Reserved(w) /\ write[w].state # "preparing")
  /\ Deleted(w)' => Deleted(w) \/ (write[w].state = "unknown" /\ ~event[write[w].target].present)
  /\ task'[w].seen \in {Absent, task[w].seen, event[write[w].target]}
  /\ task'[w].at = "seen" => task'[w] = task[w] \/ task'[w].seen = event[write[w].target]
  /\ Reserved(w)' /\ write[w].state = "preparing" /\ write[w].action # "create" =>
       write'[w].state = "preparing" \/ (task[w].at = "seen" /\ task[w].seen.present)

LEMMA LocalKeeps ==
  ASSUME TypeOK, WriteInv, NEW w \in Writes, Local(w), Modest(w), Function(w)', Covered(w)'
  PROVE  WriteInv'
<1>1. \A v \in Writes \ {w} :
        /\ Reserved(v)' <=> Reserved(v)
        /\ Alive(v)' <=> Alive(v)
        /\ Deleted(v)' <=> Deleted(v)
        /\ Claim(v)' = Claim(v)
  BY DEF Local, Reserved, Alive, Deleted, Claim
<1>2. \A v \in Writes : Function(v)' /\ Covered(v)'
  <2> SUFFICES ASSUME NEW v \in Writes \ {w} PROVE Function(v)' /\ Covered(v)'
    OBVIOUS
  <2>1. Function(v) /\ Covered(v)
    BY DEF WriteInv
  <2>2. Function(v)'
    BY <2>1 DEF Function, Local
  <2>3. Covered(v)'
    BY <1>1, <2>1 DEF Covered, Local
  <2>4. QED
    BY <2>2, <2>3
<1>3. \A v \in Writes : Aim(v)'
  <2> SUFFICES ASSUME NEW v \in Writes PROVE Aim(v)'
    OBVIOUS
  <2>1. Aim(v)
    BY DEF WriteInv
  <2>2. CASE v # w
    BY <1>1, <2>1, <2>2 DEF Aim, Local
  <2>3. CASE v = w
    BY <2>1, <2>3 DEF Aim, Local, Modest
  <2>4. QED
    BY <2>2, <2>3
<1>4. Marks'
  <2>1. event[write[w].target] \in Event /\ write[w].target \in Targets
    BY DEF TypeOK, Write
  <2>2. \A v \in Writes : task'[v].seen.marker # Nobody => landed[task'[v].seen.marker] = 1
    <3> SUFFICES ASSUME NEW v \in Writes, task'[v].seen.marker # Nobody
                 PROVE  landed[task'[v].seen.marker] = 1
      OBVIOUS
    <3>1. task'[v].seen \in {Absent, task[v].seen, event[write[w].target]}
      BY DEF Local, Modest
    <3>2. QED
      BY <2>1, <3>1 DEF WriteInv, Marks, Absent
  <2>3. QED
    BY <2>2 DEF WriteInv, Marks, Local
<1>5. ASSUME NEW u \in Writes, NEW v \in Writes, u # v PROVE Apart(u, v)'
  <2>1. Apart(u, v) /\ Apart(v, u)
    BY <1>5 DEF WriteInv
  <2>2. \A x \in {u, v} : /\ Reserved(x)' => Reserved(x)
                          /\ Alive(x)' => Alive(x)
                          /\ write'[x].draft = write[x].draft /\ write'[x].target = write[x].target
                          /\ write'[x].action = write[x].action
    BY <1>1 DEF Local, Modest
  <2>3. ASSUME write'[u].target = write'[v].target, write'[v].action # "create", Deleted(u)'
        PROVE  /\ v \notin wire'
               /\ Reserved(v)' => /\ write'[v].state = "preparing"
                                  /\ task'[v].at = "seen" => ~task'[v].seen.present
    <3>1. write[u].target = write[v].target /\ write[v].action # "create"
      BY <2>2, <2>3
    <3>2. CASE u = w
      <4>1. v # w /\ ~Deleted(u) => write[u].state = "unknown" /\ write[u].action # "create"
        BY <1>5, <2>2, <2>3, <3>2 DEF Modest, Deleted
      <4>2. CASE Deleted(u)
        BY <1>1, <1>5, <2>1, <3>1, <3>2, <4>2 DEF Apart, Local
      <4>3. CASE ~Deleted(u)
        <5>1. Reserved(u) /\ write[u].state # "preparing"
          BY <1>5, <3>2, <4>1, <4>3 DEF Reserved
        <5>2. ~Reserved(v) /\ ~Deleted(v)
          BY <1>5, <2>1, <3>1, <3>2, <4>1, <4>3, <5>1 DEF Apart
        <5>3. v \notin wire
          <6>1. Covered(v)
            BY DEF WriteInv
          <6>2. Claim(v) # "maybe"
            BY <5>2 DEF Claim, Reserved, Deleted
          <6>3. Claim(v) \in {"unsent", "pending", "known"}
            BY <6>2 DEF Claim
          <6>4. QED
            BY <6>1, <6>3 DEF Covered
        <5>4. QED
          BY <1>1, <1>5, <3>2, <5>2, <5>3 DEF Local
      <4>4. QED
        BY <4>2, <4>3
    <3>3. CASE u # w
      <4>1. Deleted(u)
        BY <1>1, <2>3, <3>3
      <4>2. /\ v \notin wire
            /\ Reserved(v) => /\ write[v].state = "preparing"
                              /\ task[v].at = "seen" => ~task[v].seen.present
        BY <2>1, <3>1, <4>1 DEF Apart
      <4>3. CASE v # w
        BY <1>1, <4>2, <4>3 DEF Local
      <4>4. CASE v = w
        <5>1. ~event[write[w].target].present
          BY <3>1, <4>1, <4>4 DEF WriteInv, Aim
        <5>2. v \notin wire'
          BY <4>2, <4>4 DEF Modest
        <5>3. QED
          BY <3>1, <4>2, <4>4, <5>1, <5>2 DEF Modest
      <4>5. QED
        BY <4>3, <4>4
    <3>4. QED
      BY <3>2, <3>3
  <2>4. QED
    BY <2>1, <2>2, <2>3 DEF Apart
<1>6. QED
  BY <1>2, <1>3, <1>4, <1>5 DEF WriteInv

\* The record of an operation after its state changes.
LEMMA StateFields ==
  ASSUME TypeOK, NEW w \in Writes, NEW s, write' = [write EXCEPT ![w].state = s]
  PROVE  /\ write'[w].state = s /\ write'[w].attempted = write[w].attempted
         /\ write'[w].draft = write[w].draft /\ write'[w].target = write[w].target
         /\ write'[w].action = write[w].action /\ write'[w].late = write[w].late
         /\ write'[w].generation = write[w].generation
         /\ \A v \in Writes \ {w} : write'[v] = write[v]
BY DEF TypeOK, Write

LEMMA IdleFields == Idle.kind = "none" /\ Idle.at = "none" /\ Idle.seen = Absent /\ Absent.present = FALSE
BY DEF Idle, Absent

\* A function ends, leaving what it may leave.
LEMMA EndsKeeps ==
  ASSUME TypeOK, WriteInv, NEW w \in Writes,
         NEW s \in {"review", "failed", "conflict", "unknown", "confirmed", "observed"},
         Ends(w, s),
         write[w].state \in {"preparing", "applying", "unknown"},
         s = "review" => write[w].state = "preparing" /\
                         (write[w].action = "create" \/ (task[w].at = "seen" /\ task[w].seen.present)),
         s \in {"review", "failed", "conflict"} => w \notin wire /\ landed[w] = 0,
         s = "confirmed" => landed[w] = 1,
         s = "unknown" => write[w].state # "preparing",
         s = "observed" => /\ write[w].state = "unknown"
                           /\ IF write[w].action = "delete" THEN ~event[write[w].target].present
                              ELSE landed[w] = 1
  PROVE  WriteInv'
<1>1. /\ write' = [write EXCEPT ![w].state = s] /\ task' = [task EXCEPT ![w] = Idle]
      /\ UNCHANGED <<event, wire, reply, landed>>
  BY DEF Ends
<1>2. task'[w] = Idle /\ \A v \in Writes \ {w} : task'[v] = task[v]
  BY <1>1 DEF TypeOK
<1>3. Function(w) /\ Covered(w)
  BY DEF WriteInv
<1>4. Function(w)'
  BY <1>1, <1>2, <1>3, StateFields, IdleFields DEF Function
<1>5. Covered(w)'
  BY <1>1, <1>3, StateFields DEF Covered, Claim
<1>6. Local(w)
  BY <1>1, <1>2, StateFields DEF Local
<1>7. Modest(w)
  BY <1>1, <1>2, StateFields, IdleFields DEF Modest, Reserved, Alive, Deleted
<1>8. QED
  BY <1>4, <1>5, <1>6, <1>7, LocalKeeps

LEMMA FunctionEnds ==
  ASSUME TypeOK, WriteInv, NEW w \in Writes,
         \/ Fails(w) \/ Prepared(w) \/ Conflict(w)
         \/ Confirmed(w) \/ Refused(w) \/ Unclear(w) \/ Observed(w)
  PROVE  WriteInv'
<1>0. /\ task[w].kind \in Kinds
      /\ reply[w] \in {"none", "done", "changed", "denied"}
      /\ task[w].seen.marker \in Writes \cup {Nobody}
  BY DEF TypeOK, Task, Event
<1>1. Function(w) /\ Covered(w) /\ Aim(w) /\ Marks
  BY DEF WriteInv
<1>2. write[w].state \in {"preparing", "applying"} /\ ~write[w].attempted => w \notin wire /\ landed[w] = 0
  BY <1>1 DEF Covered, Claim
<1>3. CASE Fails(w)
  <2>1. task[w].at \in {"refused", "read", "seen", "token"}
    BY <1>3 DEF Fails
  <2>2. CASE task[w].kind = "check"
    BY <1>1, <1>3, <2>2, EndsKeeps DEF Fails, Function
  <2>3. CASE task[w].kind # "check"
    <3>1. task[w].kind \in {"prepare", "apply"}
      BY <1>0, <1>1, <2>1, <2>3 DEF Function, Kinds
    <3>2. write[w].state \in {"preparing", "applying"} /\ ~write[w].attempted
      BY <1>1, <2>1, <3>1 DEF Function
    <3>3. Ends(w, "failed")
      BY <1>3, <2>3 DEF Fails
    <3>4. QED
      BY <1>2, <3>2, <3>3, EndsKeeps
  <2>4. QED
    BY <2>2, <2>3
<1>4. CASE Prepared(w)
  <2>1. write[w].state = "preparing" /\ ~write[w].attempted /\ Ends(w, "review")
    BY <1>1, <1>4 DEF Prepared, Function
  <2>2. write[w].action = "create" \/ (task[w].at = "seen" /\ task[w].seen.present)
    BY <1>4 DEF Prepared, Unchanged
  <2>3. QED
    BY <1>2, <2>1, <2>2, EndsKeeps
<1>5. CASE Conflict(w)
  <2>1. write[w].state = "applying" /\ ~write[w].attempted /\ Ends(w, "conflict")
    BY <1>1, <1>5 DEF Conflict, Function
  <2>2. QED
    BY <1>2, <2>1, EndsKeeps
<1>6. CASE Confirmed(w)
  <2>1. write[w].state = "applying" /\ landed[w] = 1 /\ Ends(w, "confirmed")
    BY <1>1, <1>6 DEF Confirmed, Function
  <2>2. QED
    BY <2>1, EndsKeeps
<1>7. CASE Refused(w)
  <2>1. write[w].state = "applying" /\ landed[w] = 0 /\ w \notin wire
    BY <1>1, <1>7 DEF Refused, Function
  <2>2. Ends(w, "conflict") \/ Ends(w, "failed")
    BY <1>7 DEF Refused
  <2>3. QED
    BY <2>1, <2>2, EndsKeeps
<1>8. CASE Unclear(w)
  <2>1. write[w].state = "applying" /\ Ends(w, "unknown")
    BY <1>1, <1>8 DEF Unclear, Function
  <2>2. QED
    BY <2>1, EndsKeeps
<1>9. CASE Observed(w)
  <2>1. write[w].state = "unknown" /\ Ends(w, "observed")
    BY <1>1, <1>9 DEF Observed, Function
  <2>2. CASE write[w].action = "delete"
    BY <1>1, <1>9, <2>1, <2>2, EndsKeeps DEF Observed, Shows, Aim
  <2>3. CASE write[w].action # "delete"
    <3>1. task[w].seen.marker = w
      BY <1>9, <2>3 DEF Observed, Shows
    <3>2. landed[w] = 1
      BY <1>1, <3>1, CalendarAssumption DEF Marks
    <3>3. QED
      BY <2>1, <2>3, <3>2, EndsKeeps
  <2>4. QED
    BY <2>2, <2>3
<1>10. QED
  BY <1>3, <1>4, <1>5, <1>6, <1>7, <1>8, <1>9

\* A function goes on, or its operation is confirmed, checked, cancelled, or late.
LEMMA FunctionGoesOn ==
  ASSUME TypeOK, WriteInv, NEW w \in Writes, Token(w) \/ ReadEvent(w) \/ Dispatch(w)
  PROVE  WriteInv'
<1>0. task[w] \in Task /\ write[w] \in Write
  BY DEF TypeOK
<1>1. Function(w) /\ Covered(w)
  BY DEF WriteInv
<1>2. CASE Token(w) \/ ReadEvent(w)
  <2>1. /\ task'[w].at \in {"read", "seen"} /\ task[w].at \in {"token", "read"}
        /\ task'[w].kind = task[w].kind /\ task'[w].generation = task[w].generation
        /\ task'[w].seen \in {task[w].seen, event[write[w].target]}
        /\ task'[w].at = "seen" => task'[w].seen = event[write[w].target]
        /\ \A v \in Writes \ {w} : task'[v] = task[v]
    <3>1. CASE Token(w)
      BY <1>0, <3>1 DEF Token, Tasks, TypeOK, Task
    <3>2. CASE ReadEvent(w)
      BY <1>0, <3>2 DEF ReadEvent, Tasks, TypeOK, Task
    <3>3. QED
      BY <1>2, <3>1, <3>2
  <2>2. UNCHANGED <<write, event, wire, reply, landed>>
    BY <1>2 DEF Token, ReadEvent, Tasks
  <2>3. Function(w)' /\ Covered(w)'
    BY <1>1, <2>1, <2>2 DEF Function, Covered, Claim
  <2>4. Local(w) /\ Modest(w)
    BY <2>1, <2>2 DEF Local, Modest, Reserved, Alive, Deleted
  <2>5. QED
    BY <2>3, <2>4, LocalKeeps
<1>3. CASE Dispatch(w)
  <2>1. /\ task'[w].at = "answer" /\ task[w].at = "seen"
        /\ task[w].kind = "apply" /\ task'[w].kind = "apply"
        /\ task'[w].generation = task[w].generation
        /\ task'[w].seen = task[w].seen
        /\ \A v \in Writes \ {w} : task'[v] = task[v]
    BY <1>0, <1>3 DEF Dispatch, TypeOK, Task
  <2>2. /\ write'[w].state = write[w].state /\ write'[w].attempted /\ write'[w].late = write[w].late
        /\ write'[w].draft = write[w].draft /\ write'[w].target = write[w].target
        /\ write'[w].action = write[w].action /\ write'[w].generation = write[w].generation
        /\ \A v \in Writes \ {w} : write'[v] = write[v]
    BY <1>0, <1>3 DEF Dispatch, TypeOK, Write
  <2>3. UNCHANGED <<event, reply, landed>> /\ wire' = wire \cup {w}
    BY <1>3 DEF Dispatch
  <2>4. write[w].state = "applying" /\ ~write[w].attempted /\ reply[w] = "none"
    BY <1>1, <2>1 DEF Function
  <2>5. landed[w] = 0
    BY <1>1, <2>4 DEF Covered, Claim
  <2>6. Function(w)' /\ Covered(w)'
    BY <1>1, <2>1, <2>2, <2>3, <2>4, <2>5 DEF Function, Covered, Claim
  <2>7. Local(w) /\ Modest(w)
    BY <2>1, <2>2, <2>3, <2>4 DEF Local, Modest, Reserved, Alive, Deleted
  <2>8. QED
    BY <2>6, <2>7, LocalKeeps
<1>4. QED
  BY <1>2, <1>3

LEMMA OwnersWord ==
  ASSUME TypeOK, WriteInv, NEW w \in Writes,
         ReviewLapses(w) \/ CancelReview(w) \/ Confirm(w) \/ Reconcile(w)
  PROVE  WriteInv'
<1>0. /\ write[w] \in Write /\ write[w].generation \in Nat
      /\ account[Who(w)].generation \in Nat /\ task[w].kind \in Kinds
  BY DEF TypeOK, AccountTypeOK, Account, Write, Who, Task
<1>1. Function(w) /\ Covered(w)
  BY DEF WriteInv
<1>2. CASE ReviewLapses(w)
  <2>1. /\ write'[w].state = "review" /\ write'[w].attempted = write[w].attempted /\ write'[w].late
        /\ write'[w].draft = write[w].draft /\ write'[w].target = write[w].target
        /\ write'[w].action = write[w].action /\ write'[w].generation = write[w].generation
        /\ \A v \in Writes \ {w} : write'[v] = write[v]
    BY <1>0, <1>2 DEF ReviewLapses, TypeOK, Write
  <2>2. write[w].state = "review" /\ UNCHANGED <<task, event, wire, reply, landed>>
    BY <1>2 DEF ReviewLapses
  <2>3. Function(w)' /\ Covered(w)'
    BY <1>1, <2>1, <2>2 DEF Function, Covered, Claim
  <2>4. Local(w) /\ Modest(w)
    BY <2>1, <2>2 DEF Local, Modest, Reserved, Alive, Deleted
  <2>5. QED
    BY <2>3, <2>4, LocalKeeps
<1>3. CASE CancelReview(w)
  <2>1. write[w].state = "review" /\ UNCHANGED <<task, event, wire, reply, landed>>
    BY <1>3 DEF CancelReview
  <2>2. write' = [write EXCEPT ![w].state = "cancelled"]
    BY <1>3 DEF CancelReview
  <2>3. Function(w)' /\ Covered(w)'
    BY <1>1, <2>1, <2>2, StateFields DEF Function, Covered, Claim
  <2>4. Local(w) /\ Modest(w)
    BY <2>1, <2>2, StateFields DEF Local, Modest, Reserved, Alive, Deleted
  <2>5. QED
    BY <2>3, <2>4, LocalKeeps
<1>4. CASE Confirm(w)
  <2>1. Begins(w, [write[w] EXCEPT !.state = "applying"], "apply", write[w].generation)
    BY <1>4 DEF Confirm
  <2>2. PICK t \in Task : /\ t.kind = "apply" /\ t.at \in {"refused", "token"}
                          /\ t.generation = write[w].generation
                          /\ t.seen = Absent /\ task' = [task EXCEPT ![w] = t]
    <3>1. [write[w] EXCEPT !.state = "applying"] \in Write /\ "apply" \in Kinds
      BY <1>0, FieldTypes DEF Kinds
    <3>2. QED
      BY <1>0, <2>1, <3>1, BeginsTask
  <2>3. task'[w] = t /\ \A v \in Writes \ {w} : task'[v] = task[v]
    BY <2>2 DEF TypeOK
  <2>4. write' = [write EXCEPT ![w].state = "applying"] /\ UNCHANGED <<event, wire, reply, landed>>
    BY <2>1 DEF Begins
  <2>5. write[w].state = "review" /\ ~write[w].late
    BY <1>4 DEF Confirm
  <2>6. Function(w)' /\ Covered(w)'
    <3>1. ~write[w].attempted /\ reply[w] = "none" /\ w \notin wire /\ landed[w] = 0
      BY <1>1, <2>5 DEF Function, Covered, Claim
    <3>2. /\ write'[w].state = "applying" /\ ~write'[w].attempted
          /\ write'[w].generation = write[w].generation
      BY <2>4, <3>1, StateFields
    <3>3. Function(w)'
      BY <2>2, <2>3, <2>4, <3>1, <3>2 DEF Function
    <3>4. Covered(w)'
      BY <2>4, <3>1, <3>2 DEF Covered, Claim
    <3>5. QED
      BY <3>3, <3>4
  <2>7. Local(w) /\ Modest(w)
    BY <2>2, <2>3, <2>4, <2>5, StateFields DEF Local, Modest, Reserved, Alive, Deleted
  <2>8. QED
    BY <2>6, <2>7, LocalKeeps
<1>5. CASE Reconcile(w)
  <2>1. Begins(w, write[w], "check", account[Who(w)].generation)
    BY <1>5 DEF Reconcile
  <2>2. PICK t \in Task : /\ t.kind = "check" /\ t.at \in {"refused", "token"}
                          /\ t.seen = Absent /\ task' = [task EXCEPT ![w] = t]
    BY <1>0, <2>1, BeginsTask DEF Kinds
  <2>3. task'[w] = t /\ \A v \in Writes \ {w} : task'[v] = task[v]
    BY <2>2 DEF TypeOK
  <2>4. write' = write /\ UNCHANGED <<event, wire, reply, landed>>
    BY <2>1 DEF Begins, TypeOK
  <2>5. write[w].state = "unknown"
    BY <1>5 DEF Reconcile
  <2>6. Function(w)' /\ Covered(w)'
    BY <1>1, <2>2, <2>3, <2>4, <2>5 DEF Function, Covered, Claim
  <2>7. Local(w) /\ Modest(w)
    BY <2>2, <2>3, <2>4, <2>5 DEF Local, Modest, Reserved, Alive, Deleted
  <2>8. QED
    BY <2>6, <2>7, LocalKeeps
<1>6. QED
  BY <1>2, <1>3, <1>4, <1>5

\* A new operation takes nothing that another one holds or has done.
LEMMA PrepareKeeps ==
  ASSUME TypeOK, WriteInv, NEW w \in Writes, NEW i \in Identities, NEW d \in Drafts,
         NEW a \in Actions, NEW e \in Targets, NEW opened \in 0 .. event[e].version,
         Prepare(w, i, d, a, e, opened)
  PROVE  WriteInv'
<1> DEFINE x == [state |-> "preparing", who |-> i, draft |-> d, action |-> a, target |-> e,
                 generation |-> account[i].generation, base |-> opened,
                 late |-> FALSE, attempted |-> FALSE]
<1>1. account[i].generation \in Nat /\ event[e].version \in Nat
  BY DEF TypeOK, AccountTypeOK, Account, Event
<1>2. x \in Write
  BY <1>1 DEF Write, WriteStates
<1>3. x.state = "preparing" /\ x.draft = d /\ x.action = a /\ x.target = e /\ ~x.attempted
      /\ x.generation = account[i].generation
  OBVIOUS
<1>4. Begins(w, x, "prepare", account[i].generation)
  BY DEF Prepare
<1> HIDE DEF x
<1>5. PICK t \in Task : /\ t.kind = "prepare" /\ t.at \in {"refused", "token"}
                        /\ t.generation = account[i].generation
                        /\ t.seen = Absent /\ task' = [task EXCEPT ![w] = t]
  BY <1>1, <1>2, <1>4, BeginsTask DEF Kinds
<1>6. task'[w] = t /\ write'[w] = x
      /\ \A v \in Writes \ {w} : task'[v] = task[v] /\ write'[v] = write[v]
  BY <1>4, <1>5 DEF Begins, TypeOK
<1>7. UNCHANGED <<event, wire, reply, landed>>
  BY <1>4 DEF Begins
<1>8. write[w].state = "none" /\ Available(d, a, e)
  BY DEF Prepare
<1>9. w \notin wire /\ landed[w] = 0 /\ reply[w] = "none"
  BY <1>8 DEF WriteInv, Covered, Function, Claim
<1>10. \A v \in Writes \ {w} :
         /\ Reserved(v)' <=> Reserved(v)
         /\ Alive(v)' <=> Alive(v)
         /\ Deleted(v)' <=> Deleted(v)
         /\ Claim(v)' = Claim(v)
  BY <1>6 DEF Reserved, Alive, Deleted, Claim
<1>11. \A v \in Writes : Function(v)' /\ Covered(v)'
  <2>1. \A v \in Writes \ {w} : Function(v)'
    BY <1>6, <1>7 DEF WriteInv, Function
  <2>2. \A v \in Writes \ {w} : Covered(v)'
    BY <1>7, <1>10 DEF WriteInv, Covered
  <2>3. Function(w)'
    BY <1>3, <1>5, <1>6, <1>7, <1>9 DEF Function
  <2>4. Covered(w)'
    BY <1>3, <1>6, <1>7, <1>9 DEF Covered, Claim
  <2>5. QED
    BY <2>1, <2>2, <2>3, <2>4
<1>12. \A v \in Writes : Aim(v)'
  <2>1. \A v \in Writes \ {w} : Aim(v)'
    BY <1>6, <1>7, <1>10 DEF WriteInv, Aim
  <2>2. CASE a = "create"
    BY <1>3, <1>5, <1>6, <2>1, <2>2 DEF Prepare, Aim, Deleted
  <2>3. CASE a # "create"
    <3>1. e \in Events \/ landed[e] = 1
      BY <2>3 DEF Prepare, WriteInv, Marks, Targets
    <3>2. e # w
      BY <1>9, <3>1, CalendarAssumption
    <3>3. QED
      BY <1>3, <1>5, <1>6, <1>7, <2>1, <2>3, <3>1, <3>2 DEF Aim, Deleted
  <2>4. QED
    BY <2>2, <2>3
<1>13. Marks'
  BY <1>5, <1>6, <1>7 DEF WriteInv, Marks, Absent
<1>14. ASSUME NEW u \in Writes, NEW v \in Writes, u # v PROVE Apart(u, v)'
  <2>1. CASE u # w /\ v # w
    <3>1. Apart(u, v)
      BY <1>14 DEF WriteInv
    <3>2. QED
      BY <1>6, <1>7, <1>10, <2>1, <3>1 DEF Apart
  <2>2. \A y \in Writes \ {w} :
          /\ write[y].draft = d => ~Reserved(y)
          /\ a = "create" /\ write[y].draft = d => ~Alive(y)
          /\ a # "create" /\ write[y].action # "create" /\ write[y].target = e => ~Reserved(y)
    BY <1>8 DEF Available, Alive
  <2>3. CASE u = w
    BY <1>3, <1>6, <1>10, <1>14, <2>2, <2>3 DEF Apart, Deleted
  <2>4. CASE v = w
    BY <1>3, <1>5, <1>6, <1>7, <1>9, <1>10, <1>14, <2>2, <2>4 DEF Apart
  <2>5. QED
    BY <2>1, <2>3, <2>4
<1>15. QED
  BY <1>11, <1>12, <1>13, <1>14 DEF WriteInv

\* A step of the provider or of another program: the records and functions stay,
\* and no event that is gone comes back.
LEMMA ProviderKeeps ==
  ASSUME TypeOK, WriteInv, write' = write, task' = task, wire' \subseteq wire, Marks',
         \A v \in Writes : Function(v)' /\ Covered(v)' /\ (landed[v] = 1 => landed'[v] = 1),
         \A e \in Targets : e \in Events \/ landed[e] = 1 =>
           (~event[e].present => ~event'[e].present)
  PROVE  WriteInv'
<1>1. \A v \in Writes : (Reserved(v)' <=> Reserved(v)) /\ (Alive(v)' <=> Alive(v)) /\ (Deleted(v)' <=> Deleted(v))
  BY DEF Reserved, Alive, Deleted
<1>2. ASSUME NEW v \in Writes PROVE Aim(v)'
  <2>1. Aim(v) /\ write[v].target \in Targets
    BY DEF WriteInv, TypeOK, Write
  <2>2. Deleted(v) => write[v].action # "create"
    BY DEF Deleted
  <2>3. QED
    BY <1>1, <2>1, <2>2 DEF Aim, Targets
<1>3. \A u, v \in Writes : u # v => Apart(u, v)'
  BY <1>1 DEF WriteInv, Apart
<1>4. QED
  BY <1>2, <1>3 DEF WriteInv

LEMMA RequestKeeps ==
  ASSUME TypeOK, WriteInv, NEW w \in Writes, Land(w) \/ Refuse(w) \/ Lose(w)
  PROVE  WriteInv'
<1>0. write[w].target \in Targets /\ event[write[w].target] \in Event
  BY DEF TypeOK, Write
<1>1. /\ w \in wire /\ wire' = wire \ {w} /\ UNCHANGED <<write, task>>
      /\ \A v \in Writes \ {w} : reply'[v] = reply[v]
  BY DEF Land, Refuse, Lose, Over, TypeOK
<1>2. Function(w) /\ Covered(w) /\ Aim(w) /\ Marks
  BY DEF WriteInv
<1>3. landed[w] = 0 /\ reply[w] = "none" /\ Claim(w) = "maybe"
  BY <1>1, <1>2 DEF Covered, Function, Claim
<1>4. \A v \in Writes : Claim(v)' = Claim(v)
  BY <1>1 DEF Claim
<1>5. CASE Land(w)
  <2>1. landed'[w] = 1 /\ \A v \in Writes \ {w} : landed'[v] = landed[v]
    BY <1>3, <1>5 DEF Land, TypeOK
  <2>2. reply'[w] = IF task[w].at = "answer" THEN "done" ELSE "none"
    BY <1>3, <1>5 DEF Land, Over, TypeOK
  <2>3. \A v \in Writes : Covered(v)'
    BY <1>1, <1>3, <1>4, <2>1 DEF WriteInv, Covered
  <2>4. Function(w)'
    BY <1>1, <1>2, <2>1, <2>2 DEF Function
  <2>5. \A v \in Writes \ {w} : Function(v)'
    BY <1>1, <2>1 DEF WriteInv, Function
  <2>6. /\ \A f \in Targets \ {write[w].target} : event'[f] = event[f]
        /\ event'[write[w].target].present => event'[write[w].target].marker = w
        /\ event'[write[w].target].marker \in {w, event[write[w].target].marker}
    BY <1>0, <1>5 DEF Land, TypeOK, Event
  <2>7. \A v \in Writes : landed[v] = 1 => landed'[v] = 1
    BY <2>1
  <2>8. write[w].target \in Writes => landed'[write[w].target] = 1
    <3>1. CASE write[w].action = "create"
      BY <1>2, <2>1, <3>1 DEF Aim
    <3>2. CASE write[w].action # "create"
      BY <1>2, <2>7, <3>2, CalendarAssumption DEF Aim
    <3>3. QED
      BY <3>1, <3>2
  <2>9. Marks'
    <3>1. \A f \in Targets : event[f].marker \in Writes \cup {Nobody}
      BY DEF TypeOK, Event
    <3>2. \A f \in Targets : event'[f].marker # Nobody => landed'[event'[f].marker] = 1
      BY <1>2, <2>1, <2>6, <2>7, <3>1 DEF Marks
    <3>3. \A v \in Writes : task'[v].seen.marker # Nobody => landed'[task'[v].seen.marker] = 1
      <4>1. \A v \in Writes : task[v].seen.marker \in Writes \cup {Nobody}
        BY DEF TypeOK, Task, Event
      <4>2. QED
        BY <1>1, <1>2, <2>7, <4>1 DEF Marks
    <3>4. \A v \in Writes : event'[v].present \/ event'[v].version > 0 => landed'[v] = 1
      BY <1>2, <2>6, <2>7, <2>8 DEF Marks, Targets
    <3>5. QED
      BY <3>2, <3>3, <3>4 DEF Marks
  <2>10. write[w].target \in Events \/ landed[write[w].target] = 1 => event[write[w].target].present
    <3>1. CASE write[w].action = "create"
      BY <1>2, <1>3, <3>1, CalendarAssumption DEF Aim
    <3>2. CASE write[w].action # "create"
      BY <1>5, <3>2 DEF Land, Fits
    <3>3. QED
      BY <3>1, <3>2
  <2>11. QED
    BY <1>1, <2>3, <2>4, <2>5, <2>6, <2>7, <2>9, <2>10, ProviderKeeps
<1>6. CASE Refuse(w) \/ Lose(w)
  <2>1. UNCHANGED <<event, landed>>
    BY <1>6 DEF Refuse, Lose
  <2>2. /\ reply'[w] \in {"none", "changed", "denied"}
        /\ reply'[w] # "none" => task[w].at = "answer"
    BY <1>3, <1>6 DEF Refuse, Lose, Over, TypeOK
  <2>3. \A v \in Writes : Covered(v)'
    BY <1>1, <1>4, <2>1 DEF WriteInv, Covered
  <2>4. Function(w)'
    BY <1>1, <1>2, <1>3, <2>1, <2>2 DEF Function
  <2>5. \A v \in Writes \ {w} : Function(v)'
    BY <1>1, <2>1 DEF WriteInv, Function
  <2>6. Marks'
    BY <1>1, <1>2, <2>1 DEF Marks
  <2>7. QED
    BY <1>1, <2>1, <2>3, <2>4, <2>5, <2>6, ProviderKeeps
<1>7. QED
  BY <1>5, <1>6

LEMMA EditKeeps ==
  ASSUME TypeOK, WriteInv, NEW e \in Targets, NEW present \in BOOLEAN, Edit(e, present)
  PROVE  WriteInv'
<1>1. UNCHANGED <<write, task, wire, reply, landed>> /\ event[e].present
  BY DEF Edit
<1>2. /\ \A f \in Targets \ {e} : event'[f] = event[f]
      /\ event'[e].marker = event[e].marker
  BY DEF Edit, TypeOK, Event
<1>3. \A v \in Writes : Function(v)' /\ Covered(v)'
  BY <1>1 DEF WriteInv, Function, Covered, Claim
<1>4. Marks'
  BY <1>1, <1>2 DEF WriteInv, Marks, Targets
<1>5. QED
  BY <1>1, <1>2, <1>3, <1>4, ProviderKeeps

\* What a restart makes of the records: nothing that was sent is called unsent.
LEMMA RestartKeeps == TypeOK /\ WriteInv /\ Restart => WriteInv'
<1> SUFFICES ASSUME TypeOK, WriteInv, Restart PROVE WriteInv'
  OBVIOUS
<1>1. UNCHANGED <<event, wire, landed>>
  BY DEF Restart
<1>2. \A w \in Writes : task'[w] = Idle /\ reply'[w] = "none" /\ write'[w] = Recovered(write[w])
  BY DEF Restart
<1>3. \A w \in Writes :
        /\ write'[w].draft = write[w].draft /\ write'[w].target = write[w].target
        /\ write'[w].action = write[w].action /\ write'[w].late = write[w].late
        /\ write'[w].attempted = write[w].attempted
        /\ write'[w].state = CASE write[w].state = "preparing" -> "failed"
                               [] write[w].state = "applying" ->
                                    IF write[w].attempted THEN "unknown" ELSE "failed"
                               [] OTHER -> write[w].state
  <2>1. \A x \in Write :
          /\ Recovered(x).draft = x.draft /\ Recovered(x).target = x.target
          /\ Recovered(x).action = x.action /\ Recovered(x).late = x.late
          /\ Recovered(x).attempted = x.attempted
          /\ Recovered(x).state = CASE x.state = "preparing" -> "failed"
                                    [] x.state = "applying" -> IF x.attempted THEN "unknown" ELSE "failed"
                                    [] OTHER -> x.state
    BY DEF Recovered, Write
  <2>2. QED
    BY <1>2, <2>1 DEF TypeOK
<1>4. \A w \in Writes :
        /\ Reserved(w)' => Reserved(w) /\ write'[w].state # "preparing" /\ write[w].state # "preparing"
        /\ Alive(w)' => Alive(w)
        /\ Deleted(w)' <=> Deleted(w)
  BY <1>3 DEF Reserved, Alive, Deleted
<1>5. \A w \in Writes : Function(w)'
  BY <1>2, <1>3, IdleFields DEF WriteInv, Function
<1>6. \A w \in Writes : Covered(w)'
  BY <1>1, <1>3 DEF WriteInv, Covered, Claim
<1>7. \A w \in Writes : Aim(w)'
  BY <1>1, <1>2, <1>3, <1>4, IdleFields DEF WriteInv, Aim
<1>8. Marks'
  BY <1>1, <1>2, IdleFields DEF WriteInv, Marks, Absent
<1>9. \A v, w \in Writes : v # w => Apart(v, w)'
  BY <1>1, <1>3, <1>4 DEF WriteInv, Apart
<1>10. QED
  BY <1>5, <1>6, <1>7, <1>8, <1>9 DEF WriteInv

LEMMA WriteInvStands == WriteInv /\ UNCHANGED calendarVars => WriteInv'
BY DEF calendarVars, WriteInv, Function, Covered, Claim, Aim, Marks, Apart, Reserved, Alive, Deleted

LEMMA WriteInvKept == TypeOK /\ WriteInv /\ [Next]_vars => WriteInv'
<1> SUFFICES ASSUME TypeOK, WriteInv, [Next]_vars PROVE WriteInv'
  OBVIOUS
<1>1. ASSUME NEW w \in Writes, WriteStep(w) PROVE WriteInv'
  <2>1. \A e \in Targets : event[e].version \in Nat
    BY DEF TypeOK, Event
  <2>2. QED
    BY <1>1, PrepareKeeps, FunctionEnds, FunctionGoesOn, OwnersWord, RequestKeeps DEF WriteStep
<1>2. CASE World
  BY <1>2, WriteInvStands, EditKeeps, RestartKeeps DEF World, Close
<1>3. CASE UNCHANGED vars
  BY <1>3, WriteInvStands DEF vars
<1>4. QED
  BY <1>1, <1>2, <1>3 DEF Next

LEMMA WriteInvHolds == Spec => []WriteInv
<1>1. Init => WriteInv
  <2> SUFFICES ASSUME Init PROVE WriteInv
    OBVIOUS
  <2>1. \A w \in Writes :
          /\ write[w].state = "none" /\ ~write[w].attempted /\ write[w].action = "create"
          /\ write[w].target = w /\ task[w] = Idle /\ w \notin wire /\ landed[w] = 0 /\ reply[w] = "none"
    BY DEF Init, NoWrite
  <2>2. \A w \in Writes : Function(w) /\ Covered(w) /\ Aim(w)
    BY <2>1, IdleFields DEF Function, Covered, Claim, Aim, Deleted
  <2>3. Marks
    BY <2>1, IdleFields, CalendarAssumption DEF Init, Marks, Absent, Targets
  <2>4. \A v, w \in Writes : Apart(v, w)
    BY <2>1 DEF Apart, Reserved, Alive, Deleted
  <2>5. QED
    BY <2>2, <2>3, <2>4 DEF WriteInv
<1>2. QED
  BY <1>1, WriteInvKept, CalendarTypes, PTL DEF Spec

\* A kept draft makes one event in the calendar, however often it is prepared,
\* refused, lost and prepared again (the service's duplicate check).
THEOREM DraftMakesOneEvent == Spec => []OneEventPerDraft
<1>1. WriteInv => OneEventPerDraft
  <2> SUFFICES ASSUME WriteInv, NEW v \in Writes, NEW w \in Writes, v # w,
                      write[v].draft = write[w].draft,
                      write[v].action = "create", write[w].action = "create"
               PROVE  landed[v] + landed[w] <= 1
    BY DEF OneEventPerDraft
  <2>1. Covered(v) /\ Covered(w) /\ Apart(v, w)
    BY DEF WriteInv
  <2>2. \A u \in {v, w} : landed[u] = 1 => Alive(u)
    BY <2>1 DEF Covered, Claim, Alive, Reserved
  <2>3. landed[v] = 0 \/ landed[w] = 0
    BY <2>1, <2>2 DEF Covered, Apart
  <2>4. QED
    BY <2>1, <2>3 DEF Covered
<1>2. QED
  BY <1>1, WriteInvHolds, PTL

\* While a request for an event may still arrive, no other change of it is applied
\* (the reservation of the event, over lost answers and restarts).
THEOREM EventHasOneHand == Spec => []OneHandPerEvent
<1>1. TypeOK /\ WriteInv => OneHandPerEvent
  <2> SUFFICES ASSUME TypeOK, WriteInv, NEW v \in Writes, NEW w \in Writes, v # w,
                      write[v].target = write[w].target, v \in wire
               PROVE  w \notin wire /\ (write[w].state = "applying" => write[w].action = "create")
    BY DEF OneHandPerEvent
  <2>1. /\ Covered(v) /\ Covered(w) /\ Aim(v) /\ Aim(w)
        /\ Apart(v, w) /\ Apart(w, v)
    BY DEF WriteInv
  <2>2. landed[v] = 0 /\ Claim(v) = "maybe"
    BY <2>1 DEF Covered, Claim
  <2>3. CASE write[w].action = "create"
    <3>1. write[v].target = w /\ write[v].action # "create"
      BY <2>1, <2>3 DEF Aim
    <3>2. landed[w] = 1
      BY <2>1, <3>1, CalendarAssumption DEF Aim
    <3>3. QED
      BY <2>1, <2>3, <3>2 DEF Covered
  <2>4. CASE write[w].action # "create"
    <3>1. write[v].action # "create"
      BY <2>1, <2>2, <2>4, CalendarAssumption DEF Aim
    <3>2. (Reserved(v) /\ write[v].state \in {"applying", "unknown"}) \/ Deleted(v)
      BY <2>2 DEF Claim, Reserved, Deleted
    <3>3. w \in wire => (Reserved(w) /\ write[w].state \in {"applying", "unknown"}) \/ Deleted(w)
      BY <2>1 DEF Covered, Claim, Reserved, Deleted
    <3>4. write[w].state = "applying" => Reserved(w)
      BY DEF Reserved
    <3>5. CASE Deleted(v)
      BY <2>1, <2>4, <3>4, <3>5 DEF Apart
    <3>6. CASE ~Deleted(v)
      <4>1. Reserved(v) /\ write[v].state # "preparing"
        BY <3>2, <3>6
      <4>2. ~Reserved(w) /\ ~Deleted(w)
        BY <2>1, <2>4, <3>1, <4>1 DEF Apart
      <4>3. QED
        BY <3>3, <3>4, <4>2
    <3>7. QED
      BY <3>5, <3>6
  <2>5. QED
    BY <2>3, <2>4
<1>2. QED
  BY <1>1, CalendarTypes, WriteInvHolds, PTL

\* A request begins in one place.
LEMMA OnlyDispatchSends ==
  ASSUME TypeOK, [Next]_vars, NEW w \in Writes, w \in wire' \ wire
  PROVE  Dispatch(w)
<1>1. ASSUME NEW v \in Writes, WriteStep(v), ~Dispatch(v) PROVE wire' \subseteq wire
  <2>1. CASE \E x, kind, g : Begins(v, x, kind, g)
    BY <2>1 DEF Begins
  <2>2. CASE \E t : Tasks(v, t)
    BY <2>2 DEF Tasks
  <2>3. CASE \E s : Ends(v, s)
    BY <2>3 DEF Ends
  <2>4. CASE ReviewLapses(v) \/ CancelReview(v)
    BY <2>4 DEF ReviewLapses, CancelReview
  <2>5. CASE Land(v) \/ Refuse(v) \/ Lose(v)
    BY <2>5 DEF Land, Refuse, Lose, Over
  <2>6. Token(v) \/ ReadEvent(v) => \E t : Tasks(v, t)
    BY DEF Token, ReadEvent
  <2>7. (\/ Fails(v) \/ Prepared(v) \/ Conflict(v) \/ Confirmed(v)
         \/ Refused(v) \/ Unclear(v) \/ Observed(v)) => \E s : Ends(v, s)
    BY DEF Fails, Prepared, Conflict, Confirmed, Refused, Unclear, Observed
  <2>8. Confirm(v) \/ Reconcile(v) => \E x, kind, g : Begins(v, x, kind, g)
    BY DEF Confirm, Reconcile
  <2>9. ASSUME NEW i, NEW d, NEW a, NEW e, NEW opened, Prepare(v, i, d, a, e, opened)
        PROVE  \E x, kind, g : Begins(v, x, kind, g)
    BY <2>9 DEF Prepare
  <2>10. QED
    BY <1>1, <2>1, <2>2, <2>3, <2>4, <2>5, <2>6, <2>7, <2>8, <2>9 DEF WriteStep
<1>2. World => wire' = wire
  BY DEF World, Close, Edit, Restart, calendarVars
<1>3. UNCHANGED vars => wire' = wire
  BY DEF vars, calendarVars
<1>4. ASSUME NEW v \in Writes, Dispatch(v) PROVE v = w
  BY <1>4 DEF Dispatch
<1>5. QED
  BY <1>1, <1>2, <1>3, <1>4 DEF Next

ConsentToWrite ==
  \A w \in wire' \ wire :
    LET i == Who(w) IN
    /\ account[i].generation = write[w].generation
    /\ account[i].state \in {"connected", "refreshing"} /\ account[i].write
    /\ credential[i].generation = write[w].generation
    /\ credential[i].version = task[w].version
    /\ ~held /\ ~closed

\* A calendar request leaves only under the connection its review was prepared
\* with, still connected and permitted to write, with the tokens its last read
\* used, and neither during an update hold nor after close.
THEOREM RequestsHaveConsent == Spec => WrittenUnderConsent
<1>1. TypeOK /\ TypeOK' /\ WriteInv /\ RefreshInv /\ [Next]_vars => ConsentToWrite
  <2> SUFFICES ASSUME TypeOK, TypeOK', WriteInv, RefreshInv, [Next]_vars, NEW w \in wire' \ wire
               PROVE  /\ account[Who(w)].generation = write[w].generation
                      /\ account[Who(w)].state \in {"connected", "refreshing"} /\ account[Who(w)].write
                      /\ credential[Who(w)].generation = write[w].generation
                      /\ credential[Who(w)].version = task[w].version
                      /\ ~held /\ ~closed
    BY DEF ConsentToWrite
  <2>1. w \in Writes
    BY DEF TypeOK
  <2>2. Dispatch(w)
    BY <2>1, OnlyDispatchSends
  <2>3. Who(w) \in Identities
    BY <2>1 DEF Who, TypeOK, Write
  <2>4. task[w].generation = write[w].generation
    BY <2>1, <2>2 DEF Dispatch, WriteInv, Function
  <2>5. /\ Current(Who(w), task[w].generation) /\ account[Who(w)].write
        /\ credential[Who(w)].version = task[w].version /\ ~held
    BY <2>2 DEF Dispatch, Allowed, Permitted
  <2>6. QED
    BY <2>3, <2>4, <2>5 DEF Current, RefreshInv
<1>2. QED
  BY <1>1, CalendarTypes, WriteInvHolds, RefreshInvHolds, PTL DEF Spec, WrittenUnderConsent, ConsentToWrite

-----------------------------------------------------------------------------
(* Each write implements DurableEffect.                                    *)

Shown == INSTANCE DurableEffectProofs WITH Effects <- Writes, effect <- Abstract

\* What a step does to one operation, as its record, its request and its change
\* tell it.
Turn(w) ==
  LET from(c, d) == Claim(w) = c /\ Claim(w)' = d
      quiet      == w \notin wire /\ w \notin wire' /\ landed'[w] = landed[w] IN
  \/ Claim(w)' = Claim(w) /\ (w \in wire' <=> w \in wire) /\ landed'[w] = landed[w]
  \/ from("unsent", "pending") /\ quiet
  \/ from("pending", "maybe") /\ w \notin wire /\ w \in wire' /\ landed'[w] = landed[w]
  \/ from("pending", "unsent") /\ quiet
  \/ from("maybe", "unsent") /\ quiet /\ landed[w] = 0
  \/ from("maybe", "known") /\ quiet /\ landed[w] = 1
  \/ /\ from("maybe", "maybe") /\ w \in wire /\ w \notin wire'
     /\ landed'[w] \in {landed[w], landed[w] + 1}

LEMMA TurnIsMove ==
  ASSUME NEW w \in Writes, landed[w] \in Nat, Turn(w)
  PROVE  Abstract'[w] = Abstract[w] \/ Promise!Move(Abstract[w], Abstract'[w])
<1> DEFINE n == landed[w]
<1>1. /\ Abstract[w] = Shown!E(Claim(w), IF w \in wire THEN 1 ELSE 0, landed[w])
      /\ Abstract'[w] = Shown!E(Claim(w)', IF w \in wire' THEN 1 ELSE 0, landed'[w])
  BY DEF Abstract, Shown!E
<1>2. \A x, y : Shown!Move(x, y) <=> Promise!Move(x, y)
  BY DEF Promise!Move, Promise!Ask, Promise!Dispatch, Promise!Withdraw, Promise!Doubt, Promise!Refuse,
         Promise!Learn, Promise!Land, Promise!Lose, Shown!Move, Shown!Ask, Shown!Dispatch,
         Shown!Withdraw, Shown!Doubt, Shown!Refuse, Shown!Learn, Shown!Land, Shown!Lose
<1>3. \A m \in Nat :
        /\ Shown!Move(Shown!E("unsent", 0, m), Shown!E("pending", 0, m))
        /\ Shown!Move(Shown!E("pending", 0, m), Shown!E("maybe", 1, m))
        /\ Shown!Move(Shown!E("pending", 0, m), Shown!E("unsent", 0, m))
        /\ Shown!Move(Shown!E("maybe", 0, 0), Shown!E("unsent", 0, 0))
        /\ Shown!Move(Shown!E("maybe", 0, 1), Shown!E("known", 0, 1))
        /\ \A c : /\ Shown!Move(Shown!E(c, 1, m), Shown!E(c, 0, m + 1))
                  /\ Shown!Move(Shown!E(c, 1, m), Shown!E(c, 0, m))
  BY Shown!Moves
<1>4. QED
  BY <1>1, <1>2, <1>3 DEF Turn

\* The end of a function, told to the owner.
LEMMA EndsTurn ==
  ASSUME TypeOK, WriteInv, NEW w \in Writes,
         \/ Fails(w) \/ Prepared(w) \/ Conflict(w)
         \/ Confirmed(w) \/ Refused(w) \/ Unclear(w) \/ Observed(w)
  PROVE  Turn(w)
<1>0. task[w].kind \in Kinds /\ reply[w] \in {"none", "done", "changed", "denied"}
  BY DEF TypeOK, Task
<1>1. Function(w) /\ Covered(w) /\ Aim(w) /\ Marks
  BY DEF WriteInv
<1>2. \A s : Ends(w, s) => /\ UNCHANGED <<wire, landed>>
                           /\ write'[w].state = s /\ write'[w].action = write[w].action
  BY StateFields DEF Ends
<1>3. CASE Fails(w)
  <2>1. task[w].at \in {"refused", "read", "seen", "token"}
    BY <1>3 DEF Fails
  <2>2. CASE task[w].kind = "check"
    <3>1. Ends(w, "unknown") /\ write[w].state = "unknown"
      BY <1>1, <1>3, <2>2 DEF Fails, Function
    <3>2. QED
      BY <1>2, <3>1 DEF Turn, Claim
  <2>3. CASE task[w].kind # "check"
    <3>1. task[w].kind \in {"prepare", "apply"}
      BY <1>0, <1>1, <2>1, <2>3 DEF Function, Kinds
    <3>2. write[w].state \in {"preparing", "applying"} /\ ~write[w].attempted
      BY <1>1, <2>1, <3>1 DEF Function
    <3>3. Ends(w, "failed")
      BY <1>3, <2>3 DEF Fails
    <3>4. QED
      BY <1>1, <1>2, <3>2, <3>3 DEF Turn, Claim, Covered
  <2>4. QED
    BY <2>2, <2>3
<1>4. CASE Prepared(w)
  <2>1. write[w].state = "preparing" /\ Ends(w, "review")
    BY <1>1, <1>4 DEF Prepared, Function
  <2>2. QED
    BY <1>2, <2>1 DEF Turn, Claim
<1>5. CASE Conflict(w)
  <2>1. write[w].state = "applying" /\ ~write[w].attempted /\ Ends(w, "conflict")
    BY <1>1, <1>5 DEF Conflict, Function
  <2>2. QED
    BY <1>1, <1>2, <2>1 DEF Turn, Claim, Covered
<1>6. CASE Confirmed(w)
  <2>1. write[w].state = "applying" /\ write[w].attempted /\ landed[w] = 1 /\ Ends(w, "confirmed")
    BY <1>1, <1>6 DEF Confirmed, Function
  <2>2. QED
    BY <1>1, <1>2, <2>1 DEF Turn, Claim, Covered
<1>7. CASE Refused(w)
  <2>1. write[w].state = "applying" /\ write[w].attempted /\ landed[w] = 0 /\ w \notin wire
    BY <1>1, <1>7 DEF Refused, Function
  <2>2. Ends(w, "conflict") \/ Ends(w, "failed")
    BY <1>7 DEF Refused
  <2>3. QED
    BY <1>2, <2>1, <2>2 DEF Turn, Claim
<1>8. CASE Unclear(w)
  <2>1. write[w].state = "applying" /\ write[w].attempted /\ Ends(w, "unknown")
    BY <1>1, <1>8 DEF Unclear, Function
  <2>2. QED
    BY <1>2, <2>1 DEF Turn, Claim
<1>9. CASE Observed(w)
  <2>1. write[w].state = "unknown" /\ Ends(w, "observed")
    BY <1>1, <1>9 DEF Observed, Function
  <2>2. CASE write[w].action = "delete"
    BY <1>2, <2>1, <2>2 DEF Turn, Claim
  <2>3. CASE write[w].action # "delete"
    <3>1. task[w].seen.marker = w
      BY <1>9, <2>3 DEF Observed, Shows
    <3>2. landed[w] = 1
      BY <1>1, <3>1, CalendarAssumption DEF Marks
    <3>3. QED
      BY <1>1, <1>2, <2>1, <2>3, <3>2 DEF Turn, Claim, Covered
  <2>4. QED
    BY <2>2, <2>3
<1>10. QED
  BY <1>3, <1>4, <1>5, <1>6, <1>7, <1>8, <1>9

\* The owner's commands and the other steps of the function and of its request.
LEMMA WorkTurns ==
  ASSUME TypeOK, WriteInv, NEW w \in Writes,
         \/ \E i \in Identities, d \in Drafts, a \in Actions, e \in Targets :
              \E opened \in 0 .. event[e].version : Prepare(w, i, d, a, e, opened)
         \/ Token(w) \/ ReadEvent(w) \/ ReviewLapses(w) \/ CancelReview(w) \/ Confirm(w)
         \/ Dispatch(w) \/ Reconcile(w) \/ Land(w) \/ Refuse(w) \/ Lose(w)
  PROVE  Turn(w)
<1>1. Function(w) /\ Covered(w) /\ landed[w] \in Nat /\ write[w] \in Write
  BY DEF WriteInv, TypeOK
<1>2. \A x, kind, g : Begins(w, x, kind, g) => write'[w] = x /\ UNCHANGED <<wire, landed>>
  BY DEF Begins, TypeOK
<1>3. CASE \E i \in Identities, d \in Drafts, a \in Actions, e \in Targets :
             \E opened \in 0 .. event[e].version : Prepare(w, i, d, a, e, opened)
  <2>1. write[w].state = "none" /\ write'[w].state = "preparing" /\ UNCHANGED <<wire, landed>>
    BY <1>2, <1>3 DEF Prepare
  <2>2. QED
    BY <2>1 DEF Turn, Claim
<1>4. CASE Token(w) \/ ReadEvent(w)
  BY <1>4 DEF Token, ReadEvent, Tasks, Turn, Claim
<1>5. CASE ReviewLapses(w) \/ CancelReview(w)
  <2>1. /\ write[w].state = "review" /\ write'[w].state \in {"review", "cancelled"}
        /\ UNCHANGED <<wire, landed>>
    BY <1>1, <1>5 DEF ReviewLapses, CancelReview, TypeOK, Write
  <2>2. QED
    BY <2>1 DEF Turn, Claim
<1>6. CASE Confirm(w)
  <2>1. /\ write[w].state = "review" /\ write'[w] = [write[w] EXCEPT !.state = "applying"]
        /\ UNCHANGED <<wire, landed>>
    BY <1>2, <1>6 DEF Confirm
  <2>2. write'[w].state = "applying" /\ write'[w].attempted = write[w].attempted
    BY <1>1, <2>1 DEF Write
  <2>3. QED
    BY <1>1, <2>1, <2>2 DEF Turn, Claim, Covered, Function
<1>7. CASE Dispatch(w)
  <2>1. /\ write[w].state = "applying" /\ ~write[w].attempted
        /\ write'[w].state = "applying" /\ write'[w].attempted
        /\ w \in wire' /\ landed' = landed
    BY <1>1, <1>7 DEF Dispatch, Function, TypeOK, Write
  <2>2. QED
    BY <1>1, <2>1 DEF Turn, Claim, Covered
<1>8. CASE Reconcile(w)
  <2>1. write'[w] = write[w] /\ UNCHANGED <<wire, landed>>
    BY <1>2, <1>8 DEF Reconcile
  <2>2. QED
    BY <2>1 DEF Turn, Claim
<1>9. CASE Land(w) \/ Refuse(w) \/ Lose(w)
  <2>1. w \in wire /\ w \notin wire' /\ write' = write /\ landed'[w] \in {landed[w], landed[w] + 1}
    BY <1>9 DEF Land, Refuse, Lose, Over, TypeOK
  <2>2. Claim(w) = "maybe" /\ Claim(w)' = "maybe"
    BY <1>1, <2>1 DEF Covered, Claim
  <2>3. QED
    BY <2>1, <2>2 DEF Turn
<1>10. QED
  BY <1>3, <1>4, <1>5, <1>6, <1>7, <1>8, <1>9

\* A step of one operation is not seen in another.
LEMMA OthersStand ==
  ASSUME TypeOK, NEW v \in Writes, WriteStep(v), NEW w \in Writes, w # v
  PROVE  Turn(w)
<1> DEFINE Still == write'[w] = write[w] /\ (w \in wire' <=> w \in wire) /\ landed'[w] = landed[w]
<1>1. \A x, kind, g : Begins(v, x, kind, g) => Still
  BY DEF Begins, TypeOK
<1>2. \A t : Tasks(v, t) => Still
  BY DEF Tasks
<1>3. \A s : Ends(v, s) => Still
  BY DEF Ends, TypeOK
<1>4. ReviewLapses(v) \/ CancelReview(v) \/ Dispatch(v) => Still
  BY DEF ReviewLapses, CancelReview, Dispatch, TypeOK
<1>5. Land(v) \/ Refuse(v) \/ Lose(v) => Still
  BY DEF Land, Refuse, Lose, Over, TypeOK
<1>6. Token(v) \/ ReadEvent(v) => \E t : Tasks(v, t)
  BY DEF Token, ReadEvent
<1>7. (\/ Fails(v) \/ Prepared(v) \/ Conflict(v) \/ Confirmed(v)
       \/ Refused(v) \/ Unclear(v) \/ Observed(v)) => \E s : Ends(v, s)
  BY DEF Fails, Prepared, Conflict, Confirmed, Refused, Unclear, Observed
<1>8. Confirm(v) \/ Reconcile(v) => \E x, kind, g : Begins(v, x, kind, g)
  BY DEF Confirm, Reconcile
<1>9. ASSUME NEW i, NEW d, NEW a, NEW e, NEW opened, Prepare(v, i, d, a, e, opened)
      PROVE  \E x, kind, g : Begins(v, x, kind, g)
  BY <1>9 DEF Prepare
<1> HIDE DEF Still
<1>10. Still
  BY <1>1, <1>2, <1>3, <1>4, <1>5, <1>6, <1>7, <1>8, <1>9 DEF WriteStep
<1>11. QED
  BY <1>10 DEF Still, Turn, Claim

\* Closing, other programs and the account leave every operation as it is; a
\* restart withdraws the requests that were not sent.
LEMMA WorldTurns ==
  ASSUME TypeOK, WriteInv, World \/ UNCHANGED vars, NEW w \in Writes
  PROVE  Turn(w)
<1>1. CASE UNCHANGED <<write, wire, landed>>
  BY <1>1 DEF Turn, Claim
<1>2. CASE Restart
  <2>1. write'[w] = Recovered(write[w]) /\ UNCHANGED <<wire, landed>>
    BY <1>2 DEF Restart
  <2>2. /\ write[w].state = "preparing" => write'[w].state = "failed"
        /\ write[w].state = "applying" =>
             write'[w].state = IF write[w].attempted THEN "unknown" ELSE "failed"
        /\ write[w].state \notin {"preparing", "applying"} => write'[w] = write[w]
    BY <2>1 DEF Recovered, TypeOK, Write
  <2>3. Covered(w)
    BY DEF WriteInv
  <2>4. QED
    BY <2>1, <2>2, <2>3 DEF Turn, Claim, Covered
<1>3. World => UNCHANGED <<write, wire, landed>> \/ Restart
  BY DEF World, Close, Edit, calendarVars
<1>4. UNCHANGED vars => UNCHANGED <<write, wire, landed>>
  BY DEF vars, calendarVars
<1>5. QED
  BY <1>1, <1>2, <1>3, <1>4

\* Every calendar change implements DurableEffect: it takes place at most once,
\* and its record never claims less than what may have happened, whatever is
\* refused, lost, checked again or restarted.
THEOREM WritesAreDurable == Spec => EachWriteIsDurable
<1>1. Init => Promise!Init
  <2>1. ASSUME Init, NEW w \in Writes
        PROVE  Abstract[w] = Promise!Untouched
    <3>1. write[w].state = "none" /\ w \notin wire /\ landed[w] = 0
      BY <2>1 DEF Init, NoWrite
    <3>2. QED
      BY <3>1 DEF Abstract, Claim, Promise!Untouched
  <2>2. Abstract = [w \in Writes |-> Abstract[w]]
    BY DEF Abstract
  <2>3. QED
    BY <2>1, <2>2 DEF Promise!Init
<1>2. TypeOK /\ WriteInv /\ [Next]_vars => [Promise!Next]_Abstract
  <2> SUFFICES ASSUME TypeOK, WriteInv, [Next]_vars PROVE Promise!Next
    OBVIOUS
  <2>1. ASSUME NEW w \in Writes PROVE Turn(w)
    <3>1. ASSUME NEW v \in Writes, WriteStep(v) PROVE Turn(w)
      BY <3>1, EndsTurn, WorkTurns, OthersStand DEF WriteStep
    <3>2. QED
      BY <3>1, WorldTurns DEF Next
  <2>2. \A w \in Writes : Abstract'[w] = Abstract[w] \/ Promise!Move(Abstract[w], Abstract'[w])
    BY <2>1, TurnIsMove DEF TypeOK
  <2>3. Abstract' = [w \in Writes |-> Abstract'[w]]
    BY DEF Abstract
  <2> HIDE DEF Abstract
  <2>4. QED
    BY <2>2, <2>3 DEF Promise!Next
<1>3. QED
  BY <1>1, <1>2, CalendarTypes, WriteInvHolds, PTL DEF Spec, EachWriteIsDurable, Promise!Spec
=============================================================================
