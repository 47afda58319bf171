------------------------------- MODULE Accounts -------------------------------
(***************************************************************************)
(* The connected accounts of one provider: signing in, refreshing a        *)
(* credential, disconnecting. Every function here awaits the provider two  *)
(* times, and the account may be disconnected, signed in again, refreshed  *)
(* or the service closed under it; what a reply may write is decided by    *)
(* what it was asked for, the generation and the revision then read.       *)
(*                                                                         *)
(* A generation names one connection and a version one set of tokens; both *)
(* are named by the revision of the account they were saved with. The      *)
(* steps are SignInStep, CredentialStep, Disconnect, Hold, CloseAccounts   *)
(* and RestartAccounts; the modules that use accounts compose them.        *)
(***************************************************************************)
EXTENDS Naturals, FiniteSets

CONSTANTS
  Identities,  \* people as the provider knows them
  SignIns,     \* sign-in attempts
  MaxRevision, \* bound: no refresh, denial or disconnection starts beyond it
  Anyone       \* a sign-in for no account in particular

ASSUME AccountAssumption == Anyone \notin Identities /\ MaxRevision \in Nat

VARIABLES
  account,    \* durable: the record of each account
  credential, \* durable: the tokens saved for each account
  attempt,    \* durable: the record of each sign-in
  signing,    \* the running function and the live entry of each sign-in
  refreshing, \* the refreshes under way
  closed,     \* the service is closing
  held        \* software update hold

accountVars == <<account, credential, attempt, signing, refreshing>>

AccountStates == {"none", "connected", "refreshing", "reconnect", "disconnected"}
AttemptStates == {"none", "preparing", "waiting", "exchanging",
                  "completed", "failed", "unknown", "expired", "cancelled"}
Account    == [state : AccountStates, generation : Nat, revision : Nat, write : BOOLEAN]
Credential == [generation : Nat, version : Nat, fresh : BOOLEAN]
Attempt    == [state : AttemptStates, late : BOOLEAN, expected : Identities \cup {Anyone},
               base : [Identities -> Nat], keep : Nat]
Signing    == [at : {"none", "prepare", "exchange", "profile"}, live : BOOLEAN]
Refresh    == [who : Identities, generation : Nat, revision : Nat, at : {"token", "profile"}]

NoAccount    == [state |-> "none", generation |-> 0, revision |-> 0, write |-> FALSE]
Connected    == [state |-> "connected", generation |-> 1, revision |-> 1, write |-> TRUE]
NoCredential == [generation |-> 0, version |-> 0, fresh |-> FALSE]
NoAttempt    == [state |-> "none", late |-> FALSE, expected |-> Anyone,
                 base |-> [i \in Identities |-> 0], keep |-> 0]
NotSigning   == [at |-> "none", live |-> FALSE]

\* The service finds accounts connected before, or none.
AccountInit ==
  /\ account \in [Identities -> {NoAccount, Connected}]
  /\ credential = [i \in Identities |->
       IF account[i] = NoAccount THEN NoCredential
       ELSE [generation |-> 1, version |-> 1, fresh |-> TRUE]]
  /\ attempt = [a \in SignIns |-> NoAttempt] /\ signing = [a \in SignIns |-> NotSigning]
  /\ refreshing = {} /\ closed = FALSE /\ held = FALSE

AccountTypeOK ==
  /\ account \in [Identities -> Account] /\ credential \in [Identities -> Credential]
  /\ attempt \in [SignIns -> Attempt] /\ signing \in [SignIns -> Signing]
  /\ refreshing \subseteq Refresh /\ closed \in BOOLEAN /\ held \in BOOLEAN

-----------------------------------------------------------------------------
(* Signing in. *)

Active(a) == attempt[a].state \in {"preparing", "waiting", "exchanging"}

\* Fault: a state the records of sign-ins do not have.
GivenUpInterrupted(a) == IF attempt[a].state = "exchanging" THEN "interrupted" ELSE "expired"

\* The state an attempt is left in when its time is over or the service ends.
GivenUp(a) == IF attempt[a].state = "exchanging" THEN "unknown" ELSE "expired"

Swept == {a \in SignIns : Active(a) /\ attempt[a].late}

\* The records, and the live entries, once the attempts of A are given up.
Ended(A)   == [a \in SignIns |-> IF a \in A THEN [attempt[a] EXCEPT !.state = GivenUp(a)] ELSE attempt[a]]
Stopped(A) == [a \in SignIns |-> IF a \in A THEN [signing[a] EXCEPT !.live = FALSE] ELSE signing[a]]

\* A sign-in, for one account or for whoever signs in, perhaps only to add a
\* permission to the connection there is. Late attempts are swept first.
Begin(a, i, upgrade) ==
  /\ ~held /\ ~closed /\ attempt[a].state = "none"
  /\ \A b \in SignIns : Active(b) => b \in Swept
  /\ i # Anyone => account[i].state # "none"
  /\ upgrade => i # Anyone /\ account[i].state = "connected" /\ credential[i] # NoCredential
  /\ attempt' = [Ended(Swept) EXCEPT ![a] =
       [state |-> "preparing", late |-> FALSE, expected |-> i,
        base |-> [j \in Identities |-> account[j].revision],
        keep |-> IF upgrade THEN account[i].generation ELSE 0]]
  /\ signing' = [Stopped(Swept) EXCEPT ![a] = [at |-> "prepare", live |-> TRUE]]
  /\ UNCHANGED <<account, credential, refreshing, closed, held>>

\* The callback address is ready, unless the attempt ended meanwhile.
Listen(a) ==
  /\ signing[a].at = "prepare"
  /\ signing' = [signing EXCEPT ![a].at = "none"]
  /\ attempt' = IF ~closed /\ signing[a].live /\ attempt[a].state = "preparing"
                THEN [attempt EXCEPT ![a].state = "waiting"] ELSE attempt
  /\ UNCHANGED <<account, credential, refreshing, closed, held>>

ListenFails(a) ==
  /\ signing[a].at = "prepare"
  /\ signing' = [signing EXCEPT ![a] = NotSigning]
  /\ attempt' = IF ~closed /\ attempt[a].state = "preparing"
                THEN [attempt EXCEPT ![a].state = "failed"] ELSE attempt
  /\ UNCHANGED <<account, credential, refreshing, closed, held>>

\* The browser comes back with a code, or with a refusal.
Callback(a, code) ==
  /\ attempt[a].state = "waiting" /\ signing[a].live /\ ~closed /\ ~attempt[a].late
  /\ attempt' = [attempt EXCEPT ![a].state = IF code THEN "exchanging" ELSE "failed"]
  /\ signing' = [signing EXCEPT ![a] = IF code THEN [@ EXCEPT !.at = "exchange"] ELSE NotSigning]
  /\ UNCHANGED <<account, credential, refreshing, closed, held>>

\* Whether the function that exchanges the code still works for its attempt.
Owned(a) == ~closed /\ signing[a].live /\ attempt[a].state = "exchanging"

Exchanged(a) ==
  /\ signing[a].at = "exchange" /\ Owned(a)
  /\ signing' = [signing EXCEPT ![a].at = "profile"]
  /\ UNCHANGED <<account, credential, attempt, refreshing, closed, held>>

\* Fault: what happened to the account since the sign-in began is not asked.
ChosenAnyway(a, i) ==
  attempt[a].expected \in {i, Anyone} /\ (attempt[a].keep # 0 => account[i].generation = attempt[a].keep)

\* The account signed in, as the attempt expected and as it was then.
Chosen(a, i) ==
  /\ attempt[a].expected \in {i, Anyone}
  /\ account[i].revision = attempt[a].base[i]
  /\ attempt[a].keep # 0 => account[i].generation = attempt[a].keep

\* The profile says who signed in; the scopes granted may leave out writing.
SignedIn(a, i, writes) ==
  /\ signing[a].at = "profile" /\ Owned(a) /\ ~attempt[a].late /\ Chosen(a, i)
  /\ LET rev == account[i].revision + 1
         gen == IF attempt[a].keep # 0 THEN attempt[a].keep ELSE rev IN
     /\ account' = [account EXCEPT ![i] =
          [state |-> "connected", generation |-> gen, revision |-> rev, write |-> writes]]
     /\ credential' = [credential EXCEPT ![i] = [generation |-> gen, version |-> rev, fresh |-> TRUE]]
  /\ attempt' = [attempt EXCEPT ![a].state = "completed"]
  /\ signing' = [signing EXCEPT ![a] = NotSigning]
  /\ UNCHANGED <<refreshing, closed, held>>

\* The provider refuses or does not answer, or the choice does not stand.
SignInFails(a) ==
  /\ signing[a].at \in {"exchange", "profile"}
  /\ attempt' \in IF ~closed /\ attempt[a].state = "exchanging"
                  THEN {[attempt EXCEPT ![a].state = s] : s \in {"failed", "unknown"}} ELSE {attempt}
  /\ signing' = [signing EXCEPT ![a] = NotSigning]
  /\ UNCHANGED <<account, credential, refreshing, closed, held>>

\* A reply nobody waits for any more.
SignInDropped(a) ==
  /\ \/ signing[a].at = "exchange" /\ ~Owned(a)
     \/ signing[a].at = "profile" /\ (~Owned(a) \/ attempt[a].late)
  /\ signing' = [signing EXCEPT ![a] = NotSigning]
  /\ UNCHANGED <<account, credential, attempt, refreshing, closed, held>>

Cancel(a) ==
  /\ ~closed /\ Active(a)
  /\ attempt' = [attempt EXCEPT ![a].state = "cancelled"]
  /\ signing' = Stopped({a})
  /\ UNCHANGED <<account, credential, refreshing, closed, held>>

\* Ten minutes pass, and the timer or a reader of the state notices.
Lapse(a) ==
  /\ Active(a) /\ ~attempt[a].late
  /\ attempt' = [attempt EXCEPT ![a].late = TRUE]
  /\ UNCHANGED <<account, credential, signing, refreshing, closed, held>>

Sweep ==
  /\ ~closed /\ Swept # {}
  /\ attempt' = Ended(Swept) /\ signing' = Stopped(Swept)
  /\ UNCHANGED <<account, credential, refreshing, closed, held>>

-----------------------------------------------------------------------------
(* Credentials. *)

\* The account is the connection a function was started for, and works.
Current(i, g) ==
  ~closed /\ account[i].generation = g /\ account[i].state \in {"connected", "refreshing"}

Become(i, s) ==
  [account EXCEPT ![i] = [@ EXCEPT !.state = s, !.revision = account[i].revision + 1]]

\* The access token is about to expire.
Age(i) ==
  /\ credential[i].fresh
  /\ credential' = [credential EXCEPT ![i].fresh = FALSE]
  /\ UNCHANGED <<account, attempt, signing, refreshing, closed, held>>

UnderWay(i, g) == {r \in refreshing : r.who = i /\ r.generation = g}

\* The token kept for a connection is too old, and nobody is refreshing it.
NeedsRefresh(i) == ~credential[i].fresh /\ UnderWay(i, account[i].generation) = {}

RefreshStarts(i) ==
  /\ account[i].revision < MaxRevision
  /\ account' = Become(i, "refreshing")
  /\ refreshing' = refreshing \cup
       {[who |-> i, generation |-> account[i].generation, revision |-> account[i].revision + 1, at |-> "token"]}

\* A reader of mail or of calendars needs a token.
StartRefresh(i) ==
  /\ Current(i, account[i].generation) /\ ~held
  /\ credential[i].generation = account[i].generation /\ NeedsRefresh(i)
  /\ RefreshStarts(i)
  /\ UNCHANGED <<credential, attempt, signing, closed, held>>

TokenReply(r) ==
  /\ r.at = "token" /\ Current(r.who, r.generation)
  /\ refreshing' = (refreshing \ {r}) \cup {[r EXCEPT !.at = "profile"]}
  /\ UNCHANGED <<account, credential, attempt, signing, closed, held>>

\* A refresh is saved only for the connection and the revision it began with.
Mine(r) == Current(r.who, r.generation) /\ account[r.who].revision = r.revision

Refreshed(r, writes) ==
  /\ r.at = "profile" /\ Mine(r)
  /\ account' = [account EXCEPT ![r.who] =
       [@ EXCEPT !.state = "connected", !.revision = r.revision + 1, !.write = writes]]
  /\ credential' = [credential EXCEPT ![r.who] =
       [generation |-> r.generation, version |-> r.revision + 1, fresh |-> TRUE]]
  /\ refreshing' = refreshing \ {r}
  /\ UNCHANGED <<attempt, signing, closed, held>>

\* Fault: a refresh that fails leaves the account as it is.
RefreshFailsQuietly(r) ==
  refreshing' = refreshing \ {r} /\ UNCHANGED <<account, credential, attempt, signing, closed, held>>

\* The provider fails, or the account is no longer what was refreshed.
RefreshFails(r) ==
  /\ account' = IF /\ ~closed /\ account[r.who].generation = r.generation
                   /\ account[r.who].state = "refreshing"
                THEN Become(r.who, "reconnect") ELSE account
  /\ refreshing' = refreshing \ {r}
  /\ UNCHANGED <<credential, attempt, signing, closed, held>>

\* A reader or a probe is told to sign in again, or no token can be refreshed.
Denied(i) ==
  /\ ~closed /\ account[i].state \in {"connected", "refreshing"}
  /\ account[i].revision < MaxRevision
  /\ account' = Become(i, "reconnect")
  /\ UNCHANGED <<credential, attempt, signing, refreshing, closed, held>>

Disconnect(i) ==
  /\ ~closed /\ account[i].state # "none" /\ account[i].revision < MaxRevision
  /\ account' = [account EXCEPT ![i] =
       [state |-> "disconnected", generation |-> @.revision + 1,
        revision |-> @.revision + 1, write |-> FALSE]]
  /\ credential' = [credential EXCEPT ![i] = NoCredential]
  /\ UNCHANGED <<attempt, signing, refreshing, closed, held>>

-----------------------------------------------------------------------------

Hold == held' = ~held /\ UNCHANGED <<account, credential, attempt, signing, refreshing, closed>>

CloseAccounts ==
  /\ ~closed /\ closed' = TRUE
  /\ attempt' = Ended({a \in SignIns : Active(a)}) /\ signing' = Stopped(SignIns)
  /\ UNCHANGED <<account, credential, refreshing, held>>

\* A new process over the saved records, after a close or after a crash.
RestartAccounts ==
  /\ closed' = FALSE /\ held' = FALSE
  /\ attempt' = Ended({a \in SignIns : Active(a)})
  /\ account' = [i \in Identities |->
       IF account[i].state = "refreshing" THEN Become(i, "reconnect")[i] ELSE account[i]]
  /\ signing' = [a \in SignIns |-> NotSigning] /\ refreshing' = {}
  /\ UNCHANGED credential

SignInStep ==
  \/ \E a \in SignIns :
       \/ \E i \in Identities \cup {Anyone}, upgrade \in BOOLEAN : Begin(a, i, upgrade)
       \/ \E code \in BOOLEAN : Callback(a, code)
       \/ \E i \in Identities, writes \in BOOLEAN : SignedIn(a, i, writes)
       \/ Listen(a) \/ ListenFails(a) \/ Exchanged(a) \/ SignInFails(a) \/ SignInDropped(a)
       \/ Cancel(a) \/ Lapse(a)
  \/ Sweep

CredentialStep ==
  \/ \E r \in refreshing :
       TokenReply(r) \/ RefreshFails(r) \/ \E writes \in BOOLEAN : Refreshed(r, writes)
  \/ \E i \in Identities : Age(i) \/ StartRefresh(i) \/ Denied(i)
=============================================================================
