----------------------------- MODULE CustomerAuth -----------------------------
(***************************************************************************)
(* Sign-in, sessions and the second factor of one customer account of      *)
(* services/api-access: the service (customer-auth.js) over its table      *)
(* (customer-auth-store.js).                                               *)
(*                                                                         *)
(* A request reads the account and acts on what it read later, in one      *)
(* conditional write or transaction; requests interleave between any two   *)
(* calls to the table and may stop at any of them.  The auth version of    *)
(* the account is what fences off a request that read too early: every     *)
(* change of the credentials raises it, and a session is accepted only     *)
(* while it has the version of the account.                                *)
(*                                                                         *)
(* A request is made once, and what it creates (a link, a session, a       *)
(* challenge, a password, an authenticator secret, a list of backup codes) *)
(* has its name.  Expiry and throttling, which only refuse more, are left  *)
(* out, and a presented secret is the right one or the request ends.  An   *)
(* account that does not exist yet reads as one of version 1 with nothing  *)
(* set up, and everything that needs the item creates it first.            *)
(*                                                                         *)
(* Definitions marked Fault are mistaken variants of the definition after  *)
(* them; no specification uses them.                                       *)
(***************************************************************************)
EXTENDS Integers, SequencesExt

CONSTANTS
  Requests,   \* bound: the requests
  Before,     \* names what was created before the first of them
  NoOne,
  Limit,      \* MFA_ATTEMPT_LIMIT
  CodeCount,  \* BACKUP_CODE_COUNT
  MaxStep     \* bound: the last time step of an authenticator

ASSUME CustomerAuthAssumption ==
  /\ Before \notin Requests /\ NoOne \notin Requests \cup {Before}
  /\ Limit \in Nat /\ CodeCount \in Nat /\ MaxStep \in Nat

Ids      == Requests \cup {Before}
Optional == Ids \cup {NoOne}

VARIABLES
  account,     \* the account item
  pending,     \* the secret of the pending authenticator setup
  links,       \* [Ids -> Nat], the version of a sign-in link, 0 when there is none
  sessions,    \* [Ids -> Sessions], version 0 when there is none
  challenges,  \* [Ids -> Challenges], version 0 when there is none
  pc,          \* [Requests -> Places], where a request is
  local,       \* [Requests -> Locals], what it works on
  spent        \* history: the proofs that opened a session or changed the authenticator

items == <<account, pending, links, sessions, challenges>>
calls == <<pc, local>>
vars  == <<items, calls, spent>>

\* What is good for one use: a link, a time step of a secret, a backup code of a list.
Links   == [kind : {"link"}, of : Ids, n : {0}]
Steps   == [kind : {"step"}, of : Ids, n : 1..MaxStep]
Codes   == [kind : {"code"}, of : Ids, n : 1..CodeCount]
Proofs  == Links \cup Steps \cup Codes
NoProof == [kind |-> "none", of |-> NoOne, n |-> 0]

Accounts   == [version : Nat, password : Optional, secret : Optional,
               lastStep : 0..MaxStep, codes : Seq(Codes)]
\* History in a session: the password and the secret that were last verified for it.
Sessions   == [version : Nat, revoked : BOOLEAN, password : Optional, factor : Optional]
Challenges == [version : Nat, attempts : 0..Limit, password : Optional]
Changes    == {"set", "begin", "confirm", "rotate", "disable", "revokeAll"}
Locals     == [op : Changes \cup {"none"}, on : Optional, saw : Accounts,
               proof : Proofs \cup {NoProof}, version : Nat]
Places     == {"new", "putLink", "openLink", "openPassword", "readMfa", "openMfa",
               "check", "putPending", "readPending", "read", "commit", "done"}

NewCodes(r) == [i \in 1..CodeCount |-> [kind |-> "code", of |-> r, n |-> i]]
NoCodes     == << >>

NoSession   == [version |-> 0, revoked |-> FALSE, password |-> NoOne, factor |-> NoOne]
NoChallenge == [version |-> 0, attempts |-> 0, password |-> NoOne]
Nothing     == [version |-> 0, password |-> NoOne, secret |-> NoOne, lastStep |-> 0,
                codes |-> NoCodes]
Blank       == [op |-> "none", on |-> NoOne, saw |-> Nothing, proof |-> NoProof,
                version |-> 0]

\* An account with a password and an authenticator or without, one session that is signed
\* in, one link that has been sent and, with an authenticator, one challenge.
Init ==
  /\ \E p \in {NoOne, Before}, s \in {NoOne, Before} :
       /\ s = Before => p = Before
       /\ account = [version |-> 1, password |-> p, secret |-> s, lastStep |-> 0,
                     codes |-> IF s = Before THEN NewCodes(Before) ELSE NoCodes]
       /\ sessions = [i \in Ids |-> IF i = Before
                        THEN [version |-> 1, revoked |-> FALSE, password |-> NoOne, factor |-> s]
                        ELSE NoSession]
       /\ challenges = [i \in Ids |-> IF i = Before /\ s = Before
                          THEN [version |-> 1, attempts |-> 0, password |-> p]
                          ELSE NoChallenge]
  /\ pending = NoOne
  /\ links = [i \in Ids |-> IF i = Before THEN 1 ELSE 0]
  /\ pc = [r \in Requests |-> "new"]
  /\ local = [r \in Requests |-> Blank]
  /\ spent = {}
------------------------------------------------------------------------------
(* Moves of a request *)

Saw(r) == local[r].saw

Goto(r, place, l) ==
  /\ pc' = [pc EXCEPT ![r] = place]
  /\ local' = [local EXCEPT ![r] = l]

\* The request answers, or is gone.
End(r) == Goto(r, "done", Blank)

\* A function may stop, and a refusal ends a request, before each of its calls.
Stop(r) ==
  /\ pc[r] \notin {"new", "done"}
  /\ End(r)
  /\ UNCHANGED <<items, spent>>

Spend(r) == spent' = spent \cup {local[r].proof}

\* authenticate: the session is read before the account.  Versions only grow and a session
\* never has a later one, so that the two reads are as good as one.
Accepted(s) == sessions[s].version = account.version /\ ~sessions[s].revoked
------------------------------------------------------------------------------
(* Signing in *)

\* requestMagicLink: the account is read for its version.
RequestLink(r) ==
  /\ pc[r] = "new"
  /\ Goto(r, "putLink", [Blank EXCEPT !.saw = account])
  /\ UNCHANGED <<items, spent>>

PutLink(r) ==
  /\ pc[r] = "putLink"
  /\ links' = [links EXCEPT ![r] = Saw(r).version]
  /\ End(r)
  /\ UNCHANGED <<account, pending, sessions, challenges, spent>>

\* magicState: a link of another version is refused.  A link never changes while it
\* exists, so it is read together with the account.
ReadLink(r, l) ==
  /\ pc[r] = "new"
  /\ links[l] = account.version
  /\ Goto(r, "openLink", [Blank EXCEPT !.on = l, !.saw = account,
                                       !.proof = [kind |-> "link", of |-> l, n |-> 0]])
  /\ UNCHANGED <<items, spent>>

\* Fault: the session gets the version of the moment it is put.
EnterNow(r, password) ==
  IF Saw(r).secret # NoOne
  THEN /\ challenges' = [challenges EXCEPT ![r] =
                           [version |-> account.version, attempts |-> 0, password |-> password]]
       /\ UNCHANGED sessions
  ELSE /\ sessions' = [sessions EXCEPT ![r] =
                         [version |-> account.version, revoked |-> FALSE,
                          password |-> password, factor |-> NoOne]]
       /\ UNCHANGED challenges

\* A first factor opens a session, or a challenge when the account that was read has an
\* authenticator; both get the version that was read.
Enter(r, password) ==
  IF Saw(r).secret # NoOne
  THEN /\ challenges' = [challenges EXCEPT ![r] =
                           [version |-> Saw(r).version, attempts |-> 0, password |-> password]]
       /\ UNCHANGED sessions
  ELSE /\ sessions' = [sessions EXCEPT ![r] =
                         [version |-> Saw(r).version, revoked |-> FALSE,
                          password |-> password, factor |-> NoOne]]
       /\ UNCHANGED challenges

\* consumeMagicLinkForAuth: one transaction with the deletion of the link.
OpenLink(r) ==
  /\ pc[r] = "openLink"
  /\ links[local[r].on] # 0
  /\ links' = [links EXCEPT ![local[r].on] = 0]
  /\ Enter(r, NoOne)
  /\ Spend(r)
  /\ End(r)
  /\ UNCHANGED <<account, pending>>

\* loginWithPassword, with the password of the account that is read.
ReadPassword(r) ==
  /\ pc[r] = "new"
  /\ account.password # NoOne
  /\ Goto(r, "openPassword", [Blank EXCEPT !.saw = account])
  /\ UNCHANGED <<items, spent>>

OpenPassword(r) ==
  /\ pc[r] = "openPassword"
  /\ Enter(r, Saw(r).password)
  /\ End(r)
  /\ UNCHANGED <<account, pending, links, spent>>
------------------------------------------------------------------------------
(* The second factor *)

\* Fault: the attempt is counted without looking at the limit.
AttemptFree(ch) == challenges[ch].version # 0

AttemptLeft(ch) == challenges[ch].version # 0 /\ challenges[ch].attempts < Limit

\* reserveMfaAttempt: counted before the code is looked at.
ReserveAttempt(r, ch) ==
  /\ pc[r] = "new"
  /\ AttemptLeft(ch)
  /\ challenges' = [challenges EXCEPT ![ch].attempts = @ + 1]
  /\ Goto(r, "readMfa", [Blank EXCEPT !.on = ch])
  /\ UNCHANGED <<account, pending, links, sessions, spent>>

\* mfaProof: a step that is later than the last one, or a backup code of the list.
ProofsOf(a) ==
  {p \in Steps : p.of = a.secret /\ p.n > a.lastStep} \cup ToSet(a.codes)

\* The version of a challenge never changes: it is taken from the item while that exists,
\* and a challenge that is gone cannot be consumed below.
ReadMfa(r) ==
  /\ pc[r] = "readMfa"
  /\ challenges[local[r].on].version = account.version
  /\ account.secret # NoOne
  /\ \E p \in ProofsOf(account) :
       Goto(r, "openMfa", [local[r] EXCEPT !.saw = account, !.proof = p])
  /\ UNCHANGED <<items, spent>>

\* The place of a code in the list that was read.
IndexOf(r) == CHOOSE i \in 1..Len(Saw(r).codes) : Saw(r).codes[i] = local[r].proof

\* Fault: the code at the index is not compared again.
ProofStandsByIndex(r) ==
  LET p == local[r].proof IN
  /\ p.kind = "step" => account.lastStep < p.n
  /\ p.kind = "code" => IndexOf(r) \in 1..Len(account.codes)

\* What a transaction checks again: no later step was used, and the code is where it was.
ProofStands(r) ==
  LET p == local[r].proof IN
  /\ p.kind = "step" => account.lastStep < p.n
  /\ p.kind = "code" => /\ IndexOf(r) \in 1..Len(account.codes)
                        /\ account.codes[IndexOf(r)] = p

LastStep(r) == IF local[r].proof.kind = "step" THEN local[r].proof.n ELSE account.lastStep

\* consumeMfaChallengeAndCreateSession: one transaction over challenge, session and account.
OpenMfa(r) ==
  LET ch == local[r].on IN
  /\ pc[r] = "openMfa"
  /\ challenges[ch].version = Saw(r).version
  /\ account.version = Saw(r).version /\ account.secret # NoOne
  /\ ProofStands(r)
  /\ account' = [account EXCEPT
       !.lastStep = LastStep(r),
       !.codes = IF local[r].proof.kind = "code" THEN RemoveAt(@, IndexOf(r)) ELSE @]
  /\ challenges' = [challenges EXCEPT ![ch] = NoChallenge]
  /\ sessions' = [sessions EXCEPT ![r] =
       [version |-> Saw(r).version, revoked |-> FALSE,
        password |-> challenges[ch].password, factor |-> Saw(r).secret]]
  /\ Spend(r)
  /\ End(r)
  /\ UNCHANGED <<pending, links>>
------------------------------------------------------------------------------
(* Changes made by a session *)

\* A change first authenticates its session.  A change of the authenticator then checks
\* proofs on a read of its own; what setCredentials asks for can only refuse it.
Authenticate(r, s, op) ==
  /\ pc[r] = "new"
  /\ Accepted(s)
  /\ Goto(r, IF op \in {"set", "revokeAll"} THEN "read" ELSE "check",
          [Blank EXCEPT !.op = op, !.on = s])
  /\ UNCHANGED <<items, spent>>

\* beginTotpSetup, confirmTotpSetup: a password and no authenticator yet.
CheckSetup(r) ==
  /\ pc[r] = "check" /\ local[r].op \in {"begin", "confirm"}
  /\ account.password # NoOne /\ account.secret = NoOne
  /\ Goto(r, IF local[r].op = "begin" THEN "putPending" ELSE "readPending",
          [local[r] EXCEPT !.saw = account])
  /\ UNCHANGED <<items, spent>>

\* putTotpPending: a later setup replaces an earlier one.
PutPending(r) ==
  /\ pc[r] = "putPending"
  /\ pending' = r
  /\ End(r)
  /\ UNCHANGED <<account, links, sessions, challenges, spent>>

\* The code presented is one of the pending secret.
ReadPending(r) ==
  /\ pc[r] = "readPending"
  /\ pending # NoOne
  /\ \E p \in Steps :
       /\ p.of = pending
       /\ Goto(r, "read", [local[r] EXCEPT !.proof = p])
  /\ UNCHANGED <<items, spent>>

\* regenerateBackupCodes, disableTotp: password and second factor.
CheckProof(r) ==
  /\ pc[r] = "check" /\ local[r].op \in {"rotate", "disable"}
  /\ account.password # NoOne /\ account.secret # NoOne
  /\ \E p \in ProofsOf(account) :
       Goto(r, "read", [local[r] EXCEPT !.saw = account, !.proof = p])
  /\ UNCHANGED <<items, spent>>

\* The store reads the account once more, for its version.
Read(r) ==
  /\ pc[r] = "read"
  /\ local[r].op = "confirm" => account.secret = NoOne
  /\ Goto(r, "commit", [local[r] EXCEPT !.version = account.version])
  /\ UNCHANGED <<items, spent>>

\* Fault: the session's version is not compared.
FencedByAccount(r) == account.version = local[r].version

\* The condition that every change shares: account and session have the version read.
Fenced(r) ==
  /\ account.version = local[r].version
  /\ sessions[local[r].on].version = local[r].version

\* The session that made the change goes along with the account.
Migrated(r) == [sessions[local[r].on] EXCEPT !.version = account.version + 1]

Change(r, op, session) ==
  /\ pc[r] = "commit" /\ local[r].op = op
  /\ Fenced(r)
  /\ sessions' = [sessions EXCEPT ![local[r].on] = session]
  /\ End(r)
  /\ UNCHANGED <<links, challenges>>

SetCredentials(r) ==
  /\ Change(r, "set", [Migrated(r) EXCEPT !.password = r])
  /\ account' = [account EXCEPT !.version = @ + 1, !.password = r]
  /\ UNCHANGED <<pending, spent>>

EnableTotp(r) ==
  LET secret == local[r].proof.of IN
  /\ Change(r, "confirm", [Migrated(r) EXCEPT !.factor = secret])
  /\ pending = secret /\ account.secret = NoOne
  /\ pending' = NoOne
  /\ account' = [account EXCEPT !.version = @ + 1, !.secret = secret,
                                !.lastStep = local[r].proof.n, !.codes = NewCodes(r)]
  /\ Spend(r)

RotateBackupCodes(r) ==
  /\ Change(r, "rotate", Migrated(r))
  /\ account.secret # NoOne /\ ProofStands(r)
  /\ account' = [account EXCEPT !.version = @ + 1, !.lastStep = LastStep(r),
                                !.codes = NewCodes(r)]
  /\ Spend(r)
  /\ UNCHANGED pending

DisableTotp(r) ==
  /\ Change(r, "disable", Migrated(r))
  /\ account.secret # NoOne /\ ProofStands(r)
  /\ account' = [account EXCEPT !.version = @ + 1, !.secret = NoOne,
                                !.lastStep = 0, !.codes = NoCodes]
  /\ Spend(r)
  /\ UNCHANGED pending

\* Fault: only the session that asks is signed out.
RevokeOne(r) ==
  /\ Change(r, "revokeAll", [sessions[local[r].on] EXCEPT !.revoked = TRUE])
  /\ UNCHANGED <<account, pending, spent>>

\* The session that asks is not taken along, but signed out itself.
RevokeAllSessions(r) ==
  /\ Change(r, "revokeAll", [sessions[local[r].on] EXCEPT !.revoked = TRUE])
  /\ account' = [account EXCEPT !.version = @ + 1]
  /\ UNCHANGED <<pending, spent>>

\* logout: revokeSession.
Logout(s) ==
  /\ sessions[s].version # 0 /\ ~sessions[s].revoked
  /\ sessions' = [sessions EXCEPT ![s].revoked = TRUE]
  /\ UNCHANGED <<account, pending, links, challenges, calls, spent>>
------------------------------------------------------------------------------
Next ==
  \/ \E r \in Requests :
       \/ RequestLink(r) \/ PutLink(r) \/ OpenLink(r)
       \/ ReadPassword(r) \/ OpenPassword(r)
       \/ ReadMfa(r) \/ OpenMfa(r)
       \/ CheckSetup(r) \/ PutPending(r) \/ ReadPending(r) \/ CheckProof(r)
       \/ Read(r)
       \/ SetCredentials(r) \/ EnableTotp(r) \/ RotateBackupCodes(r)
       \/ DisableTotp(r) \/ RevokeAllSessions(r)
       \/ Stop(r)
  \/ \E r \in Requests, i \in Ids : ReadLink(r, i) \/ ReserveAttempt(r, i)
  \/ \E r \in Requests, s \in Ids, op \in Changes : Authenticate(r, s, op)
  \/ \E s \in Ids : Logout(s)

Spec == Init /\ [][Next]_vars
------------------------------------------------------------------------------
\* Types; among them, no challenge counts more attempts than the limit, and the backup
\* codes fit their list.
TypeOK ==
  /\ account \in Accounts /\ Len(account.codes) <= CodeCount
  /\ pending \in Optional
  /\ links \in [Ids -> Nat]
  /\ sessions \in [Ids -> Sessions]
  /\ challenges \in [Ids -> Challenges]
  /\ pc \in [Requests -> Places]
  /\ local \in [Requests -> Locals]
  /\ spent \subseteq Proofs

\* A request that finishes by changing an item.
Commits(r) == pc'[r] = "done" /\ items' # items

\* Nobody is signed in on credentials that have been replaced: the password a session was
\* opened with is the one in force, and with an authenticator its second factor is of that
\* authenticator, however long ago the sign-in read the account.
CredentialsAreCurrent ==
  \A s \in Ids :
    Accepted(s) => /\ sessions[s].password \in {NoOne, account.password}
                   /\ account.secret # NoOne => sessions[s].factor = account.secret

\* A change of the credentials signs out every session but the one that made it, and
\* "sign out everywhere" that one too (customer-auth-store.js:697).
ChangeSignsOut ==
  [][\A r \in Requests :
       pc[r] = "commit" /\ Commits(r) =>
         \A s \in Ids : Accepted(s)' => s = local[r].on /\ local[r].op # "revokeAll"]_vars

\* A session that is refused is refused for good: a request that it began before does not
\* bring it back.
RefusedForGood ==
  [][\A s \in Ids : sessions[s].version # 0 /\ ~Accepted(s) => ~Accepted(s)']_vars

\* A change of the authenticator with a step of another one than the account has by then:
\* the proof was checked on an earlier read, and the store compares only its number.
Former(r) ==
  /\ local[r].op \in {"rotate", "disable"}
  /\ local[r].proof.kind = "step" /\ local[r].proof.of # account.secret

\* A link, a time step of the authenticator in force or a backup code is good once, be it
\* to sign in or to change the authenticator (customer-auth-totp.test.js:223, :237), and a
\* backup code only while it is in the list: not after a removal that moves the others up,
\* nor after the list was replaced.
UsedOnce ==
  [][\A r \in Requests :
       /\ pc[r] \in {"openLink", "openMfa", "commit"} /\ Commits(r) /\ ~Former(r)
       => /\ local[r].proof \notin spent
          /\ local[r].proof.kind = "code" => local[r].proof \in ToSet(account.codes)]_vars

\* What docs/optional-authenticator-2fa-design.md:193 says: no time step is taken for a
\* second session or change.  It fails for a change whose step was used, and whose
\* authenticator was replaced, after the change had checked it.
NoReplay ==
  [][\A r \in Requests :
       pc[r] \in {"openMfa", "commit"} /\ Commits(r) => local[r].proof \notin spent]_vars

\* What a session is worth now.
Standing(i) ==
  IF sessions[i].version = 0 THEN "none"
  ELSE IF sessions[i].version # account.version THEN "out"
  ELSE IF sessions[i].revoked THEN "left" ELSE "in"

\* The sessions that have a change under way.
Asked == {s \in Ids : \E r \in Requests : local[r].op # "none" /\ local[r].on = s}

Authority == INSTANCE SessionAuthority WITH
  standing <- [i \in Ids |-> Standing(i)],
  asked    <- Asked,
  password <- account.password,
  secret   <- account.secret

\* Requests that read first and write later, and may overlap or stop anywhere, let sessions
\* in and change the credentials as SessionAuthority does in one step.
ImplementsAuthority == Authority!Spec
------------------------------------------------------------------------------
(* The inductive invariant *)

Used(i) == i = Before \/ pc[i] = "done"

\* What a request creates has its name only once it is done.
UsedInv ==
  /\ \A i \in Ids : ~Used(i) => /\ links[i] = 0
                                /\ sessions[i].version = 0
                                /\ challenges[i].version = 0
  /\ \A p \in spent : Used(p.of)
  /\ \A j \in 1..Len(account.codes) : Used(account.codes[j].of)
  /\ \A i \in Ids : i = account.secret \/ i = pending => Used(i)
  /\ \A r \in Requests :
       /\ \A j \in 1..Len(Saw(r).codes) : Used(Saw(r).codes[j].of)
       /\ Saw(r).secret # NoOne => Used(Saw(r).secret)
       /\ local[r].proof.of # NoOne => Used(local[r].proof.of)

\* No item is ahead of the account.
VersionInv ==
  /\ account.version > 0
  /\ \A i \in Ids : /\ sessions[i].version <= account.version
                    /\ challenges[i].version <= account.version
  /\ \A r \in Requests : Saw(r).version <= account.version

\* What has the version of the account has its password and its secret.
CurrentInv ==
  /\ \A i \in Ids : sessions[i].version = account.version =>
       /\ sessions[i].password \in {NoOne, account.password}
       /\ account.secret # NoOne => sessions[i].factor = account.secret
  /\ \A i \in Ids : challenges[i].version = account.version =>
       challenges[i].password \in {NoOne, account.password}
  /\ \A r \in Requests : Saw(r).version = account.version =>
       Saw(r).password = account.password /\ Saw(r).secret = account.secret

\* A request works on something, and its proof belongs to what it has read.
Fits(place, l) ==
  /\ place \notin {"new", "putLink", "openPassword", "done"} => l.on \in Ids
  /\ place \in {"openLink", "openPassword"} => l.saw.version > 0
  /\ place = "openPassword" => l.saw.password # NoOne
  /\ place = "openLink" => l.proof.kind = "link" /\ l.proof.of = l.on
  /\ \/ place = "openMfa"
     \/ place \in {"read", "commit"} /\ l.op \in {"rotate", "disable"}
     => /\ l.proof.kind \in {"step", "code"}
        /\ l.proof.kind = "step" => l.proof.of = l.saw.secret
  /\ place \in {"read", "commit"} /\ l.op = "confirm" => l.proof.kind = "step"
  /\ place \in {"read", "commit"} /\ l.op \in {"set", "revokeAll"} => l.proof = NoProof
  /\ place = "readPending" => l.op = "confirm"
  /\ place \in {"new", "putLink", "openLink", "openPassword", "readMfa", "openMfa"} =>
       l.op = "none"
  /\ place \in {"check", "read", "commit"} => l.op # "none"

FitsInv == \A r \in Requests : Fits(pc[r], local[r])

\* A pending secret has not been in use.
PendingInv ==
  pending # NoOne =>
    /\ account.secret # pending
    /\ \A r \in Requests : Saw(r).secret # pending
    /\ \A p \in spent : p.kind = "step" => p.of # pending

\* Nothing that was spent is good any more.
SpentInv ==
  /\ \A p \in spent : p.kind = "step" /\ p.of = account.secret => p.n <= account.lastStep
  /\ \A p \in spent : p.kind = "link" => links[p.of] = 0
  /\ \A i \in 1..Len(account.codes) : account.codes[i] \notin spent
  /\ \A i, j \in 1..Len(account.codes) : account.codes[i] = account.codes[j] => i = j

IInv ==
  TypeOK /\ UsedInv /\ VersionInv /\ CurrentInv /\ FitsInv /\ PendingInv /\ SpentInv
==============================================================================
