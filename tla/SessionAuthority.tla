---------------------------- MODULE SessionAuthority ----------------------------
(***************************************************************************)
(* What sign-in promises to the customer of one account, whatever requests *)
(* overlap or stop halfway (services/api-access, customer-auth.js and its  *)
(* tests): sessions are let in, and credentials change, as if in one step. *)
(*                                                                         *)
(*   - a session is let in once, by what the account asks for at that very *)
(*     moment, and a proof that lets it in has not been used before;       *)
(*   - only a session that is in can ask for a change, and only what it    *)
(*     asked for changes anything.  A session that logs out may see a      *)
(*     change through that it asked for before;                            *)
(*   - a session that is put out, or comes too late, stays out and changes *)
(*     nothing any more;                                                   *)
(*   - a change of the credentials puts out every session but, at most,    *)
(*     the one that made it, together with the changes they asked for.     *)
(*                                                                         *)
(* Which proofs a change may be made with is not said here but by UsedOnce *)
(* and NoReplay of CustomerAuth.                                           *)
(***************************************************************************)
CONSTANTS Ids,       \* sessions, passwords and authenticator secrets, by request
          Proofs,    \* records with the kind of a proof and what it is a proof of
          Before,    \* what was there at the start
          NoOne      \* no password, no authenticator

VARIABLES standing,  \* [Ids -> {"none", "in", "left", "out"}], of each session
          asked,     \* sessions that have asked for a change
          password,  \* in force
          secret,    \* of the authenticator in force
          spent      \* proofs that have been used

credentials   == <<password, secret, spent>>
authorityVars == <<standing, asked, credentials>>

Init == /\ standing = [i \in Ids |-> IF i = Before THEN "in" ELSE "none"]
        /\ asked = {}
        /\ password \in {NoOne, Before} /\ secret \in {NoOne, Before}
        /\ spent = {}

Spend(p) == p \notin spent /\ spent' = spent \cup {p}

FirstFactor(p)  == p.kind = "link"
SecondFactor(p) == p.kind = "code" \/ (p.kind = "step" /\ p.of = secret)

\* A link or a password lets in without an authenticator, a second factor with one.
LetIn(s) ==
  /\ standing[s] = "none"
  /\ standing' = [standing EXCEPT ![s] = "in"]
  /\ \/ secret = NoOne /\ password # NoOne /\ UNCHANGED spent
     \/ secret = NoOne /\ \E p \in Proofs : FirstFactor(p) /\ Spend(p)
     \/ secret # NoOne /\ \E p \in Proofs : SecondFactor(p) /\ Spend(p)
  /\ UNCHANGED <<asked, password, secret>>

\* The credentials have changed since the sign-in began: a session nobody can use.
TooLate(s) ==
  /\ standing[s] = "none"
  /\ standing' = [standing EXCEPT ![s] = "out"]
  /\ UNCHANGED spent \/ \E p \in Proofs : FirstFactor(p) /\ Spend(p)
  /\ UNCHANGED <<asked, password, secret>>

\* A link that leads to the second factor.
FollowLink ==
  /\ \E p \in Proofs : FirstFactor(p) /\ Spend(p)
  /\ UNCHANGED <<standing, asked, password, secret>>

Logout(s) ==
  /\ standing[s] = "in"
  /\ standing' = [standing EXCEPT ![s] = "left"]
  /\ UNCHANGED <<asked, credentials>>

Ask(s) ==
  /\ standing[s] = "in"
  /\ asked' = asked \cup {s}
  /\ UNCHANGED <<standing, credentials>>

\* A change that is refused, or given up.
GiveUp(s) ==
  /\ asked' = asked \ {s}
  /\ UNCHANGED <<standing, credentials>>

PutOut(S) ==
  standing' = [i \in Ids |-> IF standing[i] # "none" /\ i \in S THEN "out" ELSE standing[i]]

\* A session that changes something has asked for it, and may have asked for more.
Changes(s) ==
  /\ s \in asked /\ standing[s] \in {"in", "left"}
  /\ asked' \in {asked, asked \ {s}}

ChangePassword(s) ==
  /\ Changes(s)
  /\ PutOut(Ids \ {s})
  /\ password' \in Ids
  /\ UNCHANGED <<secret, spent>>

SetUp(p) ==
  /\ secret = NoOne /\ p.kind = "step" /\ Spend(p)
  /\ secret' = p.of /\ secret' # NoOne

\* Another list of backup codes, or no authenticator any more.
Replace(p) ==
  /\ secret # NoOne /\ secret' \in {secret, NoOne}
  /\ p.kind \in {"step", "code"} /\ spent' = spent \cup {p}

ChangeAuthenticator(s) ==
  /\ Changes(s)
  /\ PutOut(Ids \ {s})
  /\ \E p \in Proofs : SetUp(p) \/ Replace(p)
  /\ UNCHANGED password

SignOutEverywhere(s) ==
  /\ Changes(s)
  /\ PutOut(Ids)
  /\ UNCHANGED credentials

Next ==
  \/ \E s \in Ids : LetIn(s) \/ TooLate(s) \/ Logout(s) \/ Ask(s) \/ GiveUp(s)
  \/ \E s \in Ids : ChangePassword(s) \/ ChangeAuthenticator(s) \/ SignOutEverywhere(s)
  \/ FollowLink

Spec == Init /\ [][Next]_authorityVars
=================================================================================
