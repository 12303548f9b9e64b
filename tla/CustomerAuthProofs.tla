-------------------------- MODULE CustomerAuthProofs --------------------------
(* Proofs about CustomerAuth, for any number of requests, any attempt limit  *)
(* and any lists of backup codes.                                            *)
EXTENDS CustomerAuth, SequenceTheorems, TLAPS

LEMMA BlankType ==
  ASSUME CustomerAuthAssumption
  PROVE  Nothing \in Accounts /\ Blank \in Locals
BY DEF CustomerAuthAssumption, Nothing, Blank, Accounts, Locals, NoCodes, NoProof, Optional

LEMMA NewCodesType ==
  ASSUME CustomerAuthAssumption, NEW i \in Ids
  PROVE  /\ NewCodes(i) \in Seq(Codes)
         /\ Len(NewCodes(i)) = CodeCount
         /\ \A j \in 1..CodeCount : NewCodes(i)[j] \in Codes /\ NewCodes(i)[j].of = i
         /\ \A j, k \in 1..CodeCount : NewCodes(i)[j] = NewCodes(i)[k] => j = k
<1>1. CodeCount \in Nat
  BY DEF CustomerAuthAssumption
<1>2. \A j \in 1..CodeCount : [kind |-> "code", of |-> i, n |-> j] \in Codes
  BY DEF Codes
<1>3. QED
  BY <1>1, <1>2 DEF NewCodes

\* What is left of a list when a code is removed.
LEMMA Removed ==
  ASSUME NEW S, NEW s \in Seq(S), NEW i \in 1..Len(s)
  PROVE  /\ RemoveAt(s, i) \in Seq(S)
         /\ Len(RemoveAt(s, i)) = Len(s) - 1
         /\ \A j \in 1..Len(s) - 1 : /\ j < i => RemoveAt(s, i)[j] = s[j]
                                     /\ j >= i => RemoveAt(s, i)[j] = s[j + 1]
<1> DEFINE a == SubSeq(s, 1, i - 1)
           b == SubSeq(s, i + 1, Len(s))
<1>1. a \in Seq(S) /\ Len(a) = i - 1 /\ \A j \in 1..i - 1 : a[j] = s[j]
  OBVIOUS
<1>2. b \in Seq(S) /\ Len(b) = Len(s) - i /\ \A j \in 1..Len(s) - i : b[j] = s[i + j]
  OBVIOUS
<1>3. RemoveAt(s, i) = a \o b
  BY DEF RemoveAt
<1> HIDE DEF a, b
<1>4. a \o b \in Seq(S) /\ Len(a \o b) = Len(s) - 1
  <2>1. a \o b \in Seq(S) /\ Len(a \o b) = Len(a) + Len(b)
    BY <1>1, <1>2, ConcatProperties
  <2>2. QED
    BY <2>1, <1>1, <1>2
<1>5. ASSUME NEW j \in 1..Len(s) - 1, j < i
      PROVE  (a \o b)[j] = s[j]
  BY <1>1, <1>2, <1>5, ConcatProperties
<1>6. ASSUME NEW j \in 1..Len(s) - 1, j >= i
      PROVE  (a \o b)[j] = s[j + 1]
  <2>1. (a \o b)[j] = b[j - Len(a)]
    BY <1>1, <1>2, <1>6, ConcatProperties
  <2>2. j - (i - 1) \in 1..Len(s) - i /\ i + (j - (i - 1)) = j + 1
    BY <1>6
  <2>3. QED
    BY <2>1, <2>2, <1>1, <1>2
<1>7. QED
  BY <1>3, <1>4, <1>5, <1>6

LEMMA LocalType ==
  ASSUME TypeOK, NEW r \in Requests
  PROVE  /\ local[r] \in Locals
         /\ Saw(r) \in Accounts
         /\ local[r].proof \in Proofs \cup {NoProof}
         /\ local[r].op \in Changes \cup {"none"}
         /\ local[r].on \in Optional
         /\ local[r].version \in Nat
BY DEF TypeOK, Locals, Saw
------------------------------------------------------------------------------
(* Requests that read *)

\* What a request may have read: an account that is not ahead of the stored one, agrees
\* with it when it has its version, and holds nothing from a request that is not done.
SawOk(a) ==
  /\ a \in Accounts
  /\ a.version <= account.version
  /\ a.version = account.version => a.password = account.password /\ a.secret = account.secret
  /\ \A j \in 1..Len(a.codes) : Used(a.codes[j].of)
  /\ a.secret # NoOne => Used(a.secret)
  /\ pending # NoOne => a.secret # pending

LEMMA AccountIsOk == IInv => SawOk(account)
BY DEF IInv, TypeOK, UsedInv, PendingInv, SawOk, Accounts, Optional

LEMMA NothingIsOk == CustomerAuthAssumption /\ IInv => SawOk(Nothing)
<1> SUFFICES ASSUME CustomerAuthAssumption, IInv PROVE SawOk(Nothing)
  OBVIOUS
<1>1. account.version \in Nat /\ account.version > 0
  BY DEF IInv, TypeOK, VersionInv, Accounts
<1>2. Nothing.version = 0 /\ Nothing.codes = << >> /\ Nothing.secret = NoOne
  BY DEF Nothing, NoCodes
<1>3. QED
  BY <1>1, <1>2, BlankType DEF SawOk

LEMMA SawIsOk ==
  ASSUME IInv, NEW r \in Requests
  PROVE  SawOk(Saw(r))
BY LocalType DEF IInv, UsedInv, VersionInv, CurrentInv, PendingInv, SawOk

\* A step of one request that leaves the items alone and takes only such things along.
LEMMA MoveKeeps ==
  ASSUME CustomerAuthAssumption, IInv, NEW r \in Requests, NEW place \in Places \ {"new"},
         NEW l \in Locals, pc[r] # "done", Goto(r, place, l), UNCHANGED <<items, spent>>,
         SawOk(l.saw), l.proof.of # NoOne => Used(l.proof.of), Fits(place, l)
  PROVE  IInv'
<1>1. TypeOK'
  BY DEF IInv, TypeOK, Goto, items
<1>2. /\ pc'[r] = place /\ local'[r] = l
      /\ \A q \in Requests \ {r} : pc'[q] = pc[q] /\ local'[q] = local[q]
  BY DEF IInv, TypeOK, Goto
<1>3. \A i : Used(i) => Used(i)'
  BY DEF Used, IInv, TypeOK, Goto
<1>4. UsedInv'
  <2>1. \A q \in Requests :
          /\ \A j \in 1..Len(local'[q].saw.codes) : Used(local'[q].saw.codes[j].of)
          /\ local'[q].saw.secret # NoOne => Used(local'[q].saw.secret)
          /\ local'[q].proof.of # NoOne => Used(local'[q].proof.of)
    BY <1>2 DEF IInv, UsedInv, SawOk, Saw
  <2>2. QED
    BY <2>1, <1>3 DEF IInv, UsedInv, Saw, items
<1>5. VersionInv'
  BY <1>2 DEF IInv, VersionInv, SawOk, Saw, items
<1>6. CurrentInv'
  BY <1>2 DEF IInv, CurrentInv, SawOk, Saw, items
<1>7. FitsInv'
  BY <1>2 DEF IInv, FitsInv
<1>8. PendingInv'
  BY <1>2 DEF IInv, PendingInv, SawOk, Saw, items
<1>9. SpentInv'
  BY DEF IInv, SpentInv, items
<1>10. QED
  BY <1>1, <1>4, <1>5, <1>6, <1>7, <1>8, <1>9 DEF IInv

\* A proof found in the account is of the account's secret or one of its codes.
LEMMA ProofIsOk ==
  ASSUME CustomerAuthAssumption, IInv, NEW p \in ProofsOf(account)
  PROVE  /\ p \in Steps \cup Codes /\ Used(p.of)
         /\ p.kind \in {"step", "code"}
         /\ p.kind = "step" => p.of = account.secret
<1>1. account.codes \in Seq(Codes) /\ account.secret \in Optional
  BY DEF IInv, TypeOK, Accounts
<1>2. CASE p \in Steps /\ p.of = account.secret
  <2>1. p.of \in Ids /\ p.kind = "step"
    BY <1>2 DEF Steps
  <2>2. QED
    BY <2>1, <1>2 DEF IInv, UsedInv
<1>3. CASE p \in ToSet(account.codes)
  <2>1. PICK j \in 1..Len(account.codes) : p = account.codes[j]
    BY <1>1, <1>3 DEF ToSet
  <2>2. p \in Codes
    BY <2>1, <1>1
  <2>3. p.kind = "code"
    BY <2>2 DEF Codes
  <2>4. Used(p.of)
    BY <2>1 DEF IInv, UsedInv
  <2>5. QED
    BY <2>2, <2>3, <2>4
<1>4. QED
  BY <1>2, <1>3 DEF ProofsOf

LEMMA FirstReadsKeep ==
  ASSUME CustomerAuthAssumption, IInv, NEW r \in Requests,
         \/ RequestLink(r) \/ ReadPassword(r) \/ Stop(r)
         \/ \E i \in Ids : ReadLink(r, i)
         \/ \E i \in Ids, op \in Changes : Authenticate(r, i, op)
  PROVE  IInv'
<1> USE BlankType
<1>1. SawOk(account) /\ SawOk(Nothing) /\ account \in Accounts
  BY AccountIsOk, NothingIsOk DEF IInv, TypeOK
<1>0. account.version > 0
  BY DEF IInv, VersionInv
<1>2. Blank.saw = Nothing /\ Blank.proof.of = NoOne /\ Blank.op = "none"
  BY DEF Blank, NoProof
<1>3. CASE RequestLink(r) \/ ReadPassword(r)
  <2> DEFINE l == [Blank EXCEPT !.saw = account]
  <2>1. /\ l \in Locals /\ l.saw = account /\ l.proof.of = NoOne /\ l.op = "none"
        /\ "putLink" \in Places \ {"new"} /\ "openPassword" \in Places \ {"new"}
    BY <1>1, <1>2 DEF Locals, Blank, Places
  <2>2. Fits("putLink", l) /\ (ReadPassword(r) => Fits("openPassword", l))
    BY <2>1, <1>0 DEF Fits, ReadPassword
  <2>3. CASE RequestLink(r)
    BY <2>1, <2>2, <2>3, <1>1, MoveKeeps DEF RequestLink
  <2>4. CASE ReadPassword(r)
    BY <2>1, <2>2, <2>4, <1>1, MoveKeeps DEF ReadPassword
  <2>5. QED
    BY <1>3, <2>3, <2>4
<1>4. CASE Stop(r)
  <2>1. Fits("done", Blank) /\ "done" \in Places \ {"new"}
    BY DEF Fits, Places
  <2>2. QED
    BY <2>1, <1>1, <1>2, <1>4, MoveKeeps DEF Stop, End
<1>5. ASSUME NEW i \in Ids, ReadLink(r, i)
      PROVE  IInv'
  <2> DEFINE l == [Blank EXCEPT !.on = i, !.saw = account,
                                !.proof = [kind |-> "link", of |-> i, n |-> 0]]
  <2>1. /\ l \in Locals /\ l.saw = account /\ l.proof.of = i
        /\ "openLink" \in Places \ {"new"}
    BY <1>1, <1>2 DEF Locals, Blank, Places, Proofs, Links, Optional
  <2>2. Fits("openLink", l)
    BY <2>1, <1>0 DEF Fits, Blank
  <2>3. links[i] # 0
    <3>1. account.version \in Nat /\ account.version > 0
      BY DEF IInv, VersionInv, TypeOK, Accounts
    <3>2. links[i] = account.version
      BY <1>5 DEF ReadLink
    <3>3. QED
      BY <3>1, <3>2
  <2>4. Used(i)
    BY <2>3 DEF IInv, UsedInv
  <2>5. QED
    BY <2>1, <2>2, <2>4, <1>1, <1>5, MoveKeeps DEF ReadLink
<1>6. ASSUME NEW i \in Ids, NEW op \in Changes, Authenticate(r, i, op)
      PROVE  IInv'
  <2> DEFINE l     == [Blank EXCEPT !.op = op, !.on = i]
             place == IF op \in {"set", "revokeAll"} THEN "read" ELSE "check"
  <2>1. l \in Locals /\ l.saw = Nothing /\ l.proof.of = NoOne /\ place \in Places \ {"new"}
    BY <1>2 DEF Locals, Blank, Places, Optional
  <2>2. Fits(place, l)
    <3>1. l.on = i /\ l.op = op /\ l.proof = NoProof /\ op \in Changes
      BY DEF Blank
    <3>2. op # "none"
      BY DEF Changes
    <3> HIDE DEF l
    <3>3. CASE op \in {"set", "revokeAll"}
      BY <3>1, <3>2, <3>3 DEF Fits
    <3>4. CASE op \notin {"set", "revokeAll"}
      BY <3>1, <3>2, <3>4 DEF Fits
    <3>5. QED
      BY <3>3, <3>4
  <2>3. QED
    BY <2>1, <2>2, <1>1, <1>6, MoveKeeps DEF Authenticate
<1>7. QED
  BY <1>3, <1>4, <1>5, <1>6

LEMMA LaterReadsKeep ==
  ASSUME CustomerAuthAssumption, IInv, NEW r \in Requests,
         ReadMfa(r) \/ CheckSetup(r) \/ ReadPending(r) \/ CheckProof(r) \/ Read(r)
  PROVE  IInv'
<1>1. SawOk(account) /\ account \in Accounts /\ SawOk(Saw(r))
  BY AccountIsOk, SawIsOk DEF IInv, TypeOK
<1>2. /\ local[r] \in Locals /\ Fits(pc[r], local[r])
      /\ local[r].proof.of # NoOne => Used(local[r].proof.of)
  BY LocalType DEF IInv, UsedInv, FitsInv
<1>3. ASSUME ReadMfa(r) \/ CheckProof(r)
      PROVE  IInv'
  <2>1. PICK p \in ProofsOf(account), place \in {"openMfa", "read"} :
          /\ Goto(r, place, [local[r] EXCEPT !.saw = account, !.proof = p])
          /\ UNCHANGED <<items, spent>> /\ pc[r] \in {"readMfa", "check"}
          /\ place = "read" => local[r].op \in {"rotate", "disable"}
          /\ place = "openMfa" => pc[r] = "readMfa"
          /\ place = "read" => pc[r] = "check"
    BY <1>3 DEF ReadMfa, CheckProof
  <2> DEFINE l == [local[r] EXCEPT !.saw = account, !.proof = p]
  <2>2. /\ l \in Locals /\ l.saw = account /\ l.proof = p /\ l.on = local[r].on
        /\ l.op = local[r].op /\ place \in Places \ {"new"}
    BY <1>1, <1>2, ProofIsOk DEF Locals, Places, Proofs
  <2>3. Fits(place, l)
    <3>1. p.kind \in {"step", "code"} /\ (p.kind = "step" => p.of = account.secret)
      BY ProofIsOk
    <3>2. /\ local[r].on \in Ids
          /\ pc[r] = "readMfa" => local[r].op = "none"
          /\ pc[r] = "check" => local[r].op # "none"
      BY <2>1, <1>2 DEF Fits
    <3> HIDE DEF l
    <3>3. QED
      BY <2>1, <2>2, <3>1, <3>2 DEF Fits
  <2>4. Used(p.of)
    BY ProofIsOk
  <2>5. QED
    BY <2>1, <2>2, <2>3, <2>4, <1>1, MoveKeeps
<1>4. ASSUME CheckSetup(r)
      PROVE  IInv'
  <2>1. PICK place \in {"putPending", "readPending"} :
          /\ Goto(r, place, [local[r] EXCEPT !.saw = account])
          /\ UNCHANGED <<items, spent>> /\ pc[r] = "check"
          /\ place = "readPending" => local[r].op = "confirm"
    BY <1>4 DEF CheckSetup
  <2> DEFINE l == [local[r] EXCEPT !.saw = account]
  <2>2. /\ l \in Locals /\ l.saw = account /\ l.proof = local[r].proof
        /\ l.op = local[r].op /\ l.on = local[r].on /\ place \in Places \ {"new"}
    BY <1>1, <1>2 DEF Locals, Places
  <2>3. Fits(place, l)
    BY <2>1, <2>2, <1>2 DEF Fits
  <2>4. QED
    BY <2>1, <2>2, <2>3, <1>1, <1>2, MoveKeeps
<1>5. ASSUME ReadPending(r)
      PROVE  IInv'
  <2>1. PICK p \in Steps : /\ p.of = pending /\ pending # NoOne
                           /\ Goto(r, "read", [local[r] EXCEPT !.proof = p])
                           /\ UNCHANGED <<items, spent>> /\ pc[r] # "done"
    BY <1>5 DEF ReadPending
  <2> DEFINE l == [local[r] EXCEPT !.proof = p]
  <2>2. /\ l \in Locals /\ l.saw = Saw(r) /\ l.proof = p /\ l.op = local[r].op
        /\ "read" \in Places \ {"new"}
    BY <1>2 DEF Locals, Places, Proofs, Saw
  <2>3. p.kind = "step" /\ Used(p.of)
    BY <2>1 DEF Steps, IInv, UsedInv, TypeOK
  <2>4. Fits("read", l)
    BY <2>2, <2>3, <1>2, <1>5 DEF Fits, ReadPending
  <2>5. QED
    BY <2>1, <2>2, <2>3, <2>4, <1>1, MoveKeeps
<1>6. ASSUME Read(r)
      PROVE  IInv'
  <2> DEFINE l == [local[r] EXCEPT !.version = account.version]
  <2>1. /\ l \in Locals /\ l.saw = Saw(r) /\ l.proof = local[r].proof /\ l.op = local[r].op
        /\ "commit" \in Places \ {"new"}
    BY <1>1, <1>2 DEF Locals, Places, Saw, Accounts
  <2>2. Fits("commit", l)
    BY <2>1, <1>2, <1>6 DEF Fits, Read, Saw
  <2>3. QED
    BY <2>1, <2>2, <1>1, <1>2, <1>6, MoveKeeps DEF Read
<1>7. QED
  BY <1>3, <1>4, <1>5, <1>6
------------------------------------------------------------------------------
(* Requests that finish *)

LEMMA EndFacts ==
  ASSUME CustomerAuthAssumption, TypeOK, NEW r \in Requests, pc[r] # "done", End(r)
  PROVE  /\ pc'[r] = "done" /\ local'[r] = Blank
         /\ \A q \in Requests \ {r} : pc'[q] = pc[q] /\ local'[q] = local[q]
         /\ pc' \in [Requests -> Places] /\ local' \in [Requests -> Locals]
         /\ \A i : Used(i) => Used(i)'
         /\ Used(r)' /\ ~Used(r)
<1>1. "done" \in Places /\ Blank \in Locals
  BY BlankType DEF Places
<1>2. /\ pc'[r] = "done" /\ local'[r] = Blank
      /\ \A q \in Requests \ {r} : pc'[q] = pc[q] /\ local'[q] = local[q]
      /\ pc' \in [Requests -> Places] /\ local' \in [Requests -> Locals]
  BY <1>1 DEF TypeOK, End, Goto
<1>3. \A i : Used(i) => Used(i)'
  BY DEF Used, TypeOK, End, Goto
<1>4. Used(r)' /\ ~Used(r)
  BY <1>2 DEF Used, CustomerAuthAssumption
<1>5. QED
  BY <1>2, <1>3, <1>4

\* The other requests are left in order when one finishes, as long as a change of the
\* credentials raises the version.
LEMMA FinishKeepsCalls ==
  ASSUME CustomerAuthAssumption, IInv, NEW r \in Requests, pc[r] # "done", End(r),
         account' \in Accounts, account'.version \in {account.version, account.version + 1},
         account'.version = account.version =>
           account'.password = account.password /\ account'.secret = account.secret
  PROVE  /\ FitsInv'
         /\ account'.version > 0
         /\ \A q \in Requests : Saw(q)'.version <= account'.version
         /\ \A q \in Requests : Saw(q)'.version = account'.version =>
              Saw(q)'.password = account'.password /\ Saw(q)'.secret = account'.secret
         /\ \A q \in Requests :
              /\ (\A j \in 1..Len(Saw(q).codes) : Used(Saw(q).codes[j].of))'
              /\ (Saw(q).secret # NoOne => Used(Saw(q).secret))'
              /\ (local[q].proof.of # NoOne => Used(local[q].proof.of))'
         /\ \A q \in Requests : Saw(q)'.secret \in {Saw(q).secret, NoOne}
<1>1. TypeOK
  BY DEF IInv
<1>2. /\ pc'[r] = "done" /\ local'[r] = Blank
      /\ \A q \in Requests \ {r} : pc'[q] = pc[q] /\ local'[q] = local[q]
      /\ \A i : Used(i) => Used(i)'
  BY <1>1, EndFacts
<1>3. /\ Blank.saw = Nothing /\ Nothing.version = 0 /\ Nothing.codes = << >>
      /\ Nothing.secret = NoOne /\ Blank.proof.of = NoOne /\ Fits("done", Blank)
  BY DEF Blank, Nothing, NoCodes, NoProof, Fits
<1>4. account.version \in Nat /\ account.version > 0 /\ account'.version \in Nat
  BY <1>1 DEF IInv, VersionInv, TypeOK, Accounts
<1>5. account'.version > 0 /\ account'.version >= account.version
  BY <1>4
<1>6. FitsInv'
  BY <1>2, <1>3 DEF IInv, FitsInv
<1>7. ASSUME NEW q \in Requests
      PROVE  /\ Saw(q)'.version <= account'.version
             /\ Saw(q)'.version = account'.version =>
                  Saw(q)'.password = account'.password /\ Saw(q)'.secret = account'.secret
             /\ (\A j \in 1..Len(Saw(q).codes) : Used(Saw(q).codes[j].of))'
             /\ (Saw(q).secret # NoOne => Used(Saw(q).secret))'
             /\ (local[q].proof.of # NoOne => Used(local[q].proof.of))'
             /\ Saw(q)'.secret \in {Saw(q).secret, NoOne}
  <2>1. CASE q = r
    BY <2>1, <1>2, <1>3, <1>5, <1>4 DEF Saw
  <2>2. CASE q # r
    <3>1. Saw(q)' = Saw(q) /\ local'[q] = local[q]
      BY <2>2, <1>2 DEF Saw
    <3>2. SawOk(Saw(q)) /\ (local[q].proof.of # NoOne => Used(local[q].proof.of))
      BY SawIsOk DEF IInv, UsedInv
    <3>3. Saw(q).version \in Nat
      BY <3>2 DEF SawOk, Accounts
    <3>4. /\ Saw(q).version <= account'.version
          /\ Saw(q).version = account'.version =>
               Saw(q).password = account'.password /\ Saw(q).secret = account'.secret
      BY <3>2, <3>3, <1>4 DEF SawOk
    <3>5. QED
      BY <3>1, <3>2, <3>4, <1>2 DEF SawOk
  <2>3. QED
    BY <2>1, <2>2
<1>8. QED
  BY <1>5, <1>6, <1>7

\* The items that a first factor opens.
LEMMA EnterKeeps ==
  ASSUME CustomerAuthAssumption, IInv, NEW r \in Requests, pc[r] # "done", End(r),
         NEW password \in {NoOne, Saw(r).password}, Enter(r, password), UNCHANGED account
  PROVE  /\ sessions' \in [Ids -> Sessions] /\ challenges' \in [Ids -> Challenges]
         /\ \A i \in Ids : ~Used(i)' => sessions'[i].version = 0 /\ challenges'[i].version = 0
         /\ \A i \in Ids : /\ sessions'[i].version <= account.version
                           /\ challenges'[i].version <= account.version
         /\ \A i \in Ids : sessions'[i].version = account.version =>
              /\ sessions'[i].password \in {NoOne, account.password}
              /\ account.secret # NoOne => sessions'[i].factor = account.secret
         /\ \A i \in Ids : challenges'[i].version = account.version =>
              challenges'[i].password \in {NoOne, account.password}
<1>1. TypeOK /\ r \in Ids
  BY DEF IInv, Ids
<1>2. \A i \in Ids : ~Used(i)' => ~Used(i) /\ i # r
  BY <1>1, EndFacts
<1>3. SawOk(Saw(r)) /\ Saw(r) \in Accounts
  BY SawIsOk DEF SawOk
<1>4. Saw(r).version \in Nat /\ password \in Optional /\ NoOne \in Optional /\ 0 \in 0..Limit
  BY <1>3 DEF Accounts, Optional, CustomerAuthAssumption
<1>5. CASE Saw(r).secret # NoOne
  <2> DEFINE ch == [version |-> Saw(r).version, attempts |-> 0, password |-> password]
  <2>1. challenges' = [challenges EXCEPT ![r] = ch] /\ sessions' = sessions
    BY <1>5 DEF Enter
  <2>2. ch \in Challenges
    BY <1>4 DEF Challenges
  <2>3. challenges' \in [Ids -> Challenges] /\ sessions' \in [Ids -> Sessions]
    BY <2>1, <2>2, <1>1 DEF TypeOK
  <2>4. \A i \in Ids : challenges'[i] = IF i = r THEN ch ELSE challenges[i]
    BY <2>1, <1>1 DEF TypeOK
  <2>5. ch.version = Saw(r).version /\ ch.password = password
    OBVIOUS
  <2> HIDE DEF ch
  <2>6. QED
    BY <2>1, <2>3, <2>4, <2>5, <1>2, <1>3 DEF IInv, UsedInv, VersionInv, CurrentInv, SawOk
<1>6. CASE Saw(r).secret = NoOne
  <2> DEFINE s == [version |-> Saw(r).version, revoked |-> FALSE,
                   password |-> password, factor |-> NoOne]
  <2>1. sessions' = [sessions EXCEPT ![r] = s] /\ challenges' = challenges
    BY <1>6 DEF Enter
  <2>2. s \in Sessions
    BY <1>4 DEF Sessions
  <2>3. challenges' \in [Ids -> Challenges] /\ sessions' \in [Ids -> Sessions]
    BY <2>1, <2>2, <1>1 DEF TypeOK
  <2>4. \A i \in Ids : sessions'[i] = IF i = r THEN s ELSE sessions[i]
    BY <2>1, <1>1 DEF TypeOK
  <2>5. s.version = Saw(r).version /\ s.password = password
    OBVIOUS
  <2> HIDE DEF s
  <2>6. QED
    BY <2>1, <2>3, <2>4, <2>5, <1>2, <1>3, <1>6 DEF IInv, UsedInv, VersionInv, CurrentInv, SawOk
<1>7. QED
  BY <1>5, <1>6

\* A spent proof has the name of a request that is done.
LEMMA SpentType ==
  ASSUME IInv, NEW p \in spent
  PROVE  p.of \in Ids /\ Used(p.of)
<1>1. p \in Proofs
  BY DEF IInv, TypeOK
<1>2. QED
  BY <1>1 DEF IInv, UsedInv, Proofs, Links, Steps, Codes

LEMMA StepNumber ==
  ASSUME IInv, NEW p \in spent, p.kind = "step"
  PROVE  p.n \in Nat
<1>1. p \in Proofs
  BY DEF IInv, TypeOK
<1>2. p \in Steps
  BY <1>1 DEF Proofs, Links, Codes
<1>3. QED
  BY <1>2 DEF Steps

LEMMA CodeKind ==
  ASSUME NEW a \in Accounts
  PROVE  \A i \in 1..Len(a.codes) : a.codes[i].kind = "code"
<1>1. a.codes \in Seq(Codes)
  BY DEF Accounts
<1>2. \A c \in Codes : c.kind = "code"
  BY DEF Codes
<1>3. QED
  BY <1>1, <1>2

LEMMA PutLinkKeeps ==
  ASSUME CustomerAuthAssumption, IInv, NEW r \in Requests, PutLink(r)
  PROVE  IInv'
<1>1. TypeOK /\ r \in Ids /\ pc[r] # "done" /\ End(r) /\ account' = account
  BY DEF IInv, Ids, PutLink
<1>2. account \in Accounts /\ account.version \in Nat /\ Saw(r).version \in Nat
  BY <1>1, LocalType DEF TypeOK, Accounts
<1>3. \A i \in Ids : links'[i] = IF i = r THEN Saw(r).version ELSE links[i]
  BY <1>1 DEF PutLink, TypeOK
<1>4. TypeOK'
  BY <1>1, <1>2, EndFacts DEF PutLink, TypeOK
<1>5. UsedInv'
  <2>1. \A i \in Ids : ~Used(i)' => links'[i] = 0 /\ sessions'[i].version = 0
                                      /\ challenges'[i].version = 0
    BY <1>1, <1>3, EndFacts DEF PutLink, IInv, UsedInv
  <2>2. \A p \in spent' : Used(p.of)'
    BY <1>1, EndFacts, SpentType DEF PutLink
  <2>3. (/\ \A j \in 1..Len(account.codes) : Used(account.codes[j].of)
         /\ \A i \in Ids : i = account.secret \/ i = pending => Used(i))'
    BY <1>1, EndFacts DEF PutLink, IInv, UsedInv
  <2>4. QED
    BY <2>1, <2>2, <2>3, <1>1, <1>2, FinishKeepsCalls DEF UsedInv
<1>6. VersionInv'
  BY <1>1, <1>2, FinishKeepsCalls DEF PutLink, IInv, VersionInv
<1>7. CurrentInv'
  BY <1>1, <1>2, FinishKeepsCalls DEF PutLink, IInv, CurrentInv
<1>8. FitsInv'
  BY <1>1, <1>2, FinishKeepsCalls
<1>9. PendingInv'
  <2>1. \A q \in Requests : Saw(q)'.secret \in {Saw(q).secret, NoOne}
    BY <1>1, <1>2, FinishKeepsCalls
  <2>2. QED
    BY <2>1 DEF PutLink, IInv, PendingInv
<1>10. SpentInv'
  <2>1. \A p \in spent' : p.kind = "link" => links'[p.of] = 0
    BY <1>1, <1>3, EndFacts, SpentType DEF PutLink, IInv, SpentInv
  <2>2. QED
    BY <2>1 DEF PutLink, IInv, SpentInv
<1>11. QED
  BY <1>4, <1>5, <1>6, <1>7, <1>8, <1>9, <1>10 DEF IInv

LEMMA FirstFactorKeeps ==
  ASSUME CustomerAuthAssumption, IInv, NEW r \in Requests, OpenLink(r) \/ OpenPassword(r)
  PROVE  IInv'
<1>1. TypeOK /\ r \in Ids /\ pc[r] # "done" /\ End(r) /\ UNCHANGED <<account, pending>>
  BY DEF IInv, Ids, OpenLink, OpenPassword
<1>2. PICK password \in {NoOne, Saw(r).password} : Enter(r, password)
  BY DEF OpenLink, OpenPassword
<1>3. /\ account \in Accounts /\ account.version \in Nat
      /\ local[r].proof \in Proofs \cup {NoProof} /\ NoProof.of = NoOne
  BY <1>1, LocalType DEF TypeOK, Accounts, NoProof
<1>4. /\ spent \subseteq spent' /\ spent' \subseteq spent \cup {local[r].proof}
      /\ links' \in [Ids -> Nat]
      /\ \A i \in Ids : links'[i] \in {links[i], 0}
      /\ \A p \in spent' \ spent : /\ p \in Proofs /\ p.kind = "link" /\ p.of \in Ids
                                   /\ Used(p.of) /\ links'[p.of] = 0
  <2>1. CASE OpenPassword(r)
    BY <2>1, <1>1 DEF OpenPassword, TypeOK
  <2>2. CASE OpenLink(r)
    <3>1. pc[r] = "openLink" /\ links[local[r].on] # 0
          /\ links' = [links EXCEPT ![local[r].on] = 0] /\ spent' = spent \cup {local[r].proof}
      BY <2>2 DEF OpenLink, Spend
    <3>2. local[r].proof.kind = "link" /\ local[r].proof.of = local[r].on
      BY <3>1 DEF IInv, FitsInv, Fits
    <3>3. local[r].proof \in Proofs
      BY <3>2, <1>3 DEF NoProof
    <3>4. local[r].on \in Ids
      BY <3>2, <3>3 DEF Proofs, Links, Steps, Codes
    <3>5. Used(local[r].on)
      BY <3>1, <3>4 DEF IInv, UsedInv
    <3>6. QED
      BY <3>1, <3>2, <3>3, <3>4, <3>5, <1>1 DEF TypeOK
  <2>3. QED
    BY <2>1, <2>2
<1>5. TypeOK'
  BY <1>1, <1>2, <1>4, EndFacts, EnterKeeps DEF TypeOK
<1>6. UsedInv'
  <2>1. \A i \in Ids : ~Used(i)' => links'[i] = 0
    BY <1>1, <1>4, EndFacts DEF IInv, UsedInv
  <2>2. \A i \in Ids : ~Used(i)' => sessions'[i].version = 0 /\ challenges'[i].version = 0
    BY <1>1, <1>2, EnterKeeps
  <2>3. \A p \in spent' : Used(p.of)'
    BY <1>1, <1>4, EndFacts, SpentType
  <2>4. (/\ \A j \in 1..Len(account.codes) : Used(account.codes[j].of)
         /\ \A i \in Ids : i = account.secret \/ i = pending => Used(i))'
    BY <1>1, EndFacts DEF IInv, UsedInv
  <2>5. QED
    BY <2>1, <2>2, <2>3, <2>4, <1>1, <1>3, FinishKeepsCalls DEF UsedInv
<1>7. VersionInv'
  BY <1>1, <1>2, <1>3, EnterKeeps, FinishKeepsCalls DEF VersionInv
<1>8. CurrentInv'
  BY <1>1, <1>2, <1>3, EnterKeeps, FinishKeepsCalls DEF CurrentInv
<1>9. FitsInv'
  BY <1>1, <1>3, FinishKeepsCalls
<1>10. PendingInv'
  <2>1. \A q \in Requests : Saw(q)'.secret \in {Saw(q).secret, NoOne}
    BY <1>1, <1>3, FinishKeepsCalls
  <2>2. \A p \in spent' : p.kind = "step" => p \in spent
    BY <1>4
  <2>3. QED
    BY <2>1, <2>2, <1>1 DEF IInv, PendingInv
<1>11. SpentInv'
  <2>1. \A p \in spent' : p.kind # "link" => p \in spent
    BY <1>4
  <2>2. \A p \in spent' : p.kind = "link" => links'[p.of] = 0
    BY <1>4, SpentType DEF IInv, SpentInv
  <2>3. \A i \in 1..Len(account.codes) : account.codes[i].kind = "code"
    BY <1>3, CodeKind
  <2>4. QED
    BY <2>1, <2>2, <2>3, <1>1 DEF IInv, SpentInv
<1>12. QED
  BY <1>5, <1>6, <1>7, <1>8, <1>9, <1>10, <1>11 DEF IInv

LEMMA ReserveAttemptKeeps ==
  ASSUME CustomerAuthAssumption, IInv, NEW r \in Requests, NEW ch \in Ids, ReserveAttempt(r, ch)
  PROVE  IInv'
<1> DEFINE l == [Blank EXCEPT !.on = ch]
<1>1. TypeOK /\ pc[r] # "done" /\ Goto(r, "readMfa", l)
      /\ UNCHANGED <<account, pending, links, sessions, spent>>
  BY DEF IInv, ReserveAttempt
<1>2. /\ l \in Locals /\ l.saw = Nothing /\ l.proof.of = NoOne /\ Fits("readMfa", l)
      /\ "readMfa" \in Places
  BY BlankType DEF Blank, Locals, NoProof, Fits, Optional, Places
<1>3. SawOk(Nothing) /\ Nothing.codes = << >> /\ Nothing.secret = NoOne
  BY NothingIsOk DEF Nothing, NoCodes
<1> HIDE DEF l
<1>4. /\ pc'[r] = "readMfa" /\ local'[r] = l
      /\ \A q \in Requests \ {r} : pc'[q] = pc[q] /\ local'[q] = local[q]
  BY <1>1, <1>2 DEF TypeOK, Goto
<1>5. \A i : Used(i) => Used(i)'
  BY <1>1, <1>2 DEF Used, TypeOK, Goto
<1>6. /\ challenges' \in [Ids -> Challenges]
      /\ \A i \in Ids : challenges'[i].version = challenges[i].version
                        /\ challenges'[i].password = challenges[i].password
  <2>1. challenges[ch].attempts + 1 \in 0..Limit
    BY <1>1 DEF ReserveAttempt, AttemptLeft, TypeOK, Challenges, CustomerAuthAssumption
  <2> DEFINE t == [challenges[ch] EXCEPT !.attempts = @ + 1]
  <2>2. challenges' = [challenges EXCEPT ![ch] = t]
    BY DEF ReserveAttempt
  <2>3. challenges[ch] \in Challenges
    BY <1>1 DEF TypeOK
  <2>4. /\ t \in Challenges /\ t.version = challenges[ch].version
        /\ t.password = challenges[ch].password
    BY <2>1, <2>3 DEF Challenges
  <2> HIDE DEF t
  <2>5. QED
    BY <2>2, <2>4, <1>1 DEF TypeOK
<1>7. TypeOK'
  BY <1>1, <1>2, <1>6 DEF TypeOK, Goto
<1>8. UsedInv'
  <2>1. \A q \in Requests :
          /\ \A j \in 1..Len(local'[q].saw.codes) : Used(local'[q].saw.codes[j].of)
          /\ local'[q].saw.secret # NoOne => Used(local'[q].saw.secret)
          /\ local'[q].proof.of # NoOne => Used(local'[q].proof.of)
    BY <1>2, <1>3, <1>4 DEF IInv, UsedInv, Saw
  <2>2. QED
    BY <2>1, <1>1, <1>5, <1>6 DEF IInv, UsedInv, Saw
<1>9. VersionInv'
  BY <1>1, <1>2, <1>3, <1>4, <1>6 DEF IInv, VersionInv, SawOk, Saw
<1>10. CurrentInv'
  BY <1>1, <1>2, <1>3, <1>4, <1>6 DEF IInv, CurrentInv, SawOk, Saw
<1>11. FitsInv'
  BY <1>2, <1>4 DEF IInv, FitsInv
<1>12. PendingInv'
  BY <1>1, <1>2, <1>3, <1>4 DEF IInv, PendingInv, SawOk, Saw
<1>13. SpentInv'
  BY <1>1 DEF IInv, SpentInv
<1>14. QED
  BY <1>7, <1>8, <1>9, <1>10, <1>11, <1>12, <1>13 DEF IInv

LEMMA LogoutKeeps ==
  ASSUME CustomerAuthAssumption, IInv, NEW s \in Ids, Logout(s)
  PROVE  IInv'
<1>1. /\ sessions' = [sessions EXCEPT ![s].revoked = TRUE]
      /\ UNCHANGED <<account, pending, links, challenges, pc, local, spent>>
  BY DEF Logout, calls
<1>2. /\ sessions' \in [Ids -> Sessions]
      /\ \A i \in Ids : /\ sessions'[i].version = sessions[i].version
                        /\ sessions'[i].password = sessions[i].password
                        /\ sessions'[i].factor = sessions[i].factor
  <2>1. sessions \in [Ids -> Sessions] /\ sessions[s] \in Sessions
    BY DEF IInv, TypeOK
  <2> DEFINE t == [sessions[s] EXCEPT !.revoked = TRUE]
  <2>2. /\ t \in Sessions /\ t.version = sessions[s].version
        /\ t.password = sessions[s].password /\ t.factor = sessions[s].factor
    BY <2>1 DEF Sessions
  <2>3. sessions' = [sessions EXCEPT ![s] = t]
    BY <1>1
  <2> HIDE DEF t
  <2>4. QED
    BY <2>1, <2>2, <2>3
<1>3. TypeOK' /\ FitsInv' /\ PendingInv' /\ SpentInv'
  BY <1>1, <1>2 DEF IInv, TypeOK, FitsInv, PendingInv, SpentInv, Saw
<1>4. UsedInv'
  BY <1>1, <1>2 DEF IInv, UsedInv, Saw, Used
<1>5. VersionInv' /\ CurrentInv'
  BY <1>1, <1>2 DEF IInv, VersionInv, CurrentInv, Saw
<1>6. QED
  BY <1>3, <1>4, <1>5 DEF IInv

LEMMA PutPendingKeeps ==
  ASSUME CustomerAuthAssumption, IInv, NEW r \in Requests, PutPending(r)
  PROVE  IInv'
<1>1. /\ TypeOK /\ r \in Ids /\ pc[r] # "done" /\ End(r) /\ pending' = r
      /\ UNCHANGED <<account, links, sessions, challenges, spent>>
  BY DEF IInv, Ids, PutPending
<1>2. account \in Accounts /\ account.version \in Nat
  BY <1>1 DEF TypeOK, Accounts
<1>3. ~Used(r) /\ r # NoOne
  BY <1>1, EndFacts DEF CustomerAuthAssumption
<1>4. TypeOK'
  BY <1>1, EndFacts DEF TypeOK, Optional
<1>5. UsedInv'
  <2>1. \A i \in Ids : ~Used(i)' => links'[i] = 0 /\ sessions'[i].version = 0
                                      /\ challenges'[i].version = 0
    BY <1>1, EndFacts DEF IInv, UsedInv
  <2>2. \A p \in spent' : Used(p.of)'
    BY <1>1, EndFacts, SpentType
  <2>3. (/\ \A j \in 1..Len(account.codes) : Used(account.codes[j].of)
         /\ \A i \in Ids : i = account.secret \/ i = pending => Used(i))'
    BY <1>1, EndFacts DEF IInv, UsedInv
  <2>4. QED
    BY <2>1, <2>2, <2>3, <1>1, <1>2, FinishKeepsCalls DEF UsedInv
<1>6. VersionInv'
  BY <1>1, <1>2, FinishKeepsCalls DEF IInv, VersionInv
<1>7. CurrentInv'
  BY <1>1, <1>2, FinishKeepsCalls DEF IInv, CurrentInv
<1>8. FitsInv'
  BY <1>1, <1>2, FinishKeepsCalls
<1>9. PendingInv'
  <2>1. account.secret # r
    BY <1>1, <1>3 DEF IInv, UsedInv
  <2>2. \A q \in Requests : Saw(q).secret # r
    BY <1>3 DEF IInv, UsedInv
  <2>3. \A q \in Requests : Saw(q)'.secret # r
    BY <2>2, <1>1, <1>2, <1>3, FinishKeepsCalls
  <2>4. \A p \in spent : p.of # r
    BY <1>3, SpentType
  <2>5. QED
    BY <2>1, <2>3, <2>4, <1>1 DEF PendingInv
<1>10. SpentInv'
  BY <1>1 DEF IInv, SpentInv
<1>11. QED
  BY <1>4, <1>5, <1>6, <1>7, <1>8, <1>9, <1>10 DEF IInv
------------------------------------------------------------------------------
(* Proofs are spent *)

LEMMA ProofType ==
  ASSUME CustomerAuthAssumption, IInv, NEW r \in Requests,
         local[r].proof.kind \in {"step", "code"}
  PROVE  /\ local[r].proof \in Steps \cup Codes
         /\ local[r].proof.kind = "step" => local[r].proof \in Steps
         /\ local[r].proof.kind = "code" => local[r].proof \in Codes
         /\ local[r].proof.of \in Ids /\ Used(local[r].proof.of)
<1>1. local[r].proof \in Proofs \cup {NoProof}
  BY LocalType DEF IInv
<1>2. local[r].proof \in Steps \cup Codes
  BY <1>1 DEF NoProof, Proofs, Links
<1>3. /\ local[r].proof.kind = "step" => local[r].proof \in Steps
      /\ local[r].proof.kind = "code" => local[r].proof \in Codes
      /\ local[r].proof.of \in Ids
  BY <1>2 DEF Steps, Codes
<1>4. Used(local[r].proof.of)
  BY <1>3 DEF IInv, UsedInv, CustomerAuthAssumption, Ids
<1>5. QED
  BY <1>2, <1>3, <1>4

\* A proof of the secret in force that stands has not been spent.
LEMMA StandingIsFresh ==
  ASSUME CustomerAuthAssumption, IInv, NEW r \in Requests,
         local[r].proof.kind \in {"step", "code"},
         local[r].proof.kind = "step" => local[r].proof.of = account.secret,
         ProofStands(r)
  PROVE  local[r].proof \notin spent
<1>1. CASE local[r].proof.kind = "step"
  <2>1. local[r].proof.n \in Nat /\ account.lastStep \in Nat
    BY <1>1, ProofType DEF IInv, TypeOK, Accounts, Steps
  <2>2. account.lastStep < local[r].proof.n
    BY <1>1 DEF ProofStands
  <2>3. QED
    BY <1>1, <2>1, <2>2 DEF IInv, SpentInv
<1>2. CASE local[r].proof.kind = "code"
  BY <1>2 DEF ProofStands, IInv, SpentInv
<1>3. QED
  BY <1>1, <1>2

LEMMA LastStepType ==
  ASSUME CustomerAuthAssumption, IInv, NEW r \in Requests,
         local[r].proof.kind \in {"step", "code"}
  PROVE  LastStep(r) \in 0..MaxStep
BY ProofType DEF LastStep, IInv, TypeOK, Accounts, Steps

\* The list of codes after the proof has been used up.
LEMMA CodesLeft ==
  ASSUME CustomerAuthAssumption, IInv, NEW r \in Requests, ProofStands(r),
         local[r].proof.kind = "code"
  PROVE  LET left == RemoveAt(account.codes, IndexOf(r)) IN
         /\ left \in Seq(Codes) /\ Len(left) <= CodeCount
         /\ \A j \in 1..Len(left) :
              left[j] # local[r].proof /\ \E k \in 1..Len(account.codes) : left[j] = account.codes[k]
         /\ \A j, k \in 1..Len(left) : left[j] = left[k] => j = k
<1> DEFINE codes == account.codes
           i     == IndexOf(r)
           left  == RemoveAt(codes, i)
<1>1. /\ codes \in Seq(Codes) /\ Len(codes) <= CodeCount /\ i \in 1..Len(codes)
      /\ codes[i] = local[r].proof
      /\ \A j, k \in 1..Len(codes) : codes[j] = codes[k] => j = k
  BY DEF ProofStands, IInv, TypeOK, Accounts, SpentInv
<1> HIDE DEF codes, i
<1>2. /\ left \in Seq(Codes) /\ Len(left) = Len(codes) - 1
      /\ \A j \in 1..Len(codes) - 1 : /\ j < i => left[j] = codes[j]
                                      /\ j >= i => left[j] = codes[j + 1]
  BY <1>1, Removed
<1> HIDE DEF left
<1>3. Len(left) <= CodeCount
  BY <1>1, <1>2 DEF CustomerAuthAssumption
<1>4. ASSUME NEW j \in 1..Len(left)
      PROVE  /\ left[j] # codes[i]
             /\ \E k \in 1..Len(codes) : left[j] = codes[k]
  <2>1. CASE j < i
    BY <2>1, <1>1, <1>2
  <2>2. CASE j >= i
    BY <2>2, <1>1, <1>2
  <2>3. QED
    BY <2>1, <2>2, <1>1
<1>5. ASSUME NEW j \in 1..Len(left), NEW k \in 1..Len(left), left[j] = left[k]
      PROVE  j = k
  <2>1. CASE j < i /\ k < i
    BY <2>1, <1>1, <1>2, <1>5
  <2>2. CASE j >= i /\ k >= i
    BY <2>2, <1>1, <1>2, <1>5
  <2>3. CASE j < i /\ k >= i
    BY <2>3, <1>1, <1>2, <1>5
  <2>4. CASE j >= i /\ k < i
    BY <2>4, <1>1, <1>2, <1>5
  <2>5. QED
    BY <2>1, <2>2, <2>3, <2>4, <1>1
<1>6. QED
  BY <1>1, <1>2, <1>3, <1>4, <1>5 DEF left, codes, i

LEMMA OpenMfaKeeps ==
  ASSUME CustomerAuthAssumption, IInv, NEW r \in Requests, OpenMfa(r)
  PROVE  IInv' /\ local[r].proof \notin spent
<1> DEFINE ch == local[r].on
           p  == local[r].proof
           t  == [version |-> Saw(r).version, revoked |-> FALSE,
                  password |-> challenges[ch].password, factor |-> Saw(r).secret]
<1>1. /\ TypeOK /\ r \in Ids /\ pc[r] = "openMfa" /\ End(r) /\ ProofStands(r)
      /\ spent' = spent \cup {p} /\ pending' = pending /\ links' = links
      /\ challenges[ch].version = Saw(r).version /\ account.version = Saw(r).version
      /\ account.secret # NoOne
      /\ sessions' = [sessions EXCEPT ![r] = t]
      /\ challenges' = [challenges EXCEPT ![ch] = NoChallenge]
  BY DEF IInv, Ids, OpenMfa, Spend
<1>2. /\ ch \in Ids /\ p.kind \in {"step", "code"}
      /\ p.kind = "step" => p.of = Saw(r).secret
  BY <1>1 DEF IInv, FitsInv, Fits, Saw
<1>3. Saw(r).secret = account.secret /\ Saw(r).version \in Nat /\ Saw(r).secret \in Optional
  BY <1>1, LocalType DEF IInv, CurrentInv, Accounts
<1>4. p \notin spent
  BY <1>1, <1>2, <1>3, StandingIsFresh
<1>5. /\ account' \in Accounts /\ Len(account'.codes) <= CodeCount
      /\ account'.version = account.version /\ account'.password = account.password
      /\ account'.secret = account.secret /\ account'.lastStep = LastStep(r)
      /\ p.kind = "step" => account'.codes = account.codes
      /\ p.kind = "code" => account'.codes = RemoveAt(account.codes, IndexOf(r))
  <2>1. PICK left \in Seq(Codes) :
          /\ account' = [account EXCEPT !.lastStep = LastStep(r), !.codes = left]
          /\ Len(left) <= CodeCount
          /\ p.kind = "step" => left = account.codes
          /\ p.kind = "code" => left = RemoveAt(account.codes, IndexOf(r))
    <3>1. CASE p.kind = "step"
      BY <3>1 DEF OpenMfa, IInv, TypeOK, Accounts
    <3>2. CASE p.kind = "code"
      BY <3>2, <1>1, CodesLeft DEF OpenMfa
    <3>3. QED
      BY <3>1, <3>2, <1>2
  <2>2. account \in Accounts /\ LastStep(r) \in 0..MaxStep
    BY <1>1, <1>2, LastStepType DEF TypeOK
  <2>3. QED
    BY <2>1, <2>2 DEF Accounts
<1>6. /\ sessions' \in [Ids -> Sessions] /\ challenges' \in [Ids -> Challenges]
      /\ \A i \in Ids : sessions'[i] = IF i = r THEN t ELSE sessions[i]
      /\ \A i \in Ids : challenges'[i] = IF i = ch THEN NoChallenge ELSE challenges[i]
  <2>1. challenges[ch] \in Challenges
    BY <1>1, <1>2 DEF TypeOK
  <2>2. t \in Sessions
    BY <2>1, <1>3 DEF Sessions, Challenges
  <2>3. NoChallenge \in Challenges
    BY DEF NoChallenge, Challenges, Optional, CustomerAuthAssumption
  <2>4. QED
    BY <1>1, <1>2, <2>2, <2>3 DEF TypeOK
<1>7. /\ t.version = account.version /\ t.factor = account.secret
      /\ t.password \in {NoOne, account.password}
      /\ NoChallenge.version = 0 /\ account.version > 0
  BY <1>1, <1>2, <1>3 DEF IInv, CurrentInv, VersionInv, NoChallenge
<1> HIDE DEF t
<1>8. TypeOK'
  BY <1>1, <1>2, <1>5, <1>6, EndFacts, ProofType DEF TypeOK, Proofs
<1>9. UsedInv'
  <2>1. \A i \in Ids : ~Used(i)' => links'[i] = 0 /\ sessions'[i].version = 0
                                      /\ challenges'[i].version = 0
    BY <1>1, <1>6, <1>7, EndFacts DEF IInv, UsedInv
  <2>2. \A q \in spent' : Used(q.of)'
    BY <1>1, <1>2, EndFacts, SpentType, ProofType
  <2>3. \A j \in 1..Len(account'.codes) : Used(account'.codes[j].of)
    <3>1. CASE p.kind = "step"
      BY <3>1, <1>5 DEF IInv, UsedInv
    <3>2. CASE p.kind = "code"
      <4>1. \A j \in 1..Len(account.codes) : Used(account.codes[j].of)
        BY DEF IInv, UsedInv
      <4>2. QED
        BY <4>1, <3>2, <1>1, <1>5, CodesLeft
    <3>3. QED
      BY <3>1, <3>2, <1>2
  <2>4. (/\ \A j \in 1..Len(account.codes) : Used(account.codes[j].of)
         /\ \A i \in Ids : i = account.secret \/ i = pending => Used(i))'
    BY <1>1, <1>5, <2>3, EndFacts DEF IInv, UsedInv
  <2>5. QED
    BY <2>1, <2>2, <2>4, <1>1, <1>5, FinishKeepsCalls DEF UsedInv
<1>10. VersionInv'
  <2>1. \A i \in Ids : /\ sessions'[i].version <= account'.version
                       /\ challenges'[i].version <= account'.version
    BY <1>1, <1>3, <1>5, <1>6, <1>7 DEF IInv, VersionInv
  <2>2. QED
    BY <2>1, <1>1, <1>5, FinishKeepsCalls DEF VersionInv
<1>11. CurrentInv'
  BY <1>1, <1>5, <1>6, <1>7, FinishKeepsCalls DEF IInv, CurrentInv
<1>12. FitsInv'
  BY <1>1, <1>5, FinishKeepsCalls
<1>13. PendingInv'
  <2>1. \A q \in Requests : Saw(q)'.secret \in {Saw(q).secret, NoOne}
    BY <1>1, <1>5, FinishKeepsCalls
  <2>2. pending # NoOne /\ p.kind = "step" => p.of # pending
    BY <1>2, <1>3 DEF IInv, PendingInv
  <2>3. QED
    BY <2>1, <2>2, <1>1, <1>5 DEF IInv, PendingInv
<1>14. SpentInv'
  <2>1. \A q \in spent' : q.kind = "link" => links'[q.of] = 0
    BY <1>1, <1>2 DEF IInv, SpentInv
  <2>2. CASE p.kind = "step"
    <3>1. p.n \in Nat /\ account.lastStep \in Nat /\ account.lastStep < p.n
          /\ account'.lastStep = p.n
      BY <2>2, <1>1, <1>5, ProofType DEF TypeOK, Accounts, Steps, LastStep, ProofStands
    <3>2. \A q \in spent' : q.kind = "step" /\ q.of = account'.secret => q.n <= account'.lastStep
      <4>1. ASSUME NEW q \in spent, q.kind = "step", q.of = account.secret
            PROVE  q.n <= p.n
        <5>1. q.n \in Nat
          BY <4>1, StepNumber
        <5>2. QED
          BY <4>1, <5>1, <3>1 DEF IInv, SpentInv
      <4>2. \A q \in spent : q.kind = "step" /\ q.of = account.secret => q.n <= p.n
        BY <4>1
      <4>3. p.n <= p.n
        BY <3>1
      <4>4. \A q \in spent' : q \in spent \/ q = p
        BY <1>1
      <4>5. QED
        BY <4>2, <4>3, <4>4, <3>1, <1>5
    <3>3. \A i \in 1..Len(account.codes) : account.codes[i].kind = "code"
      BY <1>1, CodeKind DEF TypeOK
    <3>4. account'.codes = account.codes
      BY <2>2, <1>5
    <3>5. \A i \in 1..Len(account.codes) : account.codes[i] \notin spent'
      BY <3>3, <2>2, <1>1 DEF IInv, SpentInv
    <3>6. \A i, j \in 1..Len(account.codes) : account.codes[i] = account.codes[j] => i = j
      BY DEF IInv, SpentInv
    <3>7. QED
      BY <2>1, <3>2, <3>4, <3>5, <3>6 DEF SpentInv
  <2>3. CASE p.kind = "code"
    <3>1. account'.lastStep = account.lastStep
      BY <2>3, <1>5 DEF LastStep
    <3>2. /\ \A j \in 1..Len(account'.codes) : account'.codes[j] \notin spent'
          /\ \A j, k \in 1..Len(account'.codes) : account'.codes[j] = account'.codes[k] => j = k
      <4>1. \A j \in 1..Len(account.codes) : account.codes[j] \notin spent
        BY DEF IInv, SpentInv
      <4>2. QED
        BY <4>1, <2>3, <1>1, <1>5, CodesLeft
    <3>3. QED
      BY <2>1, <2>3, <3>1, <3>2, <1>1, <1>5 DEF IInv, SpentInv
  <2>4. QED
    BY <2>2, <2>3, <1>2
<1>15. QED
  BY <1>4, <1>8, <1>9, <1>10, <1>11, <1>12, <1>13, <1>14 DEF IInv
------------------------------------------------------------------------------
(* Changes raise the version *)

\* What every change finds, and the session it takes along.
LEMMA ChangeFacts ==
  ASSUME CustomerAuthAssumption, IInv, NEW r \in Requests, NEW op, NEW t, Change(r, op, t)
  PROVE  /\ TypeOK /\ r \in Ids /\ pc[r] = "commit" /\ local[r].op = op /\ End(r)
         /\ local[r].on \in Ids /\ sessions[local[r].on].version = account.version
         /\ sessions' = [sessions EXCEPT ![local[r].on] = t]
         /\ links' = links /\ challenges' = challenges
         /\ account.version \in Nat /\ account.version > 0
BY DEF Change, Fenced, IInv, TypeOK, FitsInv, Fits, VersionInv, Accounts, Ids

LEMMA MigratedType ==
  ASSUME CustomerAuthAssumption, IInv, NEW r \in Requests, NEW op, NEW t, Change(r, op, t)
  PROVE  /\ Migrated(r) \in Sessions
         /\ Migrated(r).version = account.version + 1
         /\ Migrated(r).password \in {NoOne, account.password}
         /\ account.secret # NoOne => Migrated(r).factor = account.secret
<1>1. sessions[local[r].on] \in Sessions /\ account.version + 1 \in Nat
  BY ChangeFacts DEF TypeOK
<1>2. /\ sessions[local[r].on].password \in {NoOne, account.password}
      /\ account.secret # NoOne => sessions[local[r].on].factor = account.secret
  BY ChangeFacts DEF IInv, CurrentInv
<1>3. QED
  BY <1>1, <1>2 DEF Migrated, Sessions

\* The part of the invariant that a change leaves in order whatever it sets.
LEMMA ChangeKeeps ==
  ASSUME CustomerAuthAssumption, IInv, NEW r \in Requests, NEW op, NEW t \in Sessions,
         Change(r, op, t),
         account' \in Accounts, Len(account'.codes) <= CodeCount,
         account'.version = account.version + 1,
         t.version <= account'.version,
         t.version = account'.version =>
           /\ t.password \in {NoOne, account'.password}
           /\ account'.secret # NoOne => t.factor = account'.secret,
         \A j \in 1..Len(account'.codes) :
           account'.codes[j].of = r \/ Used(account'.codes[j].of),
         account'.secret \in {account.secret, NoOne, pending}, pending' \in {pending, NoOne},
         spent' = spent \/ /\ spent' = spent \cup {local[r].proof}
                           /\ local[r].proof.kind \in {"step", "code"}
  PROVE  TypeOK' /\ UsedInv' /\ VersionInv' /\ CurrentInv' /\ FitsInv'
<1> DEFINE s == local[r].on
<1>1. /\ TypeOK /\ r \in Ids /\ pc[r] # "done" /\ End(r) /\ s \in Ids
      /\ sessions' = [sessions EXCEPT ![s] = t]
      /\ links' = links /\ challenges' = challenges
      /\ account.version \in Nat /\ account.version > 0 /\ sessions[s].version = account.version
  BY ChangeFacts
<1>2. /\ sessions' \in [Ids -> Sessions]
      /\ \A i \in Ids : sessions'[i] = IF i = s THEN t ELSE sessions[i]
  BY <1>1 DEF TypeOK
<1>3. Used(s)
  BY <1>1 DEF IInv, UsedInv
<1>4. \A p \in spent' : p \in Proofs /\ Used(p.of)
  <2>1. \A p \in spent : p \in Proofs /\ Used(p.of)
    BY SpentType DEF IInv, TypeOK
  <2>2. local[r].proof.kind \in {"step", "code"} =>
          local[r].proof \in Proofs /\ Used(local[r].proof.of)
    BY ProofType DEF Proofs
  <2>3. QED
    BY <2>1, <2>2
<1>5. TypeOK'
  <2>1. pending' \in Optional
    BY <1>1 DEF TypeOK, Optional
  <2>2. QED
    BY <2>1, <1>1, <1>2, <1>4, EndFacts DEF TypeOK
<1>6. \A i \in Ids : /\ sessions[i].version \in Nat /\ sessions[i].version <= account.version
                     /\ challenges[i].version \in Nat
                     /\ challenges[i].version <= account.version
  BY <1>1 DEF TypeOK, Sessions, Challenges, IInv, VersionInv
<1>7. UsedInv'
  <2>1. \A i : Used(i) => Used(i)'
    BY <1>1, EndFacts
  <2>2. \A i \in Ids : ~Used(i)' => links'[i] = 0 /\ sessions'[i].version = 0
                                      /\ challenges'[i].version = 0
    BY <2>1, <1>1, <1>2, <1>3 DEF IInv, UsedInv
  <2>3. (\A p \in spent : Used(p.of))'
    BY <2>1, <1>4
  <2>4. (\A j \in 1..Len(account.codes) : Used(account.codes[j].of))'
    BY <2>1, <1>1, EndFacts
  <2>5. (\A i \in Ids : i = account.secret \/ i = pending => Used(i))'
    <3>1. \A i \in Ids : i = account.secret \/ i = pending => Used(i)
      BY DEF IInv, UsedInv
    <3>2. NoOne \notin Ids
      BY DEF Ids, CustomerAuthAssumption
    <3>3. QED
      BY <3>1, <3>2, <2>1
  <2>6. QED
    BY <2>2, <2>3, <2>4, <2>5, <1>1, FinishKeepsCalls DEF UsedInv
<1>8. VersionInv'
  <2>1. \A i \in Ids : /\ sessions'[i].version <= account'.version
                       /\ challenges'[i].version <= account'.version
    BY <1>1, <1>2, <1>6
  <2>2. QED
    BY <2>1, <1>1, FinishKeepsCalls DEF VersionInv
<1>9. CurrentInv'
  <2>1. \A i \in Ids : /\ sessions[i].version # account'.version
                       /\ challenges'[i].version # account'.version
    BY <1>1, <1>6
  <2>2. QED
    BY <2>1, <1>1, <1>2, FinishKeepsCalls DEF CurrentInv
<1>10. FitsInv'
  BY <1>1, FinishKeepsCalls
<1>11. QED
  BY <1>5, <1>7, <1>8, <1>9, <1>10

LEMMA SetCredentialsKeeps ==
  ASSUME CustomerAuthAssumption, IInv, NEW r \in Requests, SetCredentials(r)
  PROVE  IInv'
<1> DEFINE t == [Migrated(r) EXCEPT !.password = r]
<1>1. /\ Change(r, "set", t) /\ pending' = pending /\ spent' = spent
      /\ account' = [account EXCEPT !.version = @ + 1, !.password = r]
  BY DEF SetCredentials
<1>2. TypeOK /\ r \in Ids /\ account.version \in Nat /\ End(r) /\ pc[r] # "done"
  BY <1>1, ChangeFacts
<1>3. /\ account' \in Accounts /\ account'.version = account.version + 1
      /\ account'.password = r /\ account'.secret = account.secret
      /\ account'.codes = account.codes /\ account'.lastStep = account.lastStep
      /\ Len(account.codes) <= CodeCount
  <2>1. account \in Accounts /\ r \in Optional /\ account.version + 1 \in Nat
    BY <1>2 DEF TypeOK, Optional
  <2>2. QED
    BY <2>1, <1>1, <1>2 DEF Accounts, TypeOK
<1>4. /\ t \in Sessions /\ t.version = account.version + 1 /\ t.password = r
      /\ account.secret # NoOne => t.factor = account.secret
  BY <1>1, <1>2, MigratedType DEF Sessions, Optional
<1> HIDE DEF t
<1>5. \A j \in 1..Len(account.codes) : Used(account.codes[j].of)
  BY DEF IInv, UsedInv
<1>6. TypeOK' /\ UsedInv' /\ VersionInv' /\ CurrentInv' /\ FitsInv'
  BY <1>1, <1>2, <1>3, <1>4, <1>5, ChangeKeeps
<1>7. PendingInv'
  BY <1>1, <1>2, <1>3, FinishKeepsCalls DEF IInv, PendingInv
<1>8. SpentInv'
  BY <1>1, <1>3, ChangeFacts DEF IInv, SpentInv
<1>9. QED
  BY <1>6, <1>7, <1>8 DEF IInv

LEMMA RevokeAllSessionsKeeps ==
  ASSUME CustomerAuthAssumption, IInv, NEW r \in Requests, RevokeAllSessions(r)
  PROVE  IInv'
<1> DEFINE t == [sessions[local[r].on] EXCEPT !.revoked = TRUE]
<1>1. /\ Change(r, "revokeAll", t) /\ pending' = pending /\ spent' = spent
      /\ account' = [account EXCEPT !.version = @ + 1]
  BY DEF RevokeAllSessions
<1>2. /\ TypeOK /\ account.version \in Nat /\ End(r) /\ pc[r] # "done"
      /\ local[r].on \in Ids /\ sessions[local[r].on].version = account.version
  BY <1>1, ChangeFacts
<1>3. /\ account' \in Accounts /\ account'.version = account.version + 1
      /\ account'.secret = account.secret /\ account'.codes = account.codes
      /\ account'.lastStep = account.lastStep /\ Len(account.codes) <= CodeCount
  <2>1. account \in Accounts /\ account.version + 1 \in Nat
    BY <1>2 DEF TypeOK
  <2>2. QED
    BY <2>1, <1>1, <1>2 DEF Accounts, TypeOK
<1>4. t \in Sessions /\ t.version = account.version /\ t.version < account'.version
  <2>1. sessions[local[r].on] \in Sessions
    BY <1>2 DEF TypeOK
  <2>2. t \in Sessions /\ t.version = account.version
    BY <2>1, <1>2 DEF Sessions
  <2>3. QED
    BY <2>2, <1>2, <1>3
<1> HIDE DEF t
<1>5. \A j \in 1..Len(account.codes) : Used(account.codes[j].of)
  BY DEF IInv, UsedInv
<1>6. TypeOK' /\ UsedInv' /\ VersionInv' /\ CurrentInv' /\ FitsInv'
  BY <1>1, <1>2, <1>3, <1>4, <1>5, ChangeKeeps
<1>7. PendingInv'
  BY <1>1, <1>2, <1>3, FinishKeepsCalls DEF IInv, PendingInv
<1>8. SpentInv'
  BY <1>1, <1>3, ChangeFacts DEF IInv, SpentInv
<1>9. QED
  BY <1>6, <1>7, <1>8 DEF IInv

\* New backup codes are unspent, and different from the proof that the request used.
LEMMA NewCodesFresh ==
  ASSUME CustomerAuthAssumption, IInv, NEW r \in Requests, pc[r] # "done",
         local[r].proof.kind \in {"step", "code"}
  PROVE  /\ NewCodes(r) \in Seq(Codes) /\ Len(NewCodes(r)) = CodeCount
         /\ \A j \in 1..CodeCount : /\ NewCodes(r)[j].of = r
                                    /\ NewCodes(r)[j] \notin spent \cup {local[r].proof}
         /\ \A j, k \in 1..CodeCount : NewCodes(r)[j] = NewCodes(r)[k] => j = k
<1>1. r \in Ids /\ ~Used(r)
  BY DEF Ids, Used, CustomerAuthAssumption
<1>2. /\ NewCodes(r) \in Seq(Codes) /\ Len(NewCodes(r)) = CodeCount
      /\ \A j \in 1..CodeCount : NewCodes(r)[j].of = r
      /\ \A j, k \in 1..CodeCount : NewCodes(r)[j] = NewCodes(r)[k] => j = k
  BY <1>1, NewCodesType
<1>3. \A p \in spent \cup {local[r].proof} : p.of # r
  BY <1>1, SpentType, ProofType
<1>4. QED
  BY <1>2, <1>3

\* The step that stands is not before any that was spent on the secret in force.
LEMMA LastStepCovers ==
  ASSUME CustomerAuthAssumption, IInv, NEW r \in Requests,
         local[r].proof.kind \in {"step", "code"}, ProofStands(r)
  PROVE  \A q \in spent \cup {local[r].proof} :
           q.kind = "step" /\ q.of = account.secret => q.n <= LastStep(r)
<1>1. account.lastStep \in Nat
  BY DEF IInv, TypeOK, Accounts
<1>2. CASE local[r].proof.kind = "step"
  <2>1. /\ local[r].proof.n \in Nat /\ account.lastStep < local[r].proof.n
        /\ LastStep(r) = local[r].proof.n
    BY <1>2, ProofType DEF ProofStands, LastStep, Steps
  <2>2. ASSUME NEW q \in spent, q.kind = "step", q.of = account.secret
        PROVE  q.n <= LastStep(r)
    <3>1. q.n \in Nat /\ q.n <= account.lastStep
      BY <2>2, StepNumber DEF IInv, SpentInv
    <3>2. QED
      BY <3>1, <2>1, <1>1
  <2>3. local[r].proof.n <= LastStep(r)
    BY <2>1
  <2>4. QED
    BY <2>2, <2>3
<1>3. CASE local[r].proof.kind = "code"
  <2>1. LastStep(r) = account.lastStep
    BY <1>3 DEF LastStep
  <2>2. QED
    BY <2>1, <1>3 DEF IInv, SpentInv
<1>4. QED
  BY <1>2, <1>3

LEMMA RotateBackupCodesKeeps ==
  ASSUME CustomerAuthAssumption, IInv, NEW r \in Requests, RotateBackupCodes(r)
  PROVE  IInv'
<1> DEFINE p == local[r].proof
<1>1. /\ Change(r, "rotate", Migrated(r)) /\ ProofStands(r)
      /\ pending' = pending /\ spent' = spent \cup {p}
      /\ account' = [account EXCEPT !.version = @ + 1, !.lastStep = LastStep(r),
                                    !.codes = NewCodes(r)]
  BY DEF RotateBackupCodes, Spend
<1>2. /\ TypeOK /\ account.version \in Nat /\ End(r) /\ pc[r] = "commit"
      /\ local[r].op = "rotate" /\ links' = links
  BY <1>1, ChangeFacts
<1>3. p.kind \in {"step", "code"} /\ (p.kind = "step" => p.of = Saw(r).secret)
  BY <1>2 DEF IInv, FitsInv, Fits, Saw
<1>4. /\ account' \in Accounts /\ account'.version = account.version + 1
      /\ account'.password = account.password /\ account'.secret = account.secret
      /\ account'.codes = NewCodes(r) /\ account'.lastStep = LastStep(r)
  <2>1. /\ account \in Accounts /\ account.version + 1 \in Nat
        /\ LastStep(r) \in 0..MaxStep /\ NewCodes(r) \in Seq(Codes)
    BY <1>2, <1>3, LastStepType, NewCodesFresh DEF TypeOK
  <2>2. QED
    BY <2>1, <1>1 DEF Accounts
<1>5. /\ Len(account'.codes) <= CodeCount
      /\ \A j \in 1..Len(account'.codes) :
           account'.codes[j].of = r /\ account'.codes[j] \notin spent'
      /\ \A j, k \in 1..Len(account'.codes) : account'.codes[j] = account'.codes[k] => j = k
  BY <1>1, <1>2, <1>3, <1>4, NewCodesFresh DEF CustomerAuthAssumption
<1>6. TypeOK' /\ UsedInv' /\ VersionInv' /\ CurrentInv' /\ FitsInv'
  <2>1. Migrated(r) \in Sessions /\ Migrated(r).version = account'.version
        /\ Migrated(r).version <= account'.version
    BY <1>1, <1>2, <1>4, MigratedType
  <2>2. /\ Migrated(r).password \in {NoOne, account'.password}
        /\ account'.secret # NoOne => Migrated(r).factor = account'.secret
    BY <1>1, <1>4, MigratedType
  <2>3. QED
    BY <2>1, <2>2, <1>1, <1>3, <1>4, <1>5, ChangeKeeps
<1>7. PendingInv'
  <2>1. \A q \in Requests : Saw(q)'.secret \in {Saw(q).secret, NoOne}
    BY <1>2, <1>4, FinishKeepsCalls
  <2>2. pending # NoOne /\ p.kind = "step" => p.of # pending
    BY <1>3 DEF IInv, PendingInv
  <2>3. QED
    BY <2>1, <2>2, <1>1, <1>4 DEF IInv, PendingInv
<1>8. SpentInv'
  <2>1. \A q \in spent' : q.kind = "step" /\ q.of = account'.secret => q.n <= account'.lastStep
    BY <1>1, <1>3, <1>4, LastStepCovers
  <2>2. \A q \in spent' : q.kind = "link" => links'[q.of] = 0
    BY <1>1, <1>2, <1>3 DEF IInv, SpentInv
  <2>3. QED
    BY <2>1, <2>2, <1>5 DEF SpentInv
<1>9. QED
  BY <1>6, <1>7, <1>8 DEF IInv

LEMMA DisableTotpKeeps ==
  ASSUME CustomerAuthAssumption, IInv, NEW r \in Requests, DisableTotp(r)
  PROVE  IInv'
<1> DEFINE p == local[r].proof
<1>1. /\ Change(r, "disable", Migrated(r)) /\ pending' = pending /\ spent' = spent \cup {p}
      /\ account' = [account EXCEPT !.version = @ + 1, !.secret = NoOne,
                                    !.lastStep = 0, !.codes = NoCodes]
  BY DEF DisableTotp, Spend
<1>2. /\ TypeOK /\ account.version \in Nat /\ End(r) /\ pc[r] = "commit"
      /\ local[r].op = "disable" /\ links' = links
  BY <1>1, ChangeFacts
<1>3. p.kind \in {"step", "code"} /\ (p.kind = "step" => p.of = Saw(r).secret)
  BY <1>2 DEF IInv, FitsInv, Fits, Saw
<1>4. /\ account' \in Accounts /\ account'.version = account.version + 1
      /\ account'.password = account.password /\ account'.secret = NoOne
      /\ account'.codes = << >>
  <2>1. /\ account \in Accounts /\ account.version + 1 \in Nat /\ NoOne \in Optional
        /\ 0 \in 0..MaxStep /\ NoCodes = << >> /\ << >> \in Seq(Codes)
    BY <1>2 DEF TypeOK, Optional, NoCodes, CustomerAuthAssumption
  <2>2. QED
    BY <2>1, <1>1 DEF Accounts
<1>5. Len(account'.codes) = 0 /\ Len(account'.codes) <= CodeCount
  BY <1>4 DEF CustomerAuthAssumption
<1>6. TypeOK' /\ UsedInv' /\ VersionInv' /\ CurrentInv' /\ FitsInv'
  <2>1. /\ Migrated(r) \in Sessions /\ Migrated(r).version = account'.version
        /\ Migrated(r).version <= account'.version
        /\ Migrated(r).password \in {NoOne, account'.password}
    BY <1>1, <1>2, <1>4, MigratedType
  <2>2. \A j \in 1..Len(account'.codes) :
          account'.codes[j].of = r \/ Used(account'.codes[j].of)
    BY <1>5
  <2>3. QED
    BY <2>1, <2>2, <1>1, <1>3, <1>4, <1>5, ChangeKeeps
<1>7. PendingInv'
  <2>1. \A q \in Requests : Saw(q)'.secret \in {Saw(q).secret, NoOne}
    BY <1>2, <1>4, FinishKeepsCalls
  <2>2. pending # NoOne /\ p.kind = "step" => p.of # pending
    BY <1>3 DEF IInv, PendingInv
  <2>3. QED
    BY <2>1, <2>2, <1>1, <1>4 DEF IInv, PendingInv
<1>8. SpentInv'
  <2>1. \A q \in spent' : q.of # NoOne
    <3>1. NoOne \notin Ids
      BY DEF Ids, CustomerAuthAssumption
    <3>2. QED
      BY <3>1, <1>1, <1>3, SpentType, ProofType
  <2>2. \A q \in spent' : q.kind = "link" => links'[q.of] = 0
    BY <1>1, <1>2, <1>3 DEF IInv, SpentInv
  <2>3. QED
    BY <2>1, <2>2, <1>4, <1>5 DEF SpentInv
<1>9. QED
  BY <1>6, <1>7, <1>8 DEF IInv

LEMMA EnableTotpKeeps ==
  ASSUME CustomerAuthAssumption, IInv, NEW r \in Requests, EnableTotp(r)
  PROVE  IInv'
<1> DEFINE p == local[r].proof
           t == [Migrated(r) EXCEPT !.factor = p.of]
<1>1. /\ Change(r, "confirm", t) /\ pending = p.of /\ pending' = NoOne
      /\ spent' = spent \cup {p}
      /\ account' = [account EXCEPT !.version = @ + 1, !.secret = p.of,
                                    !.lastStep = p.n, !.codes = NewCodes(r)]
  BY DEF EnableTotp, Spend
<1>2. /\ TypeOK /\ account.version \in Nat /\ End(r) /\ pc[r] = "commit"
      /\ local[r].op = "confirm" /\ links' = links
  BY <1>1, ChangeFacts
<1>3. p.kind = "step"
  BY <1>2 DEF IInv, FitsInv, Fits
<1>4. p \in Steps /\ p.n \in 0..MaxStep /\ p.n \in Nat /\ p.of \in Ids /\ p.of # NoOne
  BY <1>3, ProofType DEF Steps, Ids, CustomerAuthAssumption
<1>5. /\ account' \in Accounts /\ account'.version = account.version + 1
      /\ account'.password = account.password /\ account'.secret = p.of
      /\ account'.codes = NewCodes(r) /\ account'.lastStep = p.n
  <2>1. /\ account \in Accounts /\ account.version + 1 \in Nat
        /\ p.of \in Optional /\ NewCodes(r) \in Seq(Codes)
    BY <1>2, <1>3, <1>4, NewCodesFresh DEF TypeOK, Optional
  <2>2. QED
    BY <2>1, <1>1, <1>4 DEF Accounts
<1>6. /\ Len(account'.codes) <= CodeCount
      /\ \A j \in 1..Len(account'.codes) :
           account'.codes[j].of = r /\ account'.codes[j] \notin spent'
      /\ \A j, k \in 1..Len(account'.codes) : account'.codes[j] = account'.codes[k] => j = k
  BY <1>1, <1>2, <1>3, <1>5, NewCodesFresh DEF CustomerAuthAssumption
<1>7. /\ t \in Sessions /\ t.version = account'.version /\ t.version <= account'.version
      /\ t.password \in {NoOne, account'.password} /\ t.factor = account'.secret
  <2>1. /\ Migrated(r) \in Sessions /\ Migrated(r).version = account.version + 1
        /\ Migrated(r).password \in {NoOne, account.password} /\ p.of \in Optional
    BY <1>1, <1>4, MigratedType DEF Optional
  <2>2. /\ t \in Sessions /\ t.version = account.version + 1
        /\ t.password = Migrated(r).password /\ t.factor = p.of
    BY <2>1 DEF Sessions
  <2>3. QED
    BY <2>1, <2>2, <1>2, <1>5
<1> HIDE DEF t
<1>8. TypeOK' /\ UsedInv' /\ VersionInv' /\ CurrentInv' /\ FitsInv'
  BY <1>1, <1>3, <1>5, <1>6, <1>7, ChangeKeeps
<1>9. PendingInv'
  BY <1>1 DEF PendingInv
<1>10. SpentInv'
  <2>1. \A q \in spent : ~(q.kind = "step" /\ q.of = p.of)
    BY <1>1, <1>4 DEF IInv, PendingInv
  <2>2. \A q \in spent' : q.kind = "step" /\ q.of = account'.secret => q.n <= account'.lastStep
    BY <2>1, <1>1, <1>4, <1>5
  <2>3. \A q \in spent' : q.kind = "link" => links'[q.of] = 0
    BY <1>1, <1>2, <1>3 DEF IInv, SpentInv
  <2>4. QED
    BY <2>2, <2>3, <1>6 DEF SpentInv
<1>11. QED
  BY <1>8, <1>9, <1>10 DEF IInv
------------------------------------------------------------------------------
(* The invariant *)

LEMMA InitHolds == CustomerAuthAssumption /\ Init => IInv
<1> SUFFICES ASSUME CustomerAuthAssumption, Init PROVE IInv
  OBVIOUS
<1>1. PICK p \in {NoOne, Before}, s \in {NoOne, Before} :
        /\ account = [version |-> 1, password |-> p, secret |-> s, lastStep |-> 0,
                      codes |-> IF s = Before THEN NewCodes(Before) ELSE NoCodes]
        /\ sessions = [i \in Ids |-> IF i = Before
                         THEN [version |-> 1, revoked |-> FALSE, password |-> NoOne, factor |-> s]
                         ELSE NoSession]
        /\ challenges = [i \in Ids |-> IF i = Before /\ s = Before
                           THEN [version |-> 1, attempts |-> 0, password |-> p]
                           ELSE NoChallenge]
  BY DEF Init
<1>2. /\ pending = NoOne /\ spent = {}
      /\ links = [i \in Ids |-> IF i = Before THEN 1 ELSE 0]
      /\ pc = [r \in Requests |-> "new"] /\ local = [r \in Requests |-> Blank]
  BY DEF Init
<1>3. Before \in Ids /\ p \in Optional /\ s \in Optional /\ NoOne \notin Ids
  BY DEF Ids, Optional, CustomerAuthAssumption
<1>4. /\ account.codes \in Seq(Codes) /\ Len(account.codes) <= CodeCount
      /\ \A j \in 1..Len(account.codes) : account.codes[j].of = Before
      /\ \A j, k \in 1..Len(account.codes) : account.codes[j] = account.codes[k] => j = k
  <2>1. CASE s = Before
    <3>1. account.codes = NewCodes(Before)
      BY <1>1, <2>1
    <3>2. QED
      BY <3>1, <1>3, NewCodesType DEF CustomerAuthAssumption
  <2>2. CASE s # Before
    <3>1. account.codes = << >>
      BY <1>1, <2>2 DEF NoCodes
    <3>2. QED
      BY <3>1 DEF CustomerAuthAssumption
  <2>3. QED
    BY <2>1, <2>2
<1>5. /\ account.version = 1 /\ account.password = p /\ account.secret = s
      /\ account.lastStep = 0 /\ account \in Accounts
  <2>1. /\ account.version = 1 /\ account.password = p /\ account.secret = s
        /\ account.lastStep = 0
    BY <1>1
  <2>2. 0 \in 0..MaxStep
    BY DEF CustomerAuthAssumption
  <2>3. QED
    BY <2>1, <2>2, <1>1, <1>3, <1>4 DEF Accounts
<1>6. /\ sessions \in [Ids -> Sessions]
      /\ \A i \in Ids : /\ i # Before => sessions[i].version = 0
                        /\ i = Before => sessions[i].version = 1
                        /\ sessions[i].version = 1 =>
                             sessions[i].password = NoOne /\ sessions[i].factor = s
  <2>1. NoSession \in Sessions /\ NoSession.version = 0
    BY DEF NoSession, Sessions, Optional
  <2>2. [version |-> 1, revoked |-> FALSE, password |-> NoOne, factor |-> s] \in Sessions
    BY <1>3 DEF Sessions, Optional
  <2>3. QED
    BY <2>1, <2>2, <1>1
<1>7. /\ challenges \in [Ids -> Challenges]
      /\ \A i \in Ids : /\ i # Before => challenges[i].version = 0
                        /\ challenges[i].version \in {0, 1}
                        /\ challenges[i].version = 1 => challenges[i].password = p
  <2>1. NoChallenge \in Challenges /\ NoChallenge.version = 0
    BY DEF NoChallenge, Challenges, Optional, CustomerAuthAssumption
  <2>2. [version |-> 1, attempts |-> 0, password |-> p] \in Challenges
    BY <1>3 DEF Challenges, CustomerAuthAssumption
  <2>3. QED
    BY <2>1, <2>2, <1>1
<1>8. /\ \A r \in Requests : local[r] = Blank /\ Saw(r) = Nothing /\ pc[r] = "new"
      /\ Nothing.version = 0 /\ Nothing.codes = << >> /\ Nothing.secret = NoOne
      /\ Blank.proof.of = NoOne
  BY <1>2 DEF Saw, Blank, Nothing, NoCodes, NoProof
<1>9. TypeOK
  <2>1. pc \in [Requests -> Places] /\ local \in [Requests -> Locals]
    BY <1>2, BlankType DEF Places
  <2>2. links \in [Ids -> Nat] /\ pending \in Optional /\ spent \subseteq Proofs
    BY <1>2 DEF Optional
  <2>3. QED
    BY <2>1, <2>2, <1>4, <1>5, <1>6, <1>7 DEF TypeOK
<1>10. UsedInv
  <2>1. Used(Before)
    BY DEF Used
  <2>2. \A i \in Ids : ~Used(i) => links[i] = 0 /\ sessions[i].version = 0
                                     /\ challenges[i].version = 0
    BY <2>1, <1>2, <1>6, <1>7
  <2>3. \A i \in Ids : i = account.secret \/ i = pending => Used(i)
    BY <2>1, <1>2, <1>3, <1>5
  <2>4. \A j \in 1..Len(account.codes) : Used(account.codes[j].of)
    BY <2>1, <1>4
  <2>5. QED
    BY <2>2, <2>3, <2>4, <1>2, <1>8 DEF UsedInv
<1>11. VersionInv
  BY <1>5, <1>6, <1>7, <1>8 DEF VersionInv
<1>12. CurrentInv
  BY <1>5, <1>6, <1>7, <1>8 DEF CurrentInv
<1>13. FitsInv
  <2>1. Fits("new", Blank)
    BY DEF Fits, Blank
  <2>2. QED
    BY <2>1, <1>8 DEF FitsInv
<1>14. PendingInv /\ SpentInv
  BY <1>2, <1>4 DEF PendingInv, SpentInv
<1>15. QED
  BY <1>9, <1>10, <1>11, <1>12, <1>13, <1>14 DEF IInv

LEMMA StutterKeeps == IInv /\ UNCHANGED vars => IInv'
<1> SUFFICES ASSUME IInv, UNCHANGED vars PROVE IInv'
  OBVIOUS
<1>1. UNCHANGED <<account, pending, links, sessions, challenges, pc, local, spent>>
  BY DEF vars, items, calls
<1>2. TypeOK' /\ UsedInv'
  BY <1>1 DEF IInv, TypeOK, UsedInv, Used, Saw
<1>3. VersionInv' /\ CurrentInv' /\ FitsInv' /\ PendingInv' /\ SpentInv'
  BY <1>1 DEF IInv, VersionInv, CurrentInv, FitsInv, PendingInv, SpentInv, Saw
<1>4. QED
  BY <1>2, <1>3 DEF IInv

LEMMA StepKeeps == CustomerAuthAssumption /\ IInv /\ [Next]_vars => IInv'
<1> SUFFICES ASSUME CustomerAuthAssumption, IInv, [Next]_vars PROVE IInv'
  OBVIOUS
<1>1. ASSUME NEW r \in Requests,
             \/ RequestLink(r) \/ ReadPassword(r) \/ Stop(r)
             \/ \E i \in Ids : ReadLink(r, i)
             \/ \E i \in Ids, op \in Changes : Authenticate(r, i, op)
      PROVE  IInv'
  BY <1>1, FirstReadsKeep
<1>2. ASSUME NEW r \in Requests,
             ReadMfa(r) \/ CheckSetup(r) \/ ReadPending(r) \/ CheckProof(r) \/ Read(r)
      PROVE  IInv'
  BY <1>2, LaterReadsKeep
<1>3. ASSUME NEW r \in Requests, PutLink(r) \/ OpenLink(r) \/ OpenPassword(r) \/ PutPending(r)
      PROVE  IInv'
  BY <1>3, PutLinkKeeps, FirstFactorKeeps, PutPendingKeeps
<1>4. ASSUME NEW r \in Requests, OpenMfa(r) \/ \E i \in Ids : ReserveAttempt(r, i)
      PROVE  IInv'
  BY <1>4, OpenMfaKeeps, ReserveAttemptKeeps
<1>5. ASSUME NEW r \in Requests,
             \/ SetCredentials(r) \/ EnableTotp(r) \/ RotateBackupCodes(r)
             \/ DisableTotp(r) \/ RevokeAllSessions(r)
      PROVE  IInv'
  BY <1>5, SetCredentialsKeeps, EnableTotpKeeps, RotateBackupCodesKeeps, DisableTotpKeeps,
     RevokeAllSessionsKeeps
<1>6. ASSUME NEW s \in Ids, Logout(s)
      PROVE  IInv'
  BY <1>6, LogoutKeeps
<1>7. QED
  BY <1>1, <1>2, <1>3, <1>4, <1>5, <1>6, StutterKeeps DEF Next

\* What has the version of the account has its credentials, no item is ahead of it, and
\* nothing that was spent is good again.
THEOREM Invariance == Spec => []IInv
<1> USE CustomerAuthAssumption
<1>1. Init => IInv
  BY InitHolds
<1>2. IInv /\ [Next]_vars => IInv'
  BY StepKeeps
<1>3. QED
  BY <1>1, <1>2, PTL DEF Spec

\* The types of the account, its sessions, links and challenges (customer-auth-store.js); no
\* challenge counts more attempts than the limit.
THEOREM TypeCorrect == Spec => []TypeOK
<1>1. IInv => TypeOK
  BY DEF IInv
<1>2. QED
  BY <1>1, Invariance, PTL

\* A session that authenticate accepts was opened with the password in force, and with the
\* second factor of the authenticator in force.
THEOREM SignedInIsCurrent == Spec => []CredentialsAreCurrent
<1>1. IInv => CredentialsAreCurrent
  BY DEF IInv, CurrentInv, CredentialsAreCurrent, Accepted
<1>2. QED
  BY <1>1, Invariance, PTL
------------------------------------------------------------------------------
(* What a step may not do *)

Changed(r) ==
  \/ SetCredentials(r) \/ EnableTotp(r) \/ RotateBackupCodes(r)
  \/ DisableTotp(r) \/ RevokeAllSessions(r)

\* A request finishes by a step of its own.
LEMMA WhoCommits ==
  ASSUME TypeOK, [Next]_vars, NEW r \in Requests, pc[r] # "done", Commits(r)
  PROVE  \/ PutLink(r) \/ OpenLink(r) \/ OpenPassword(r) \/ OpenMfa(r) \/ PutPending(r)
         \/ Changed(r)
<1>1. \A q \in Requests : \A place, l : Goto(q, place, l) /\ q # r => pc'[r] = pc[r]
  BY DEF TypeOK, Goto
<1>2. \A place, l : Goto(r, place, l) => pc'[r] = place
  BY DEF TypeOK, Goto
<1>3. pc'[r] = "done" /\ items' # items
  BY DEF Commits
<1>4. CASE UNCHANGED vars
  BY <1>4, <1>3 DEF vars, calls
<1>5. ASSUME NEW q \in Requests,
             \/ RequestLink(q) \/ ReadPassword(q) \/ Stop(q) \/ ReadMfa(q) \/ CheckSetup(q)
             \/ ReadPending(q) \/ CheckProof(q) \/ Read(q)
             \/ \E i \in Ids : ReadLink(q, i)
             \/ \E i \in Ids, op \in Changes : Authenticate(q, i, op)
      PROVE  FALSE
  <2>1. items' = items
    BY <1>5 DEF RequestLink, ReadPassword, Stop, ReadMfa, CheckSetup, ReadPending, CheckProof,
                Read, ReadLink, Authenticate
  <2>2. QED
    BY <2>1, <1>3
<1>6. ASSUME NEW q \in Requests, NEW i \in Ids, ReserveAttempt(q, i)
      PROVE  FALSE
  <2>1. Goto(q, "readMfa", [Blank EXCEPT !.on = i])
    BY <1>6 DEF ReserveAttempt
  <2>2. QED
    BY <2>1, <1>1, <1>2, <1>3
<1>7. ASSUME NEW s \in Ids, Logout(s)
      PROVE  FALSE
  BY <1>7, <1>3 DEF Logout, calls
<1>8. ASSUME NEW q \in Requests,
             \/ PutLink(q) \/ OpenLink(q) \/ OpenPassword(q) \/ OpenMfa(q) \/ PutPending(q)
             \/ Changed(q)
      PROVE  q = r
  <2>1. Goto(q, "done", Blank)
    BY <1>8 DEF PutLink, OpenLink, OpenPassword, OpenMfa, PutPending, Changed, SetCredentials,
                EnableTotp, RotateBackupCodes, DisableTotp, RevokeAllSessions, Change, End
  <2>2. QED
    BY <2>1, <1>1, <1>3
<1>9. QED
  BY <1>4, <1>5, <1>6, <1>7, <1>8 DEF Next, Changed

\* A change, the version it sets, and the session it leaves.
LEMMA WhatChanges ==
  ASSUME CustomerAuthAssumption, IInv, NEW r \in Requests, Changed(r)
  PROVE  /\ account'.version = account.version + 1
         /\ \A s \in Ids \ {local[r].on} : sessions'[s] = sessions[s]
         /\ sessions[local[r].on].revoked => sessions'[local[r].on].revoked
         /\ sessions[local[r].on].version = account.version
         /\ local[r].op = "revokeAll" => sessions'[local[r].on].version = account.version
<1> DEFINE s == local[r].on
<1>1. PICK op \in Changes, t \in Sessions :
        /\ Change(r, op, t) /\ t.revoked \in BOOLEAN
        /\ sessions[s].revoked => t.revoked
        /\ op = "revokeAll" => t.version = sessions[s].version
  <2>1. CASE RevokeAllSessions(r)
    <3> DEFINE t == [sessions[s] EXCEPT !.revoked = TRUE]
    <3>1. Change(r, "revokeAll", t)
      BY <2>1 DEF RevokeAllSessions
    <3>2. sessions[s] \in Sessions
      BY <3>1, ChangeFacts DEF TypeOK
    <3>3. t \in Sessions /\ t.revoked = TRUE /\ t.version = sessions[s].version
      BY <3>2 DEF Sessions
    <3>4. QED
      BY <3>1, <3>3 DEF Changes
  <2>2. ASSUME NEW op \in Changes, NEW t, Change(r, op, t), op # "revokeAll",
               \/ t = Migrated(r)
               \/ t = [Migrated(r) EXCEPT !.password = r]
               \/ t = [Migrated(r) EXCEPT !.factor = local[r].proof.of] /\ local[r].proof.of \in Optional
        PROVE  /\ t \in Sessions /\ t.revoked \in BOOLEAN
               /\ sessions[s].revoked => t.revoked
    <3>1. Migrated(r) \in Sessions /\ sessions[s] \in Sessions /\ r \in Optional
      BY <2>2, MigratedType, ChangeFacts DEF TypeOK, Optional
    <3>2. Migrated(r).revoked = sessions[s].revoked
      BY <3>1 DEF Migrated, Sessions
    <3>3. QED
      BY <3>1, <3>2, <2>2 DEF Sessions
  <2>3. CASE SetCredentials(r)
    BY <2>2, <2>3 DEF SetCredentials, Changes
  <2>4. CASE RotateBackupCodes(r)
    BY <2>2, <2>4 DEF RotateBackupCodes, Changes
  <2>5. CASE DisableTotp(r)
    BY <2>2, <2>5 DEF DisableTotp, Changes
  <2>6. CASE EnableTotp(r)
    <3>1. Change(r, "confirm", [Migrated(r) EXCEPT !.factor = local[r].proof.of])
      BY <2>6 DEF EnableTotp
    <3>2. local[r].proof.kind = "step"
      BY <3>1, ChangeFacts DEF IInv, FitsInv, Fits
    <3>3. local[r].proof.of \in Optional
      BY <3>2, ProofType DEF Optional
    <3>4. QED
      BY <3>1, <3>3, <2>2 DEF Changes
  <2>7. QED
    BY <2>1, <2>3, <2>4, <2>5, <2>6 DEF Changed
<1>2. /\ s \in Ids /\ TypeOK /\ local[r].op = op
      /\ sessions[s].version = account.version
      /\ sessions' = [sessions EXCEPT ![s] = t]
  BY <1>1, ChangeFacts
<1>3. sessions'[s] = t /\ \A i \in Ids \ {s} : sessions'[i] = sessions[i]
  BY <1>2 DEF TypeOK
<1>4. account'.version = account.version + 1
  <2>1. account \in Accounts
    BY <1>2 DEF TypeOK
  <2>2. QED
    BY <2>1 DEF Accounts, Changed, SetCredentials, EnableTotp, RotateBackupCodes, DisableTotp,
                RevokeAllSessions
<1>5. QED
  BY <1>1, <1>2, <1>3, <1>4

\* A change of the credentials signs out every session but the one that made it, and "sign
\* out everywhere" that one too: sessionVersionUpdate and the version that authenticate
\* compares (customer-auth-store.js).
THEOREM ChangesSignOut == Spec => ChangeSignsOut
<1> USE CustomerAuthAssumption
<1>1. IInv /\ [Next]_vars =>
        [\A r \in Requests : pc[r] = "commit" /\ Commits(r) =>
           \A s \in Ids : Accepted(s)' => s = local[r].on /\ local[r].op # "revokeAll"]_vars
  <2> SUFFICES ASSUME IInv, [Next]_vars, NEW r \in Requests, pc[r] = "commit", Commits(r),
                      NEW s \in Ids, Accepted(s)'
               PROVE  s = local[r].on /\ local[r].op # "revokeAll"
    OBVIOUS
  <2>1. Changed(r)
    BY WhoCommits DEF IInv, PutLink, OpenLink, OpenPassword, OpenMfa, PutPending
  <2>2. account.version \in Nat /\ sessions[s].version \in Nat
        /\ sessions[s].version <= account.version
    BY DEF IInv, TypeOK, Accounts, Sessions, VersionInv
  <2>3. sessions'[s].version = account.version + 1
    BY <2>1, WhatChanges DEF Accepted
  <2>4. QED
    BY <2>1, <2>2, <2>3, WhatChanges
<1>2. QED
  BY <1>1, Invariance, PTL DEF Spec, ChangeSignsOut

\* A backup code that stands is in the list.
LEMMA ListedCode ==
  ASSUME CustomerAuthAssumption, IInv, NEW r \in Requests, ProofStands(r),
         local[r].proof.kind = "code"
  PROVE  local[r].proof \in ToSet(account.codes)
<1>1. IndexOf(r) \in 1..Len(account.codes) /\ account.codes[IndexOf(r)] = local[r].proof
  BY DEF ProofStands
<1>2. QED
  BY <1>1 DEF ToSet

\* A link, a time step of the authenticator in force or a backup code is good once, be it to
\* sign in or to change the authenticator, and a code only while it is in the list: the
\* conditions of the transactions of customer-auth-store.js.
THEOREM ProofsUsedOnce == Spec => UsedOnce
<1> USE CustomerAuthAssumption
<1>1. IInv /\ [Next]_vars =>
        [\A r \in Requests :
           /\ pc[r] \in {"openLink", "openMfa", "commit"} /\ Commits(r) /\ ~Former(r)
           => /\ local[r].proof \notin spent
              /\ local[r].proof.kind = "code" => local[r].proof \in ToSet(account.codes)]_vars
  <2> SUFFICES ASSUME IInv, [Next]_vars, NEW r \in Requests,
                      pc[r] \in {"openLink", "openMfa", "commit"}, Commits(r), ~Former(r)
               PROVE  /\ local[r].proof \notin spent
                      /\ local[r].proof.kind = "code" => local[r].proof \in ToSet(account.codes)
    OBVIOUS
  <2>1. OpenLink(r) \/ OpenMfa(r) \/ Changed(r)
    BY WhoCommits DEF IInv, PutLink, OpenPassword, PutPending
  <2>2. CASE OpenLink(r)
    <3>1. /\ links[local[r].on] # 0 /\ local[r].proof.kind = "link"
          /\ local[r].proof.of = local[r].on
      BY <2>2 DEF OpenLink, IInv, FitsInv, Fits
    <3>2. QED
      BY <3>1 DEF IInv, SpentInv
  <2>3. CASE OpenMfa(r)
    BY <2>3, OpenMfaKeeps, ListedCode DEF OpenMfa
  <2>4. CASE RotateBackupCodes(r) \/ DisableTotp(r)
    <3>1. PICK op \in {"rotate", "disable"} : Change(r, op, Migrated(r)) /\ ProofStands(r)
      BY <2>4 DEF RotateBackupCodes, DisableTotp
    <3>2. pc[r] = "commit" /\ local[r].op = op
      BY <3>1 DEF Change
    <3>3. /\ local[r].proof.kind \in {"step", "code"}
          /\ local[r].proof.kind = "step" => local[r].proof.of = account.secret
      BY <3>1, <3>2 DEF Former, IInv, FitsInv, Fits
    <3>4. QED
      BY <3>1, <3>3, StandingIsFresh, ListedCode
  <2>5. CASE EnableTotp(r)
    <3>1. pc[r] = "commit" /\ local[r].op = "confirm" /\ pending = local[r].proof.of
      BY <2>5 DEF EnableTotp, Change
    <3>2. local[r].proof.kind = "step" /\ pending # NoOne
      BY <3>1, ProofType DEF IInv, FitsInv, Fits, Ids, CustomerAuthAssumption
    <3>3. QED
      BY <3>1, <3>2 DEF IInv, PendingInv
  <2>6. CASE SetCredentials(r) \/ RevokeAllSessions(r)
    <3>1. pc[r] = "commit" /\ local[r].op \in {"set", "revokeAll"}
      BY <2>6 DEF SetCredentials, RevokeAllSessions, Change
    <3>2. local[r].proof = NoProof
      BY <3>1 DEF IInv, FitsInv, Fits
    <3>3. QED
      BY <3>2 DEF IInv, TypeOK, NoProof, Proofs, Links, Steps, Codes
  <2>7. QED
    BY <2>1, <2>2, <2>3, <2>4, <2>5, <2>6 DEF Changed
<1>2. QED
  BY <1>1, Invariance, PTL DEF Spec, UsedOnce

\* A step leaves a session revoked when it is, and gives a new version only to one that has
\* the version of the account.
LEMMA SessionsStay ==
  ASSUME CustomerAuthAssumption, IInv, [Next]_vars, NEW s \in Ids, sessions[s].version # 0
  PROVE  /\ account'.version \in {account.version, account.version + 1}
         /\ sessions[s].revoked => sessions'[s].revoked
         /\ sessions[s].version # account.version => sessions'[s].version = sessions[s].version
<1>1. TypeOK /\ account \in Accounts /\ Used(s)
  BY DEF IInv, TypeOK, UsedInv
<1>2. CASE UNCHANGED <<account, sessions>>
  BY <1>2
<1>3. ASSUME NEW r \in Requests, pc[r] # "done", End(r), account'.version = account.version,
             UNCHANGED sessions \/ \E t : sessions' = [sessions EXCEPT ![r] = t]
      PROVE  sessions'[s] = sessions[s]
  <2>1. ~Used(r)
    BY <1>1, <1>3, EndFacts
  <2>2. QED
    BY <2>1, <1>1, <1>3 DEF TypeOK
<1>4. ASSUME NEW r \in Requests, OpenLink(r) \/ OpenPassword(r) \/ OpenMfa(r)
      PROVE  sessions'[s] = sessions[s] /\ account'.version = account.version
  <2>1. pc[r] # "done" /\ End(r)
    BY <1>4 DEF OpenLink, OpenPassword, OpenMfa
  <2>2. account'.version = account.version
    BY <1>1, <1>4 DEF OpenLink, OpenPassword, OpenMfa, Accounts
  <2>3. UNCHANGED sessions \/ \E t : sessions' = [sessions EXCEPT ![r] = t]
    BY <1>4 DEF OpenLink, OpenPassword, OpenMfa, Enter
  <2>4. QED
    BY <2>1, <2>2, <2>3, <1>3
<1>5. CASE \E r \in Requests : Changed(r)
  BY <1>5, WhatChanges
<1>6. CASE \E i \in Ids : Logout(i)
  <2>1. PICK i \in Ids : Logout(i)
    BY <1>6
  <2>2. sessions[i] \in Sessions /\ sessions' = [sessions EXCEPT ![i].revoked = TRUE]
        /\ account' = account
    BY <1>1, <2>1 DEF TypeOK, Logout
  <2>3. CASE i = s
    BY <2>2, <2>3, <1>1 DEF TypeOK, Sessions
  <2>4. CASE i # s
    BY <2>2, <2>4, <1>1 DEF TypeOK
  <2>5. QED
    BY <2>3, <2>4
<1>7. ASSUME NEW r \in Requests,
             \/ RequestLink(r) \/ PutLink(r) \/ ReadPassword(r) \/ ReadMfa(r) \/ CheckSetup(r)
             \/ PutPending(r) \/ ReadPending(r) \/ CheckProof(r) \/ Read(r) \/ Stop(r)
             \/ \E i \in Ids : ReadLink(r, i) \/ ReserveAttempt(r, i)
             \/ \E i \in Ids, op \in Changes : Authenticate(r, i, op)
      PROVE  UNCHANGED <<account, sessions>>
  BY <1>7 DEF RequestLink, PutLink, ReadPassword, ReadMfa, CheckSetup, PutPending, ReadPending,
     CheckProof, Read, Stop, ReadLink, ReserveAttempt, Authenticate, items
<1>8. CASE UNCHANGED vars
  BY <1>8, <1>2 DEF vars, items
<1>9. CASE Next
  BY <1>9, <1>2, <1>4, <1>5, <1>6, <1>7 DEF Next, Changed
<1>10. QED
  BY <1>8, <1>9

\* A session that authenticate refuses is refused for good, whatever requests it began
\* before: the version in the condition of every change (customer-auth-store.js).
THEOREM SessionsRefusedForGood == Spec => RefusedForGood
<1> USE CustomerAuthAssumption
<1>1. IInv /\ [Next]_vars =>
        [\A s \in Ids : sessions[s].version # 0 /\ ~Accepted(s) => ~Accepted(s)']_vars
  <2> SUFFICES ASSUME IInv, [Next]_vars, NEW s \in Ids, sessions[s].version # 0, ~Accepted(s),
                      Accepted(s)'
               PROVE  FALSE
    OBVIOUS
  <2>1. account.version \in Nat /\ sessions[s].version \in Nat
        /\ sessions[s].version <= account.version
    BY DEF IInv, TypeOK, Accounts, Sessions, VersionInv
  <2>2. sessions'[s].version = account'.version /\ ~sessions'[s].revoked
    BY DEF Accepted
  <2>3. sessions[s].version # account.version
    BY <2>2, SessionsStay DEF Accepted
  <2>4. sessions'[s].version = sessions[s].version
    BY <2>3, SessionsStay
  <2>5. QED
    BY <2>1, <2>2, <2>3, <2>4, SessionsStay
<1>2. QED
  BY <1>1, Invariance, PTL DEF Spec, RefusedForGood
------------------------------------------------------------------------------
(* Signing in and changing credentials as if in one step *)

Standings == [i \in Ids |-> Standing(i)]

LEMMA StandingMoves ==
  ASSUME NEW s \in Ids, NEW x, Standing(s)' = x,
         \A i \in Ids \ {s} : Standing(i)' = Standing(i)
  PROVE  Standings' = [Standings EXCEPT ![s] = x]
BY DEF Standings

LEMMA StandingsStay ==
  ASSUME \A i \in Ids : Standing(i)' = Standing(i)
  PROVE  Standings' = Standings
BY DEF Standings

LEMMA StandingFacts ==
  ASSUME IInv, NEW i \in Ids
  PROVE  /\ sessions[i].version \in Nat /\ account.version \in Nat /\ account.version > 0
         /\ sessions[i].revoked \in BOOLEAN /\ sessions[i] \in Sessions
         /\ sessions[i].version <= account.version
         /\ Standing(i) \in {"none", "in", "left", "out"}
         /\ Standing(i) = "none" <=> sessions[i].version = 0
         /\ Standing(i) = "in" <=> sessions[i].version = account.version /\ ~sessions[i].revoked
         /\ Standing(i) = "left" <=> sessions[i].version = account.version /\ sessions[i].revoked
<1>1. /\ sessions[i].version \in Nat /\ account.version \in Nat /\ account.version > 0
      /\ sessions[i].revoked \in BOOLEAN /\ sessions[i] \in Sessions
      /\ sessions[i].version <= account.version
  BY DEF IInv, TypeOK, Sessions, Accounts, VersionInv
<1>2. QED
  BY <1>1 DEF Standing

\* The changes under way, when one request moves.
LEMMA AskedFacts ==
  ASSUME TypeOK, NEW r \in Requests, NEW place, NEW l, Goto(r, place, l)
  PROVE  /\ l.op = local[r].op /\ l.on = local[r].on => Asked' = Asked
         /\ l.op = "none" /\ local[r].op = "none" => Asked' = Asked
         /\ l.op = "none" => Asked' \in {Asked, Asked \ {local[r].on}}
         /\ l.op # "none" /\ local[r].op = "none" /\ l.on \in Ids => Asked' = Asked \cup {l.on}
<1> DEFINE rest == {s \in Ids : \E q \in Requests \ {r} : local[q].op # "none" /\ local[q].on = s}
<1>1. local'[r] = l /\ \A q \in Requests \ {r} : local'[q] = local[q]
  BY DEF Goto, TypeOK
<1>2. Asked = rest \cup {s \in Ids : local[r].op # "none" /\ local[r].on = s}
  BY DEF Asked
<1>3. Asked' = rest \cup {s \in Ids : l.op # "none" /\ l.on = s}
  BY <1>1 DEF Asked
<1> HIDE DEF rest
<1>4. QED
  BY <1>2, <1>3

LEMMA AnsweredAsks ==
  ASSUME TypeOK, NEW r \in Requests, End(r)
  PROVE  /\ local[r].op = "none" => Asked' = Asked
         /\ Asked' \in {Asked, Asked \ {local[r].on}}
BY AskedFacts DEF End, Blank

\* A session that a request creates comes in with the version of the account, and is out
\* with an earlier one.
LEMMA SessionComes ==
  ASSUME CustomerAuthAssumption, IInv, NEW r \in Requests, pc[r] # "done", End(r),
         account'.version = account.version, NEW t \in Sessions, ~t.revoked,
         sessions' = [sessions EXCEPT ![r] = t], t.version # 0
  PROVE  /\ r \in Ids /\ Standings[r] = "none"
         /\ t.version = account.version => Standings' = [Standings EXCEPT ![r] = "in"]
         /\ t.version # account.version => Standings' = [Standings EXCEPT ![r] = "out"]
<1>1. TypeOK /\ r \in Ids
  BY DEF IInv, Ids
<1>2. sessions[r].version = 0
  BY <1>1, EndFacts DEF IInv, UsedInv
<1>3. sessions'[r] = t /\ \A i \in Ids \ {r} : sessions'[i] = sessions[i]
  BY <1>1 DEF TypeOK
<1>4. Standings[r] = "none"
  BY <1>1, <1>2 DEF Standings, Standing
<1>5. \A i \in Ids \ {r} : Standing(i)' = Standing(i)
  BY <1>3 DEF Standing
<1>6. Standing(r)' = IF t.version = account.version THEN "in" ELSE "out"
  BY <1>3 DEF Standing
<1>7. QED
  BY <1>1, <1>4, <1>5, <1>6, StandingMoves

\* A first factor lets in, comes too late, or leads to the second factor.
LEMMA FirstFactorEnters ==
  ASSUME CustomerAuthAssumption, IInv, NEW r \in Requests, OpenLink(r) \/ OpenPassword(r)
  PROVE  [Authority!Next]_(Authority!authorityVars)
<1> DEFINE p == local[r].proof
<1>1. /\ TypeOK /\ pc[r] # "done" /\ End(r) /\ account' = account
      /\ Asked' = Asked
  <2>1. TypeOK /\ pc[r] \in {"openLink", "openPassword"} /\ End(r) /\ account' = account
    BY DEF IInv, OpenLink, OpenPassword
  <2>2. local[r].op = "none"
    BY <2>1 DEF IInv, FitsInv, Fits
  <2>3. QED
    BY <2>1, <2>2, AnsweredAsks
<1>2. /\ Saw(r) \in Accounts /\ Saw(r).version > 0 /\ Saw(r).version <= account.version
      /\ Saw(r).version = account.version =>
           Saw(r).password = account.password /\ Saw(r).secret = account.secret
      /\ OpenPassword(r) => Saw(r).password # NoOne
  BY <1>1, LocalType DEF IInv, FitsInv, Fits, VersionInv, CurrentInv, OpenLink, OpenPassword, Saw
<1>3. ASSUME OpenLink(r)
      PROVE  \E q \in Proofs : Authority!FirstFactor(q) /\ Authority!Spend(q)
  <2>1. /\ links[local[r].on] # 0 /\ p.kind = "link" /\ p.of = local[r].on
        /\ spent' = spent \cup {p}
    BY <1>3 DEF OpenLink, Spend, IInv, FitsInv, Fits
  <2>2. p \notin spent
    BY <2>1 DEF IInv, SpentInv
  <2>3. p \in Proofs
    BY <1>1, <2>1, LocalType DEF NoProof
  <2>4. QED
    BY <2>1, <2>2, <2>3 DEF Authority!FirstFactor, Authority!Spend
<1>4. OpenPassword(r) => spent' = spent
  BY DEF OpenPassword
<1>5. CASE Saw(r).secret # NoOne
  <2>1. sessions' = sessions
    BY <1>5 DEF OpenLink, OpenPassword, Enter
  <2>2. Standings' = Standings
    BY <1>1, <2>1 DEF Standings, Standing
  <2>3. CASE OpenLink(r)
    BY <1>1, <1>3, <2>2, <2>3 DEF Standings, Authority!FollowLink, Authority!Next
  <2>4. CASE OpenPassword(r)
    BY <1>1, <1>4, <2>2, <2>4 DEF Standings, Authority!authorityVars, Authority!credentials
  <2>5. QED
    BY <2>3, <2>4
<1>6. CASE Saw(r).secret = NoOne
  <2>1. PICK password \in {NoOne, Saw(r).password} : Enter(r, password)
    BY DEF OpenLink, OpenPassword
  <2> DEFINE t == [version |-> Saw(r).version, revoked |-> FALSE,
                   password |-> password, factor |-> NoOne]
  <2>2. sessions' = [sessions EXCEPT ![r] = t]
    BY <1>6, <2>1 DEF Enter
  <2>3. /\ t \in Sessions /\ ~t.revoked /\ t.version = Saw(r).version /\ t.version # 0
        /\ account'.version = account.version
    BY <1>1, <1>2 DEF Sessions, Accounts, Optional
  <2> HIDE DEF t
  <2>4. /\ r \in Ids /\ Standings[r] = "none"
        /\ t.version = account.version => Standings' = [Standings EXCEPT ![r] = "in"]
        /\ t.version # account.version => Standings' = [Standings EXCEPT ![r] = "out"]
    BY <1>1, <2>2, <2>3, SessionComes
  <2>5. CASE Saw(r).version = account.version
    <3>1. Standings' = [Standings EXCEPT ![r] = "in"] /\ account.secret = NoOne
      BY <1>2, <1>6, <2>3, <2>4, <2>5
    <3>2. OpenPassword(r) => account.password # NoOne
      BY <1>2, <2>5
    <3>3. Authority!LetIn(r)
      BY <1>1, <1>3, <1>4, <2>4, <3>1, <3>2 DEF Standings, Authority!LetIn
    <3>4. QED
      BY <2>4, <3>3 DEF Authority!Next
  <2>6. CASE Saw(r).version # account.version
    <3>1. Standings' = [Standings EXCEPT ![r] = "out"]
      BY <2>3, <2>4, <2>6
    <3>2. Authority!TooLate(r)
      BY <1>1, <1>3, <1>4, <2>4, <3>1 DEF Standings, Authority!TooLate
    <3>3. QED
      BY <2>4, <3>2 DEF Authority!Next
  <2>7. QED
    BY <2>5, <2>6
<1>7. QED
  BY <1>5, <1>6

\* A second factor lets in.
LEMMA SecondFactorEnters ==
  ASSUME CustomerAuthAssumption, IInv, NEW r \in Requests, OpenMfa(r)
  PROVE  Authority!Next
<1> DEFINE p == local[r].proof
           t == [version |-> Saw(r).version, revoked |-> FALSE,
                 password |-> challenges[local[r].on].password, factor |-> Saw(r).secret]
<1>1. /\ TypeOK /\ pc[r] = "openMfa" /\ End(r) /\ account.version = Saw(r).version
      /\ account.secret # NoOne /\ sessions' = [sessions EXCEPT ![r] = t]
      /\ spent' = spent \cup {p}
  BY DEF IInv, OpenMfa, Spend
<1>2. /\ account'.version = account.version /\ account'.password = account.password
      /\ account'.secret = account.secret
  BY <1>1 DEF OpenMfa, TypeOK, Accounts
<1>3. /\ p.kind \in {"step", "code"} /\ local[r].on \in Ids
      /\ p.kind = "step" => p.of = account.secret
  BY <1>1 DEF IInv, FitsInv, Fits, CurrentInv, Saw
<1>4. p \in Proofs
  BY <1>3, ProofType DEF Proofs
<1>5. p \notin spent
  BY OpenMfaKeeps
<1>6. t \in Sessions /\ ~t.revoked /\ t.version = account.version /\ t.version # 0
  <2>1. challenges[local[r].on].password \in Optional /\ Saw(r).secret \in Optional
        /\ Saw(r).version \in Nat
    BY <1>1, <1>3, LocalType DEF TypeOK, Challenges, Accounts
  <2>2. account.version > 0
    BY DEF IInv, VersionInv
  <2>3. QED
    BY <1>1, <2>1, <2>2 DEF Sessions
<1> HIDE DEF t
<1>7. r \in Ids /\ Standings[r] = "none" /\ Standings' = [Standings EXCEPT ![r] = "in"]
  BY <1>1, <1>2, <1>6, SessionComes
<1>8. \E q \in Proofs : Authority!SecondFactor(q) /\ Authority!Spend(q)
  BY <1>1, <1>3, <1>4, <1>5 DEF Authority!SecondFactor, Authority!Spend
<1>9. Asked' = Asked
  <2>1. local[r].op = "none"
    BY <1>1 DEF IInv, FitsInv, Fits
  <2>2. QED
    BY <1>1, <2>1, AnsweredAsks
<1>10. Authority!LetIn(r)
  BY <1>1, <1>2, <1>7, <1>8, <1>9 DEF Standings, Authority!LetIn
<1>11. QED
  BY <1>7, <1>10 DEF Authority!Next

\* A change puts out every session but the one that goes along with it.
LEMMA GoesAlong ==
  ASSUME IInv, NEW s \in Ids, NEW t, sessions' = [sessions EXCEPT ![s] = t],
         sessions[s].version = account.version, account'.version = account.version + 1,
         t.version = account'.version, t.revoked = sessions[s].revoked
  PROVE  Authority!PutOut(Ids \ {s})
<1>1. account.version \in Nat /\ account.version > 0
  BY StandingFacts
<1>2. sessions'[s] = t /\ \A i \in Ids \ {s} : sessions'[i] = sessions[i]
  BY DEF IInv, TypeOK
<1>3. Standing(s)' = Standing(s)
  <2>1. sessions'[s].version = account'.version /\ account'.version # 0 /\ account.version # 0
    BY <1>1, <1>2
  <2>2. sessions'[s].revoked = sessions[s].revoked
    BY <1>2
  <2>3. QED
    BY <2>1, <2>2 DEF Standing
<1>4. ASSUME NEW i \in Ids, i # s
      PROVE  Standing(i)' = IF Standing(i) # "none" THEN "out" ELSE Standing(i)
  <2>1. sessions'[i].version # account'.version /\ sessions'[i] = sessions[i]
    BY <1>2, <1>4, StandingFacts
  <2>2. QED
    BY <2>1, StandingFacts DEF Standing
<1>5. \A i \in Ids : Standing(i)' = IF Standing(i) # "none" /\ i \in Ids \ {s} THEN "out"
                                    ELSE Standing(i)
  BY <1>3, <1>4
<1>6. QED
  BY <1>5 DEF Standings, Authority!PutOut

\* A session that changes something has the version of the account and has asked for it.
LEMMA AskedBefore ==
  ASSUME CustomerAuthAssumption, IInv, NEW r \in Requests, NEW op, NEW t, Change(r, op, t)
  PROVE  local[r].on \in Ids /\ Authority!Changes(local[r].on)
<1>1. /\ local[r].on \in Ids /\ sessions[local[r].on].version = account.version
      /\ pc[r] = "commit" /\ End(r) /\ TypeOK
  BY ChangeFacts DEF Change, IInv
<1>2. local[r].op # "none"
  BY <1>1 DEF IInv, FitsInv, Fits
<1>3. local[r].on \in Asked
  BY <1>1, <1>2 DEF Asked
<1>4. Standing(local[r].on) \in {"in", "left"}
  BY <1>1, StandingFacts
<1>5. Asked' \in {Asked, Asked \ {local[r].on}}
  BY <1>1, AnsweredAsks
<1>6. QED
  BY <1>1, <1>3, <1>4, <1>5 DEF Standings, Authority!Changes

LEMMA ChangePutsOut ==
  ASSUME CustomerAuthAssumption, IInv, NEW r \in Requests, NEW op, NEW t, Change(r, op, t),
         account'.version = account.version + 1,
         t.version = account'.version, t.revoked = sessions[local[r].on].revoked
  PROVE  \E s \in Ids : Authority!Changes(s) /\ Authority!PutOut(Ids \ {s})
<1>1. local[r].on \in Ids /\ Authority!Changes(local[r].on)
  BY AskedBefore
<1>2. PICK s \in Ids : s = local[r].on
  BY <1>1
<1>3. sessions' = [sessions EXCEPT ![s] = t] /\ sessions[s].version = account.version
  BY <1>2, ChangeFacts
<1>4. t.revoked = sessions[s].revoked
  BY <1>2
<1>5. Authority!PutOut(Ids \ {s})
  BY <1>3, <1>4, GoesAlong
<1>6. QED
  BY <1>1, <1>2, <1>5

LEMMA MigratedFacts ==
  ASSUME CustomerAuthAssumption, IInv, NEW r \in Requests, NEW op, NEW t, Change(r, op, t)
  PROVE  /\ Migrated(r) \in Sessions
         /\ Migrated(r).version = account.version + 1
         /\ Migrated(r).revoked = sessions[local[r].on].revoked
<1>1. sessions[local[r].on] \in Sessions /\ Migrated(r) \in Sessions
  BY ChangeFacts, MigratedType DEF TypeOK
<1>2. QED
  BY <1>1, MigratedType DEF Migrated, Sessions

LEMMA SetsPassword ==
  ASSUME CustomerAuthAssumption, IInv, NEW r \in Requests, SetCredentials(r)
  PROVE  Authority!Next
<1> DEFINE t == [Migrated(r) EXCEPT !.password = r]
<1>1. /\ Change(r, "set", t) /\ spent' = spent /\ account \in Accounts /\ r \in Ids
      /\ account' = [account EXCEPT !.version = @ + 1, !.password = r]
  BY DEF SetCredentials, IInv, TypeOK, Ids
<1>2. /\ account'.version = account.version + 1 /\ account'.password = r
      /\ account'.secret = account.secret
  BY <1>1 DEF Accounts
<1>3. t.version = account'.version /\ t.revoked = sessions[local[r].on].revoked
  BY <1>1, <1>2, MigratedFacts DEF Sessions
<1> HIDE DEF t
<1>4. PICK s \in Ids : Authority!Changes(s) /\ Authority!PutOut(Ids \ {s})
  BY <1>1, <1>2, <1>3, ChangePutsOut
<1>5. Authority!ChangePassword(s)
  BY <1>1, <1>2, <1>4 DEF Authority!ChangePassword
<1>6. QED
  BY <1>5 DEF Authority!Next

LEMMA EnablesAuthenticator ==
  ASSUME CustomerAuthAssumption, IInv, NEW r \in Requests, EnableTotp(r)
  PROVE  Authority!Next
<1> DEFINE p == local[r].proof
           t == [Migrated(r) EXCEPT !.factor = p.of]
<1>1. /\ Change(r, "confirm", t) /\ spent' = spent \cup {p} /\ account \in Accounts
      /\ pending = p.of /\ account.secret = NoOne
      /\ account' = [account EXCEPT !.version = @ + 1, !.secret = p.of,
                                    !.lastStep = p.n, !.codes = NewCodes(r)]
  BY DEF EnableTotp, Spend, IInv, TypeOK
<1>2. /\ account'.version = account.version + 1 /\ account'.password = account.password
      /\ account'.secret = p.of
  BY <1>1 DEF Accounts
<1>3. p.kind = "step"
  BY <1>1, ChangeFacts DEF IInv, FitsInv, Fits
<1>4. p \in Proofs /\ p.of \in Ids /\ p.of # NoOne
  BY <1>3, ProofType DEF Proofs, Ids, CustomerAuthAssumption
<1>5. p \notin spent
  BY <1>1, <1>3, <1>4 DEF IInv, PendingInv
<1>6. t.version = account'.version /\ t.revoked = sessions[local[r].on].revoked
  BY <1>1, <1>2, MigratedFacts DEF Sessions
<1> HIDE DEF t
<1>7. PICK s \in Ids : Authority!Changes(s) /\ Authority!PutOut(Ids \ {s})
  BY <1>1, <1>2, <1>6, ChangePutsOut
<1>8. Authority!ChangeAuthenticator(s)
  <2>1. Authority!SetUp(p)
    BY <1>1, <1>2, <1>3, <1>4, <1>5 DEF Authority!SetUp, Authority!Spend
  <2>2. QED
    BY <1>2, <1>4, <1>7, <2>1 DEF Authority!ChangeAuthenticator
<1>9. QED
  BY <1>8 DEF Authority!Next

LEMMA ChangesAuthenticator ==
  ASSUME CustomerAuthAssumption, IInv, NEW r \in Requests,
         RotateBackupCodes(r) \/ DisableTotp(r)
  PROVE  Authority!Next
<1> DEFINE p == local[r].proof
<1>1. PICK op \in {"rotate", "disable"} :
        /\ Change(r, op, Migrated(r)) /\ spent' = spent \cup {p} /\ account.secret # NoOne
  BY DEF RotateBackupCodes, DisableTotp, Spend
<1>2. /\ account'.version = account.version + 1 /\ account'.password = account.password
      /\ account'.secret \in {account.secret, NoOne}
  BY DEF RotateBackupCodes, DisableTotp, IInv, TypeOK, Accounts
<1>3. p.kind \in {"step", "code"}
  BY <1>1, ChangeFacts DEF IInv, FitsInv, Fits
<1>4. p \in Proofs
  BY <1>3, ProofType DEF Proofs
<1>5. Authority!Replace(p)
  BY <1>1, <1>2, <1>3 DEF Authority!Replace
<1>6. PICK s \in Ids : Authority!Changes(s) /\ Authority!PutOut(Ids \ {s})
  BY <1>1, <1>2, ChangePutsOut, MigratedFacts
<1>7. Authority!ChangeAuthenticator(s)
  BY <1>2, <1>4, <1>5, <1>6 DEF Authority!ChangeAuthenticator
<1>8. QED
  BY <1>7 DEF Authority!Next

LEMMA RevokePutsOut ==
  ASSUME CustomerAuthAssumption, IInv, NEW r \in Requests, RevokeAllSessions(r)
  PROVE  Authority!Next
<1>1. local[r].on \in Ids /\ Authority!Changes(local[r].on)
  BY AskedBefore DEF RevokeAllSessions
<1>2. PICK s \in Ids : s = local[r].on
  BY <1>1
<1> DEFINE t == [sessions[s] EXCEPT !.revoked = TRUE]
<1>3. /\ sessions' = [sessions EXCEPT ![s] = t]
      /\ spent' = spent /\ account \in Accounts /\ account' = [account EXCEPT !.version = @ + 1]
  BY <1>2, ChangeFacts DEF RevokeAllSessions, IInv, TypeOK
<1>4. /\ account'.version = account.version + 1 /\ account'.password = account.password
      /\ account'.secret = account.secret
  BY <1>3 DEF Accounts
<1>5. \A i \in Ids : sessions'[i].version = sessions[i].version
  BY <1>3, StandingFacts DEF IInv, TypeOK, Sessions
<1>6. ASSUME NEW i \in Ids
      PROVE  Standing(i)' = IF Standing(i) # "none" THEN "out" ELSE Standing(i)
  <2>1. sessions'[i].version = sessions[i].version
    BY <1>5
  <2>2. sessions'[i].version # account'.version
    BY <2>1, <1>4, StandingFacts
  <2>3. QED
    BY <2>1, <2>2, StandingFacts DEF Standing
<1>7. Authority!PutOut(Ids)
  BY <1>6 DEF Standings, Authority!PutOut
<1>8. Authority!SignOutEverywhere(s)
  BY <1>1, <1>2, <1>3, <1>4, <1>7 DEF Authority!SignOutEverywhere, Authority!credentials
<1>9. QED
  BY <1>8 DEF Authority!Next

\* Signing out is that, or nothing for a session that is out already.
LEMMA LogoutLeaves ==
  ASSUME IInv, NEW s \in Ids, Logout(s)
  PROVE  [Authority!Next]_(Authority!authorityVars)
<1>1. /\ sessions' = [sessions EXCEPT ![s].revoked = TRUE] /\ sessions[s].version # 0
      /\ ~sessions[s].revoked /\ UNCHANGED <<account, spent, local>>
  BY DEF Logout, calls
<1>2. /\ sessions'[s].revoked /\ sessions'[s].version = sessions[s].version
      /\ \A i \in Ids : i # s => sessions'[i] = sessions[i]
  BY <1>1, StandingFacts DEF IInv, TypeOK, Sessions
<1>3. Asked' = Asked
  BY <1>1 DEF Asked
<1>4. \A i \in Ids \ {s} : Standing(i)' = Standing(i)
  BY <1>1, <1>2 DEF Standing
<1>5. CASE sessions[s].version = account.version
  <2>1. Standing(s) = "in" /\ Standing(s)' = "left"
    BY <1>1, <1>2, <1>5 DEF Standing
  <2>2. Standings' = [Standings EXCEPT ![s] = "left"]
    BY <1>4, <2>1, StandingMoves
  <2>3. Authority!Logout(s)
    BY <1>1, <1>3, <2>1, <2>2 DEF Standings, Authority!Logout, Authority!credentials
  <2>4. QED
    BY <2>3 DEF Authority!Next
<1>6. CASE sessions[s].version # account.version
  <2>1. Standing(s)' = Standing(s)
    BY <1>1, <1>2, <1>6 DEF Standing
  <2>2. Standings' = Standings
    BY <1>4, <2>1, StandingsStay
  <2>3. QED
    BY <1>1, <1>3, <2>2 DEF Standings, Authority!authorityVars, Authority!credentials
<1>7. QED
  BY <1>5, <1>6

\* The steps that only prepare.
Prepares(r) ==
  \/ RequestLink(r) \/ PutLink(r) \/ ReadPassword(r) \/ ReadMfa(r) \/ CheckSetup(r)
  \/ PutPending(r) \/ ReadPending(r) \/ CheckProof(r) \/ Read(r) \/ Stop(r)
  \/ \E i \in Ids : ReadLink(r, i) \/ ReserveAttempt(r, i)
  \/ \E i \in Ids, op \in Changes : Authenticate(r, i, op)

LEMMA PreparingChangesNothing ==
  ASSUME NEW r \in Requests, Prepares(r)
  PROVE  UNCHANGED <<account, sessions, spent>>
BY DEF Prepares, RequestLink, PutLink, ReadPassword, ReadMfa, CheckSetup, PutPending,
   ReadPending, CheckProof, Read, Stop, ReadLink, ReserveAttempt, Authenticate, items

\* Preparing asks for a change, gives one up, or is not seen.
LEMMA PreparingAsks ==
  ASSUME CustomerAuthAssumption, IInv, NEW r \in Requests, Prepares(r)
  PROVE  \/ Asked' = Asked
         \/ \E s \in Ids : Asked' = Asked \ {s}
         \/ \E s \in Ids : Standing(s) = "in" /\ Asked' = Asked \cup {s}
<1>1. /\ TypeOK /\ local[r] \in Locals
      /\ pc[r] \in {"new", "putLink", "readMfa"} => local[r].op = "none"
  BY LocalType DEF IInv, FitsInv, Fits
<1>2. Blank.op = "none"
  BY DEF Blank
<1>3. ASSUME RequestLink(r) \/ ReadPassword(r) \/ \E i \in Ids : ReadLink(r, i) \/ ReserveAttempt(r, i)
      PROVE  Asked' = Asked
  <2>1. pc[r] = "new" /\ \E place, l : Goto(r, place, l) /\ l.op = "none"
    <3>1. CASE RequestLink(r) \/ ReadPassword(r)
      BY <3>1 DEF RequestLink, ReadPassword, Blank
    <3>2. ASSUME NEW i \in Ids, ReadLink(r, i)
          PROVE  pc[r] = "new" /\ \E place, l : Goto(r, place, l) /\ l.op = "none"
      <4> DEFINE l == [Blank EXCEPT !.on = i, !.saw = account,
                                    !.proof = [kind |-> "link", of |-> i, n |-> 0]]
      <4>1. pc[r] = "new" /\ Goto(r, "openLink", l)
        BY <3>2 DEF ReadLink
      <4>2. l.op = "none"
        BY DEF Blank
      <4>3. QED
        BY <4>1, <4>2
    <3>3. ASSUME NEW i \in Ids, ReserveAttempt(r, i)
          PROVE  pc[r] = "new" /\ \E place, l : Goto(r, place, l) /\ l.op = "none"
      BY <3>3 DEF ReserveAttempt, Blank
    <3>4. QED
      BY <1>3, <3>1, <3>2, <3>3
  <2>2. QED
    BY <1>1, <2>1, AskedFacts
<1>4. ASSUME ReadMfa(r) \/ CheckSetup(r) \/ ReadPending(r) \/ CheckProof(r) \/ Read(r)
      PROVE  Asked' = Asked
  <2>1. \E place, l : Goto(r, place, l) /\ l.op = local[r].op /\ l.on = local[r].on
    <3>1. CASE ReadMfa(r) \/ CheckProof(r)
      <4>1. PICK p, place : Goto(r, place, [local[r] EXCEPT !.saw = account, !.proof = p])
        BY <3>1 DEF ReadMfa, CheckProof
      <4> DEFINE l == [local[r] EXCEPT !.saw = account, !.proof = p]
      <4>2. l.op = local[r].op /\ l.on = local[r].on
        BY <1>1 DEF Locals
      <4>3. QED
        BY <4>1, <4>2
    <3>2. CASE ReadPending(r)
      BY <1>1, <3>2 DEF ReadPending, Locals
    <3>3. CASE CheckSetup(r)
      BY <1>1, <3>3 DEF CheckSetup, Locals
    <3>4. CASE Read(r)
      BY <1>1, <3>4 DEF Read, Locals
    <3>5. QED
      BY <1>4, <3>1, <3>2, <3>3, <3>4
  <2>2. QED
    BY <1>1, <2>1, AskedFacts
<1>5. ASSUME PutLink(r) \/ PutPending(r) \/ Stop(r)
      PROVE  Asked' = Asked \/ \E s \in Ids : Asked' = Asked \ {s}
  <2>1. End(r)
    BY <1>5 DEF PutLink, PutPending, Stop
  <2>2. Asked' \in {Asked, Asked \ {local[r].on}} /\ Asked \subseteq Ids
    BY <1>1, <2>1, AnsweredAsks DEF Asked
  <2>3. QED
    BY <2>2
<1>6. ASSUME NEW i \in Ids, NEW op \in Changes, Authenticate(r, i, op)
      PROVE  Standing(i) = "in" /\ Asked' = Asked \cup {i}
  <2> DEFINE l == [Blank EXCEPT !.op = op, !.on = i]
  <2>1. pc[r] = "new" /\ Accepted(i) /\ \E place : Goto(r, place, l)
    BY <1>6 DEF Authenticate
  <2>2. l.op = op /\ l.on = i /\ op # "none"
    BY DEF Blank, Changes
  <2> HIDE DEF l
  <2>3. Asked' = Asked \cup {i}
    BY <1>1, <2>1, <2>2, AskedFacts
  <2>4. QED
    BY <2>1, <2>3, StandingFacts DEF Accepted
<1>7. QED
  BY <1>3, <1>4, <1>5, <1>6 DEF Prepares

LEMMA PreparingIsSeen ==
  ASSUME CustomerAuthAssumption, IInv, NEW r \in Requests, Prepares(r)
  PROVE  [Authority!Next]_(Authority!authorityVars)
<1>1. /\ UNCHANGED <<account, sessions, spent>>
      /\ Standings' = Standings
  BY PreparingChangesNothing DEF Standings, Standing
<1>2. CASE Asked' = Asked
  BY <1>1, <1>2 DEF Standings, Authority!authorityVars, Authority!credentials
<1>3. ASSUME NEW s \in Ids, Asked' = Asked \ {s}
      PROVE  Authority!Next
  BY <1>1, <1>3 DEF Standings, Authority!GiveUp, Authority!credentials, Authority!Next
<1>4. ASSUME NEW s \in Ids, Standing(s) = "in", Asked' = Asked \cup {s}
      PROVE  Authority!Next
  BY <1>1, <1>4 DEF Standings, Authority!Ask, Authority!credentials, Authority!Next
<1>5. QED
  BY <1>2, <1>3, <1>4, PreparingAsks

LEMMA NextIs ==
  [Next]_vars =>
    \/ \E r \in Requests : \/ Prepares(r) \/ OpenLink(r) \/ OpenPassword(r) \/ OpenMfa(r)
                           \/ Changed(r)
    \/ \E s \in Ids : Logout(s)
    \/ UNCHANGED vars
BY DEF Next, Prepares, Changed

LEMMA AuthorityStep ==
  CustomerAuthAssumption /\ IInv /\ [Next]_vars => [Authority!Next]_(Authority!authorityVars)
<1> SUFFICES ASSUME CustomerAuthAssumption, IInv, [Next]_vars
             PROVE  [Authority!Next]_(Authority!authorityVars)
  OBVIOUS
<1>1. ASSUME NEW r \in Requests, OpenLink(r) \/ OpenPassword(r) \/ OpenMfa(r)
      PROVE  [Authority!Next]_(Authority!authorityVars)
  BY <1>1, FirstFactorEnters, SecondFactorEnters
<1>2. ASSUME NEW r \in Requests, Changed(r)
      PROVE  Authority!Next
  BY <1>2, SetsPassword, EnablesAuthenticator, ChangesAuthenticator, RevokePutsOut DEF Changed
<1>3. ASSUME UNCHANGED vars
      PROVE  UNCHANGED Authority!authorityVars
  <2>1. UNCHANGED <<account, sessions, spent, local>>
    BY <1>3 DEF vars, items, calls
  <2>2. QED
    BY <2>1 DEF Authority!authorityVars, Authority!credentials, Standing, Asked
<1>4. QED
  BY <1>1, <1>2, <1>3, PreparingIsSeen, LogoutLeaves, NextIs

\* Sign-ins, sign-outs and changes of the credentials that read first and write later, and
\* may overlap or stop anywhere, have the effect of SessionAuthority's single steps.
THEOREM SignInIsAtomic == Spec => ImplementsAuthority
<1> USE CustomerAuthAssumption
<1>1. Init => Authority!Init
  <2> SUFFICES ASSUME Init PROVE Authority!Init
    OBVIOUS
  <2>1. /\ account.version = 1 /\ account.password \in {NoOne, Before}
        /\ account.secret \in {NoOne, Before} /\ spent = {}
    BY DEF Init
  <2>2. \A i \in Ids : Standing(i) = IF i = Before THEN "in" ELSE "none"
    <3>1. \A i \in Ids : IF i = Before THEN sessions[i].version = 1 /\ ~sessions[i].revoked
                       ELSE sessions[i].version = 0
      BY DEF Init, NoSession
    <3>2. QED
      BY <2>1, <3>1 DEF Standing
  <2>3. Asked = {}
    BY DEF Init, Asked, Blank
  <2>4. QED
    BY <2>1, <2>2, <2>3 DEF Authority!Init
<1>2. IInv /\ [Next]_vars => [Authority!Next]_(Authority!authorityVars)
  BY AuthorityStep
<1>3. QED
  BY <1>1, <1>2, Invariance, PTL DEF Spec, ImplementsAuthority, Authority!Spec
==============================================================================
