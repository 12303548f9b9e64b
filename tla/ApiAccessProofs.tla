--------------------------- MODULE ApiAccessProofs ---------------------------
(* The invariants of ApiAccess, for any accounts, keys, plans, charges and    *)
(* calls.  IInv is inductive; its parts are taken one after the other.        *)
EXTENDS ApiAccess, FiniteSetTheorems, FiniteSums, TLAPS

\* A call that ends leaves nothing behind.
LEMMA BlankType == Blank \in Locals
  BY ApiAccessAssumption DEF ApiAccessAssumption, Blank, Locals, Months

\* What a call in progress has read is of the right type.
LEMMA LocalFields ==
  ASSUME TypeOK, NEW c \in Calls
  PROVE  local[c].units \in Nat /\ local[c].units > 0 /\ local[c].month \in Months
<1>1. local[c].units \in Charges /\ local[c].month \in Months
  BY DEF TypeOK, Locals
<1>2. Charges \subseteq Nat \ {0}
  BY ApiAccessAssumption DEF ApiAccessAssumption
<1>3. local[c].units \in Nat \ {0}
  BY <1>1, <1>2
<1>4. \A n \in Nat \ {0} : n \in Nat /\ n > 0
  OBVIOUS
<1> QED BY <1>1, <1>3, <1>4

\* The accounts and the clock keep their types.
LEMMA ClockType ==
  TypeOK /\ [Next]_vars => /\ plan' \in [Accounts -> Plans]
                           /\ open' \in [Accounts -> BOOLEAN]
                           /\ month' \in Months
<1> SUFFICES ASSUME TypeOK, [Next]_vars
             PROVE  /\ plan' \in [Accounts -> Plans]
                    /\ open' \in [Accounts -> BOOLEAN]
                    /\ month' \in Months
  OBVIOUS
<1>1. CASE NextMonth
  BY <1>1, ApiAccessAssumption
     DEF NextMonth, TypeOK, accountVars, Months, ApiAccessAssumption
<1>2. ASSUME NEW a \in Accounts, AccountChanges(a)
      PROVE  /\ plan' \in [Accounts -> Plans]
             /\ open' \in [Accounts -> BOOLEAN]
             /\ month' \in Months
  BY <1>2 DEF AccountChanges, TypeOK
<1>3. CASE UNCHANGED <<plan, open, month>>
  BY <1>3 DEF TypeOK
<1> QED
  BY <1>1, <1>2, <1>3
     DEF Next, StartIssue, StartCharge, StartRevoke, StartRequest, PutKey, RevokeKey,
         CheckAccount, TouchKey, Meter, Charge, accountVars, vars

\* The key tables change only by an issue or a revocation.
LEMMA KeyType ==
  IInv /\ [Next]_vars => /\ keyCount' \in [Accounts -> Nat]
                         /\ keyState' \in [Keys -> KeyStates]
                         /\ keyOwner' \in [Keys -> SUBSET Accounts]
<1> DEFINE Typed == /\ keyCount \in [Accounts -> Nat]
                    /\ keyState \in [Keys -> KeyStates]
                    /\ keyOwner \in [Keys -> SUBSET Accounts]
<1> SUFFICES ASSUME IInv, [Next]_vars PROVE Typed'
  OBVIOUS
<1>0. Typed
  BY DEF IInv, TypeOK
<1>1. ASSUME NEW c \in Calls, NEW k \in Keys, PutKey(c, k) PROVE Typed'
  <2>1. local[c].account \in Accounts
    BY <1>1 DEF IInv, LocalInv, LocalOK, PutKey
  <2> QED
    BY <1>0, <1>1, <2>1 DEF PutKey, AddKey, keyVars, KeyStates
<1>2. ASSUME NEW c \in Calls, RevokeKey(c) PROVE Typed'
  <2>1. local[c].account \in Accounts /\ local[c].key \in Keys
    BY <1>2 DEF IInv, LocalInv, LocalOK, RevokeKey
  <2> QED
    BY <1>0, <1>2, <2>1 DEF RevokeKey, Revocable, keyVars, KeyStates
<1>3. CASE UNCHANGED keyVars
  BY <1>0, <1>3 DEF keyVars
<1> QED
  BY <1>1, <1>2, <1>3
     DEF Next, NextMonth, AccountChanges, StartIssue, StartCharge, StartRevoke,
         StartRequest, CheckAccount, TouchKey, Meter, Charge, vars

\* The ledger and the usage change only by a charge.
LEMMA UsageType ==
  IInv /\ [Next]_vars => /\ used' \in [Accounts -> [Months -> Nat]]
                         /\ ledger' \in [Accounts -> [Months -> [Tokens -> Nat]]]
<1> DEFINE Typed == /\ used \in [Accounts -> [Months -> Nat]]
                    /\ ledger \in [Accounts -> [Months -> [Tokens -> Nat]]]
<1> SUFFICES ASSUME IInv, [Next]_vars PROVE Typed'
  OBVIOUS
<1>0. Typed
  BY DEF IInv, TypeOK
<1>1. ASSUME NEW c \in Calls, Charge(c) PROVE Typed'
  <2>1. /\ local[c].account \in Accounts /\ local[c].token \in Tokens
        /\ local[c].month \in Months /\ local[c].units \in Nat
    BY <1>1, ApiAccessAssumption
       DEF IInv, LocalInv, LocalOK, TypeOK, Locals, Charge, ApiAccessAssumption
  <2> DEFINE l == local[c]
  <2>2. CASE Chargeable(c)
    <3>1. /\ ledger' = [ledger EXCEPT ![l.account][l.month][l.token] = l.units]
          /\ used' = [used EXCEPT ![l.account][l.month] = @ + l.units]
      BY <1>1, <2>2 DEF Charge, UsageMonth
    <3>2. used' \in [Accounts -> [Months -> Nat]]
      BY <1>0, <2>1, <3>1
    <3>3. ledger' \in [Accounts -> [Months -> [Tokens -> Nat]]]
      BY <1>0, <2>1, <3>1
    <3> QED BY <3>2, <3>3
  <2>3. CASE ~ Chargeable(c)
    BY <1>0, <1>1, <2>3 DEF Charge, usageVars
  <2> QED BY <2>2, <2>3
<1>2. CASE UNCHANGED usageVars
  BY <1>0, <1>2 DEF usageVars
<1> QED
  BY <1>1, <1>2
     DEF Next, NextMonth, AccountChanges, StartIssue, StartCharge, StartRevoke,
         StartRequest, PutKey, RevokeKey, CheckAccount, TouchKey, Meter, vars

\* A call moves: to a typed place where it has what its next step uses.
Moves(c) ==
  \E s \in Steps, l \in Locals :
    /\ step'  = [step EXCEPT ![c] = s]
    /\ local' = [local EXCEPT ![c] = l]
    /\ LocalOK(c)'

\* Ending is a move.
LEMMA EndMoves == ASSUME TypeOK, NEW c \in Calls, End(c) PROVE Moves(c)
<1>1. LocalOK(c)'
  BY DEF End, LocalOK, TypeOK
<1> QED
  BY <1>1, BlankType DEF End, Moves, Steps, Answers

\* Going on with what the call has is a move, if that is enough.
LEMMA GotoMoves ==
  ASSUME TypeOK, NEW c \in Calls, NEW s \in Steps, Goto(c, s), LocalOK(c)' PROVE Moves(c)
<1>1. local[c] \in Locals /\ local' = [local EXCEPT ![c] = local[c]]
  BY DEF TypeOK, Goto
<1> QED
  BY <1>1 DEF Goto, Moves

\* Beginning is a move, if the call is given enough.
LEMMA BeginMoves ==
  ASSUME TypeOK, NEW c \in Calls, NEW s \in Steps, NEW l \in Locals, Begin(c, s, l), LocalOK(c)'
  PROVE  Moves(c)
  BY DEF Begin, Moves

\* A step moves one call or none.
LEMMA CallStep ==
  IInv /\ [Next]_vars => UNCHANGED <<step, local>> \/ \E c \in Calls : Moves(c)
<1> SUFFICES ASSUME IInv, [Next]_vars
             PROVE  UNCHANGED <<step, local>> \/ \E c \in Calls : Moves(c)
  OBVIOUS
<1>0. TypeOK /\ \A c \in Calls : LocalOK(c)
  BY DEF IInv, LocalInv
<1>1. ASSUME NEW c \in Calls, NEW a \in Accounts, StartIssue(c, a) PROVE Moves(c)
  <2> DEFINE l == [Blank EXCEPT !.account = a, !.limit = KeyLimit[plan[a]]]
  <2>1. plan[a] \in Plans /\ KeyLimit[plan[a]] \in Nat
    BY <1>0, ApiAccessAssumption DEF TypeOK, ApiAccessAssumption
  <2>2. l \in Locals /\ l.account = a /\ l.limit = KeyLimit[plan[a]]
    BY <2>1, BlankType DEF Blank, Locals
  <2>3. Begin(c, "issuing", l) /\ "issuing" \in Steps
    BY <1>1 DEF StartIssue, Steps
  <2>4. step'[c] = "issuing" /\ local'[c] = l
    BY <1>0, <2>3 DEF Begin, TypeOK
  <2>5. LocalOK(c)'
    BY <2>1, <2>2, <2>4 DEF LocalOK
  <2> QED BY <1>0, <2>2, <2>3, <2>5, BeginMoves
<1>2. ASSUME NEW c \in Calls, NEW a \in Accounts, StartCharge(c, a) PROVE Moves(c)
  <2> PICK t \in Tokens, u \in Charges :
        Begin(c, "metering", [Blank EXCEPT !.account = a, !.token = t, !.units = u])
    BY <1>2 DEF StartCharge
  <2> DEFINE l == [Blank EXCEPT !.account = a, !.token = t, !.units = u]
  <2>2. l \in Locals /\ l.account = a /\ l.token = t
    BY BlankType DEF Blank, Locals
  <2>3. Begin(c, "metering", l) /\ "metering" \in Steps
    BY DEF Steps
  <2>4. step'[c] = "metering" /\ local'[c] = l
    BY <1>0, <2>3 DEF Begin, TypeOK
  <2>5. LocalOK(c)'
    BY <2>2, <2>4 DEF LocalOK
  <2> QED BY <1>0, <2>2, <2>3, <2>5, BeginMoves
<1>3. ASSUME NEW c \in Calls, NEW k \in Keys, StartRevoke(c, k) PROVE Moves(c)
  <2> DEFINE s == IF keyState[k] = "revoked" THEN "revoked" ELSE "revoking"
  <2> PICK a \in keyOwner[k] : Begin(c, s, [Blank EXCEPT !.account = a, !.key = k])
    BY <1>3 DEF StartRevoke
  <2> DEFINE l == [Blank EXCEPT !.account = a, !.key = k]
  <2>1. a \in Accounts
    BY <1>0 DEF TypeOK
  <2>2. l \in Locals /\ l.account = a /\ l.key = k
    BY <2>1, BlankType DEF Blank, Locals
  <2>3. s \in {"revoked", "revoking"} /\ s \in Steps
    BY DEF Steps, Answers
  <2>4. step'[c] = s /\ local'[c] = l
    BY <1>0 DEF Begin, TypeOK
  <2>5. LocalOK(c)'
    BY <2>1, <2>2, <2>3, <2>4 DEF LocalOK
  <2> QED BY <1>0, <2>2, <2>3, <2>5, BeginMoves
<1>4. ASSUME NEW c \in Calls, NEW k \in Keys, StartRequest(c, k) PROVE Moves(c)
  <2> PICK a \in keyOwner[k], t \in Tokens :
        Begin(c, "checking", [Blank EXCEPT !.account = a, !.key = k, !.token = t])
    BY <1>4 DEF StartRequest
  <2> DEFINE l == [Blank EXCEPT !.account = a, !.key = k, !.token = t]
  <2>1. a \in Accounts
    BY <1>0 DEF TypeOK
  <2>2. l \in Locals /\ l.account = a /\ l.key = k /\ l.token = t
    BY <2>1, BlankType DEF Blank, Locals
  <2>3. Begin(c, "checking", l) /\ "checking" \in Steps
    BY DEF Steps
  <2>4. step'[c] = "checking" /\ local'[c] = l
    BY <1>0, <2>3 DEF Begin, TypeOK
  <2>5. LocalOK(c)'
    BY <2>1, <2>2, <2>4 DEF LocalOK
  <2> QED BY <1>0, <2>2, <2>3, <2>5, BeginMoves
<1>5. ASSUME NEW c \in Calls, NEW k \in Keys, PutKey(c, k) PROVE Moves(c)
  <2>1. CASE End(c)
    BY <1>0, <2>1, EndMoves
  <2>2. CASE local' = [local EXCEPT ![c].tries = @ + 1] /\ UNCHANGED step /\ local[c].tries < 2
    <3> DEFINE l == [local[c] EXCEPT !.tries = @ + 1]
    <3>1. local[c] \in Locals /\ step[c] = "issuing"
      BY <1>0, <1>5 DEF TypeOK, PutKey
    <3>2. l \in Locals /\ l.account = local[c].account /\ l.limit = local[c].limit
      BY <2>2, <3>1 DEF Locals
    <3>3. /\ local' = [local EXCEPT ![c] = l] /\ local'[c] = l
          /\ step' = [step EXCEPT ![c] = "issuing"] /\ step'[c] = "issuing"
      BY <1>0, <2>2, <3>1 DEF TypeOK
    <3>4. LocalOK(c)'
      BY <1>0, <3>1, <3>2, <3>3 DEF LocalOK
    <3>5. "issuing" \in Steps
      BY DEF Steps
    <3> QED BY <3>2, <3>3, <3>4, <3>5 DEF Moves
  <2> QED BY <1>5, <2>1, <2>2 DEF PutKey, AddKey
<1>6. ASSUME NEW c \in Calls, RevokeKey(c) PROVE Moves(c)
  <2>1. CASE End(c)
    BY <1>0, <2>1, EndMoves
  <2>2. CASE Goto(c, "revoked")
    <3>1. "revoked" \in Steps /\ LocalOK(c)'
      BY <1>0, <2>2 DEF Goto, Steps, Answers, LocalOK, TypeOK
    <3> QED BY <1>0, <2>2, <3>1, GotoMoves
  <2> QED BY <1>6, <2>1, <2>2 DEF RevokeKey, Answer
<1>7. ASSUME NEW c \in Calls, CheckAccount(c) PROVE Moves(c)
  <2>1. CASE End(c)
    BY <1>0, <2>1, EndMoves
  <2>2. CASE Goto(c, "touching")
    <3>1. "touching" \in Steps /\ LocalOK(c)'
      BY <1>0, <1>7, <2>2 DEF CheckAccount, Goto, Steps, LocalOK, TypeOK
    <3> QED BY <1>0, <2>2, <3>1, GotoMoves
  <2> QED BY <1>7, <2>1, <2>2 DEF CheckAccount
<1>8. ASSUME NEW c \in Calls, TouchKey(c) PROVE Moves(c)
  <2>1. CASE End(c)
    BY <1>0, <2>1, EndMoves
  <2>2. CASE Goto(c, "metering")
    <3>1. "metering" \in Steps /\ LocalOK(c)'
      BY <1>0, <1>8, <2>2 DEF TouchKey, Goto, Steps, LocalOK, TypeOK
    <3> QED BY <1>0, <2>2, <3>1, GotoMoves
  <2> QED BY <1>8, <2>1, <2>2 DEF TouchKey
<1>9. ASSUME NEW c \in Calls, Meter(c) PROVE Moves(c)
  <2>1. CASE End(c)
    BY <1>0, <2>1, EndMoves
  <2>2. CASE open[local[c].account]
    <3> DEFINE n == Credits[plan[local[c].account]]
               l == [local[c] EXCEPT !.limit = n, !.month = month]
    <3>1. local[c] \in Locals /\ local[c].account \in Accounts /\ local[c].token \in Tokens
      BY <1>0, <1>9 DEF TypeOK, Meter, LocalOK
    <3>2. /\ plan[local[c].account] \in Plans /\ n \in Nat /\ month \in Months
      BY <1>0, <3>1, ApiAccessAssumption DEF TypeOK, ApiAccessAssumption
    <3>3. /\ l \in Locals /\ l.account = local[c].account /\ l.token = local[c].token
          /\ l.limit = n
      BY <3>1, <3>2 DEF Locals
    <3>4. /\ local' = [local EXCEPT ![c] = l] /\ local'[c] = l
          /\ step' = [step EXCEPT ![c] = "charging"] /\ step'[c] = "charging"
      BY <1>0, <1>9, <2>2 DEF TypeOK, Meter
    <3>5. LocalOK(c)' /\ "charging" \in Steps
      BY <3>1, <3>2, <3>3, <3>4 DEF LocalOK, Steps
    <3> QED BY <3>3, <3>4, <3>5 DEF Moves
  <2> QED BY <1>9, <2>1, <2>2 DEF Meter
<1>10. ASSUME NEW c \in Calls, Charge(c) PROVE Moves(c)
  <2>1. CASE End(c)
    BY <1>0, <2>1, EndMoves
  <2>2. ASSUME NEW s \in {"consumed", "duplicate"}, Goto(c, s) PROVE Moves(c)
    <3>1. s \in Steps /\ LocalOK(c)'
      BY <1>0, <1>10, <2>2 DEF Charge, Goto, Steps, Answers, LocalOK, TypeOK
    <3> QED BY <1>0, <2>2, <3>1, GotoMoves
  <2> QED BY <1>10, <2>1, <2>2 DEF Charge, Answer
<1>11. CASE NextMonth \/ UNCHANGED vars \/ \E a \in Accounts : AccountChanges(a)
  BY <1>11 DEF NextMonth, AccountChanges, vars
<1> QED
  BY <1>1, <1>2, <1>3, <1>4, <1>5, <1>6, <1>7, <1>8, <1>9, <1>10, <1>11 DEF Next

\* Every step keeps every type.
LEMMA TypeStep == IInv /\ [Next]_vars => TypeOK'
<1> SUFFICES ASSUME IInv, [Next]_vars PROVE TypeOK'
  OBVIOUS
<1>1. TypeOK
  BY DEF IInv
<1>2. step' \in [Calls -> Steps] /\ local' \in [Calls -> Locals]
  BY <1>1, CallStep DEF TypeOK, Moves
<1> QED
  BY <1>1, <1>2, ClockType, KeyType, UsageType DEF TypeOK

\* A call that does not move keeps what it has.
LEMMA LocalStep == IInv /\ [Next]_vars => LocalInv'
<1> SUFFICES ASSUME IInv, [Next]_vars, NEW d \in Calls PROVE LocalOK(d)'
  BY DEF LocalInv
<1>1. TypeOK /\ LocalOK(d)
  BY DEF IInv, LocalInv
<1>2. CASE step'[d] = step[d] /\ local'[d] = local[d]
  BY <1>1, <1>2 DEF LocalOK
<1> QED
  BY <1>1, <1>2, CallStep DEF TypeOK, Moves

\* The key tables: a step leaves them alone, adds a fresh key below the limit of a plan,
\* or revokes an active key of its owner.
Adds(a, k) ==
  /\ keyState[k] = "absent"
  /\ \E p \in Plans : keyCount[a] < KeyLimit[p]
  /\ keyCount' = [keyCount EXCEPT ![a] = @ + 1]
  /\ keyState' = [keyState EXCEPT ![k] = "active"]
  /\ keyOwner' = [keyOwner EXCEPT ![k] = {a}]

Revokes(a, k) ==
  /\ keyState[k] = "active" /\ a \in keyOwner[k] /\ keyCount[a] > 0
  /\ keyCount' = [keyCount EXCEPT ![a] = @ - 1]
  /\ keyState' = [keyState EXCEPT ![k] = "revoked"]
  /\ UNCHANGED keyOwner

\* These are the only steps of the key tables.
LEMMA KeyStep ==
  IInv /\ [Next]_vars =>
    UNCHANGED keyVars \/ \E a \in Accounts, k \in Keys : Adds(a, k) \/ Revokes(a, k)
<1> SUFFICES ASSUME IInv, [Next]_vars
    PROVE UNCHANGED keyVars \/ \E a \in Accounts, k \in Keys : Adds(a, k) \/ Revokes(a, k)
  OBVIOUS
<1>0. TypeOK /\ \A c \in Calls : LocalOK(c)
  BY DEF IInv, LocalInv
<1>1. ASSUME NEW c \in Calls, NEW k \in Keys, PutKey(c, k)
      PROVE  UNCHANGED keyVars \/ \E a \in Accounts : Adds(a, k)
  <2>1. local[c].account \in Accounts /\ \E p \in Plans : local[c].limit = KeyLimit[p]
    BY <1>0, <1>1 DEF PutKey, LocalOK
  <2> QED
    BY <1>1, <2>1 DEF PutKey, AddKey, BelowLimit, Adds
<1>2. ASSUME NEW c \in Calls, RevokeKey(c)
      PROVE  UNCHANGED keyVars \/ \E a \in Accounts, k \in Keys : Revokes(a, k)
  <2>1. local[c].account \in Accounts /\ local[c].key \in Keys
    BY <1>0, <1>2 DEF RevokeKey, LocalOK
  <2> QED
    BY <1>2, <2>1 DEF RevokeKey, Revocable, Revokes
<1> QED
  BY <1>1, <1>2
     DEF Next, NextMonth, AccountChanges, StartIssue, StartCharge, StartRevoke,
         StartRequest, CheckAccount, TouchKey, Meter, Charge, vars

\* A key gets one owner with its creation and keeps it.
LEMMA OwnerStep == IInv /\ [Next]_vars => OwnerInv'
<1> SUFFICES ASSUME IInv, [Next]_vars, NEW j \in Keys PROVE OwnerOK(j)'
  BY DEF OwnerInv
<1>0. TypeOK /\ OwnerOK(j)
  BY DEF IInv, OwnerInv
<1>1. CASE UNCHANGED keyVars
  BY <1>0, <1>1 DEF OwnerOK, keyVars
<1>2. ASSUME NEW a \in Accounts, NEW k \in Keys, Adds(a, k) PROVE OwnerOK(j)'
  BY <1>0, <1>2 DEF Adds, OwnerOK, TypeOK
<1>3. ASSUME NEW a \in Accounts, NEW k \in Keys, Revokes(a, k) PROVE OwnerOK(j)'
  BY <1>0, <1>3 DEF Revokes, OwnerOK, TypeOK
<1> QED BY <1>1, <1>2, <1>3, KeyStep

\* The counter follows the set of active keys.
LEMMA CountStep == IInv /\ [Next]_vars => KeyCount'
<1> SUFFICES ASSUME IInv, [Next]_vars, NEW b \in Accounts
             PROVE  keyCount'[b] = Cardinality(ActiveKeys(b)')
  BY DEF KeyCount
<1>0. /\ TypeOK /\ OwnerInv /\ keyCount[b] = Cardinality(ActiveKeys(b))
      /\ keyCount[b] \in Nat
  BY DEF IInv, KeyCount, TypeOK
<1>1. IsFiniteSet(ActiveKeys(b))
  <2>1. ActiveKeys(b) \subseteq Keys
    BY DEF ActiveKeys
  <2> QED BY <2>1, FS_Subset, ApiAccessAssumption DEF ApiAccessAssumption
<1>2. CASE UNCHANGED keyVars
  BY <1>0, <1>2 DEF ActiveKeys, keyVars
<1>3. ASSUME NEW a \in Accounts, NEW k \in Keys, Adds(a, k)
      PROVE  keyCount'[b] = Cardinality(ActiveKeys(b)')
  <2>1. keyOwner[k] = {} /\ k \notin ActiveKeys(b)
    BY <1>0, <1>3 DEF Adds, OwnerInv, OwnerOK, ActiveKeys
  <2>2. CASE a = b
    <3>1. ActiveKeys(b)' = ActiveKeys(b) \cup {k}
      BY <1>0, <1>3, <2>2 DEF Adds, ActiveKeys, TypeOK
    <3>2. keyCount'[b] = keyCount[b] + 1
      BY <1>0, <1>3, <2>2 DEF Adds, TypeOK
    <3> QED BY <1>0, <1>1, <2>1, <3>1, <3>2, FS_AddElement
  <2>3. CASE a # b
    <3>1. ActiveKeys(b)' = ActiveKeys(b)
      BY <1>0, <1>3, <2>1, <2>3 DEF Adds, ActiveKeys, TypeOK
    <3>2. keyCount'[b] = keyCount[b]
      BY <1>0, <1>3, <2>3 DEF Adds, TypeOK
    <3> QED BY <1>0, <3>1, <3>2
  <2> QED BY <2>2, <2>3
<1>4. ASSUME NEW a \in Accounts, NEW k \in Keys, Revokes(a, k)
      PROVE  keyCount'[b] = Cardinality(ActiveKeys(b)')
  <2>1. keyOwner[k] = {a} /\ keyState[k] = "active"
    BY <1>0, <1>4 DEF Revokes, OwnerInv, OwnerOK
  <2>2. CASE a = b
    <3>1. k \in ActiveKeys(b) /\ ActiveKeys(b)' = ActiveKeys(b) \ {k}
      BY <1>0, <1>4, <2>1, <2>2 DEF Revokes, ActiveKeys, TypeOK
    <3>2. keyCount'[b] = keyCount[b] - 1
      BY <1>0, <1>4, <2>2 DEF Revokes, TypeOK
    <3>3. Cardinality(ActiveKeys(b) \ {k}) = Cardinality(ActiveKeys(b)) - 1
      BY <1>1, <3>1, FS_RemoveElement
    <3> QED BY <1>0, <3>1, <3>2, <3>3
  <2>3. CASE a # b
    <3>1. ActiveKeys(b)' = ActiveKeys(b)
      BY <1>0, <1>4, <2>1, <2>3 DEF Revokes, ActiveKeys, TypeOK
    <3>2. keyCount'[b] = keyCount[b]
      BY <1>0, <1>4, <2>3 DEF Revokes, TypeOK
    <3> QED BY <1>0, <3>1, <3>2
  <2> QED BY <2>2, <2>3
<1> QED BY <1>2, <1>3, <1>4, KeyStep

\* An issue stays within the plan it has read, and nothing else raises the counter.
LEMMA LimitStep == IInv /\ [Next]_vars => KeysWithinPlans'
<1> SUFFICES ASSUME IInv, [Next]_vars, NEW b \in Accounts
             PROVE  \E p \in Plans : keyCount'[b] <= KeyLimit[p]
  BY DEF KeysWithinPlans
<1>0. TypeOK /\ \E p \in Plans : keyCount[b] <= KeyLimit[p]
  BY DEF IInv, KeysWithinPlans
<1>1. CASE UNCHANGED keyVars
  BY <1>0, <1>1 DEF keyVars
<1>2. ASSUME NEW a \in Accounts, NEW k \in Keys, Adds(a, k)
      PROVE  \E p \in Plans : keyCount'[b] <= KeyLimit[p]
  <2>1. CASE a = b
    <3> PICK p \in Plans : keyCount[b] < KeyLimit[p]
      BY <1>2, <2>1 DEF Adds
    <3>1. keyCount[b] \in Nat /\ KeyLimit[p] \in Nat /\ keyCount'[b] = keyCount[b] + 1
      BY <1>0, <1>2, <2>1, ApiAccessAssumption DEF Adds, TypeOK, ApiAccessAssumption
    <3> QED BY <3>1
  <2>2. CASE a # b
    BY <1>0, <1>2, <2>2 DEF Adds, TypeOK
  <2> QED BY <2>1, <2>2
<1>3. ASSUME NEW a \in Accounts, NEW k \in Keys, Revokes(a, k)
      PROVE  \E p \in Plans : keyCount'[b] <= KeyLimit[p]
  <2> PICK p \in Plans : keyCount[b] <= KeyLimit[p]
    BY <1>0
  <2>1. keyCount[b] \in Nat /\ KeyLimit[p] \in Nat
    BY <1>0, ApiAccessAssumption DEF TypeOK, ApiAccessAssumption
  <2>2. keyCount'[b] = keyCount[b] \/ keyCount'[b] = keyCount[b] - 1
    BY <1>0, <1>3 DEF Revokes, TypeOK
  <2> QED BY <2>1, <2>2
<1> QED BY <1>1, <1>2, <1>3, KeyStep

\* The ledger: a step leaves it alone, or it is one call's charge, whose token was not
\* recorded yet.
Consumes(c) ==
  LET l == local[c]
      u == used[l.account][l.month] IN
  /\ step[c] = "charging" /\ Recorded(c) = 0
  /\ u = 0 \/ \E p \in Plans : u + l.units <= Credits[p]
  /\ ledger' = [ledger EXCEPT ![l.account][l.month][l.token] = l.units]
  /\ used'   = [used EXCEPT ![l.account][l.month] = @ + l.units]
  /\ Answer(c, "consumed")

\* These are the only steps of the ledger.  A call that is told "duplicate" has seen its
\* own amount recorded.
LEMMA LedgerStep ==
  IInv /\ [Next]_vars =>
    \/ \E c \in Calls : Consumes(c)
    \/ /\ UNCHANGED usageVars
       /\ \A c \in Calls : /\ step'[c] = "consumed" => step[c] = "consumed"
                           /\ step'[c] = "duplicate" =>
                                step[c] = "duplicate" \/ Recorded(c)' = local'[c].units
<1> SUFFICES ASSUME IInv, [Next]_vars
             PROVE  \/ \E c \in Calls : Consumes(c)
                    \/ /\ UNCHANGED usageVars
                       /\ \A c \in Calls :
                            /\ step'[c] = "consumed" => step[c] = "consumed"
                            /\ step'[c] = "duplicate" =>
                                 step[c] = "duplicate" \/ Recorded(c)' = local'[c].units
  OBVIOUS
<1> DEFINE Quiet == /\ UNCHANGED usageVars
                    /\ \A c \in Calls :
                         /\ step'[c] = "consumed" => step[c] = "consumed"
                         /\ step'[c] = "duplicate" =>
                              step[c] = "duplicate" \/ Recorded(c)' = local'[c].units
<1>0. TypeOK /\ \A c \in Calls : LocalOK(c)
  BY DEF IInv, LocalInv
<1>1. ASSUME NEW c \in Calls, Charge(c), Chargeable(c) PROVE Consumes(c)
  BY <1>0, <1>1 DEF Charge, Chargeable, WithinLimit, UsageMonth, Consumes, LocalOK
<1>2. ASSUME NEW c \in Calls, Charge(c), ~ Chargeable(c) PROVE Quiet
  <2>1. CASE End(c)
    BY <1>0, <1>2, <2>1 DEF Charge, End, TypeOK
  <2>2. CASE Goto(c, "duplicate") /\ Recorded(c) = local[c].units
    BY <1>0, <1>2, <2>2 DEF Charge, Goto, TypeOK, Recorded, usageVars
  <2> QED BY <1>2, <2>1, <2>2 DEF Charge
<1>3. ASSUME NEW c \in Calls, NEW s \in Steps \ {"consumed", "duplicate"},
             UNCHANGED usageVars, step' = [step EXCEPT ![c] = s]
      PROVE  Quiet
  BY <1>0, <1>3 DEF TypeOK
<1>4. CASE UNCHANGED <<usageVars, step>>
  BY <1>4
<1>5. ASSUME NEW c \in Calls, NEW k \in Keys, PutKey(c, k) PROVE Quiet
  BY <1>0, <1>3, <1>4, <1>5 DEF PutKey, AddKey, End, Steps, Answers
<1>6. ASSUME NEW c \in Calls, RevokeKey(c) PROVE Quiet
  BY <1>0, <1>3, <1>6 DEF RevokeKey, Answer, Goto, End, Steps, Answers
<1>7. ASSUME NEW c \in Calls, CheckAccount(c) \/ TouchKey(c) \/ Meter(c) PROVE Quiet
  BY <1>0, <1>3, <1>7 DEF CheckAccount, TouchKey, Meter, Goto, End, Steps, Answers
<1>8. ASSUME NEW c \in Calls, NEW a \in Accounts, StartIssue(c, a) \/ StartCharge(c, a)
      PROVE  Quiet
  BY <1>0, <1>3, <1>8 DEF StartIssue, StartCharge, Begin, Steps
<1>9. ASSUME NEW c \in Calls, NEW k \in Keys, StartRevoke(c, k) \/ StartRequest(c, k)
      PROVE  Quiet
  BY <1>0, <1>3, <1>9 DEF StartRevoke, StartRequest, Begin, Steps, Answers
<1> QED
  BY <1>1, <1>2, <1>4, <1>5, <1>6, <1>7, <1>8, <1>9
     DEF Next, NextMonth, AccountChanges, vars

\* A charge changes one record and one usage item.
LEMMA ChargeEffect ==
  ASSUME IInv, NEW c \in Calls, Consumes(c)
  PROVE  LET l == local[c] IN
         /\ l.account \in Accounts /\ l.month \in Months /\ l.token \in Tokens
         /\ l.units \in Nat /\ l.units > 0
         /\ ledger[l.account][l.month][l.token] = 0
         /\ ledger'[l.account][l.month][l.token] = l.units
         /\ used'[l.account][l.month] = used[l.account][l.month] + l.units
         /\ \A a \in Accounts, m \in Months :
              /\ a # l.account \/ m # l.month => used'[a][m] = used[a][m]
              /\ \A t \in Tokens :
                   a # l.account \/ m # l.month \/ t # l.token =>
                     ledger'[a][m][t] = ledger[a][m][t]
<1> DEFINE l == local[c]
<1>1. /\ l.account \in Accounts /\ l.month \in Months /\ l.token \in Tokens
      /\ l.units \in Nat /\ l.units > 0
  <2>1. step[c] = "charging" /\ LocalOK(c) /\ TypeOK
    BY DEF Consumes, IInv, LocalInv
  <2> QED BY <2>1, LocalFields DEF LocalOK
<1>2. /\ used \in [Accounts -> [Months -> Nat]]
      /\ ledger \in [Accounts -> [Months -> [Tokens -> Nat]]]
  BY DEF IInv, TypeOK
<1>3. /\ ledger' = [ledger EXCEPT ![l.account][l.month][l.token] = l.units]
      /\ used' = [used EXCEPT ![l.account][l.month] = @ + l.units]
      /\ ledger[l.account][l.month][l.token] = 0
  BY DEF Consumes, Recorded
<1>4. \A a \in Accounts, m \in Months :
        used'[a][m] = IF a = l.account /\ m = l.month THEN used[a][m] + l.units
                      ELSE used[a][m]
  BY <1>1, <1>2, <1>3
<1>5. \A a \in Accounts, m \in Months, t \in Tokens :
        ledger'[a][m][t] = IF a = l.account /\ m = l.month /\ t = l.token THEN l.units
                           ELSE ledger[a][m][t]
  BY <1>1, <1>2, <1>3
<1>6. /\ ledger'[l.account][l.month][l.token] = l.units
      /\ used'[l.account][l.month] = used[l.account][l.month] + l.units
  BY <1>1, <1>4, <1>5
<1>7. ASSUME NEW a \in Accounts, NEW m \in Months
      PROVE  /\ a # l.account \/ m # l.month => used'[a][m] = used[a][m]
             /\ \A t \in Tokens :
                  a # l.account \/ m # l.month \/ t # l.token =>
                    ledger'[a][m][t] = ledger[a][m][t]
  BY <1>4, <1>5, <1>7
<1> HIDE DEF l
<1> QED BY <1>1, <1>3, <1>6, <1>7 DEF l

\* A recorded charge is counted.
LEMMA UsageStep == IInv /\ [Next]_vars => UsageInv'
<1> SUFFICES ASSUME IInv, [Next]_vars, NEW a \in Accounts, NEW m \in Months, NEW t \in Tokens,
                    ledger'[a][m][t] > 0
             PROVE  used'[a][m] > 0
  BY DEF UsageInv
<1>0. /\ used[a][m] \in Nat /\ ledger[a][m][t] \in Nat
      /\ ledger[a][m][t] > 0 => used[a][m] > 0
  BY DEF IInv, TypeOK, UsageInv
<1>1. CASE UNCHANGED usageVars
  BY <1>0, <1>1 DEF usageVars
<1>2. ASSUME NEW c \in Calls, Consumes(c) PROVE used'[a][m] > 0
  BY <1>0, <1>2, ChargeEffect
<1> QED BY <1>1, <1>2, LedgerStep

\* A month that is over every plan's limit keeps its single charge: a second one would
\* have been compared with the limit of a plan.
LEMMA QuotaStep == IInv /\ [Next]_vars => OverQuotaOnlyAtFirst'
<1> SUFFICES ASSUME IInv, [Next]_vars, NEW a \in Accounts, NEW m \in Months,
                    \A p \in Plans : used'[a][m] > Credits[p],
                    NEW s \in Tokens, NEW t \in Tokens,
                    ledger'[a][m][s] > 0, ledger'[a][m][t] > 0
             PROVE  s = t
  BY DEF OverQuotaOnlyAtFirst, Charged
<1>0. /\ used[a][m] \in Nat
      /\ \A r \in Tokens : /\ ledger[a][m][r] \in Nat
                           /\ ledger[a][m][r] > 0 => used[a][m] > 0
      /\ \A p \in Plans : Credits[p] \in Nat
  BY ApiAccessAssumption DEF IInv, TypeOK, UsageInv, ApiAccessAssumption
<1>1. ASSUME used'[a][m] = used[a][m], \A r \in Tokens : ledger'[a][m][r] = ledger[a][m][r]
      PROVE  s = t
  BY <1>1 DEF IInv, OverQuotaOnlyAtFirst, Charged
<1>2. CASE UNCHANGED usageVars
  BY <1>1, <1>2 DEF usageVars
<1>3. ASSUME NEW c \in Calls, Consumes(c) PROVE s = t
  <2> DEFINE l == local[c]
  <2>1. CASE a # l.account \/ m # l.month
    BY <1>1, <1>3, <2>1, ChargeEffect
  <2>2. CASE a = l.account /\ m = l.month
    <3>1. used'[a][m] = used[a][m] + l.units
      BY <1>3, <2>2, ChargeEffect
    <3>2. used[a][m] = 0
      <4>1. used[a][m] = 0 \/ \E p \in Plans : used[a][m] + l.units <= Credits[p]
        BY <1>3, <2>2 DEF Consumes
      <4>2. l.units \in Nat
        BY <1>3, ChargeEffect
      <4>3. ~ \E p \in Plans : used[a][m] + l.units <= Credits[p]
        BY <1>0, <3>1, <4>2
      <4> QED BY <4>1, <4>3
    <3>3. \A r \in Tokens : ledger[a][m][r] = 0
      BY <1>0, <3>2
    <3>4. \A r \in Tokens : ledger'[a][m][r] > 0 => r = l.token
      BY <1>3, <2>2, <3>3, ChargeEffect
    <3> QED BY <3>4
  <2> QED BY <2>1, <2>2
<1> QED BY <1>2, <1>3, LedgerStep

\* Only calls that have not answered yet are moved.
LEMMA AnswersStay ==
  TypeOK /\ [Next]_vars =>
    \A c \in Calls : step[c] \in Answers => step'[c] = step[c] /\ local'[c] = local[c]
<1> SUFFICES ASSUME TypeOK, [Next]_vars, NEW c \in Calls, step[c] \in Answers
             PROVE  step'[c] = step[c] /\ local'[c] = local[c]
  OBVIOUS
<1> DEFINE Kept == step'[c] = step[c] /\ local'[c] = local[c]
<1>0. step \in [Calls -> Steps] /\ local \in [Calls -> Locals]
  BY DEF TypeOK
<1>1. ASSUME NEW d \in Calls, d # c, NEW s, NEW l,
             step' = [step EXCEPT ![d] = s], local' = [local EXCEPT ![d] = l]
      PROVE  Kept
  BY <1>0, <1>1
<1>2. ASSUME NEW d \in Calls, d # c, NEW s, Goto(d, s) PROVE Kept
  BY <1>0, <1>2 DEF Goto
<1>3. ASSUME NEW d \in Calls, d # c, End(d) PROVE Kept
  BY <1>1, <1>3 DEF End
<1>4. ASSUME NEW d \in Calls, NEW s, NEW l, Begin(d, s, l) PROVE Kept
  <2>1. d # c
    BY <1>4 DEF Begin, Answers
  <2> QED BY <1>1, <1>4, <2>1 DEF Begin
<1>5. ASSUME NEW d \in Calls, NEW k \in Keys, PutKey(d, k) PROVE Kept
  <2>1. d # c
    BY <1>5 DEF PutKey, Answers
  <2>2. CASE local' = [local EXCEPT ![d].tries = @ + 1] /\ UNCHANGED step
    BY <1>0, <2>1, <2>2
  <2> QED BY <1>3, <1>5, <2>1, <2>2 DEF PutKey, AddKey
<1>6. ASSUME NEW d \in Calls, RevokeKey(d) PROVE Kept
  <2>1. d # c
    BY <1>6 DEF RevokeKey, Answers
  <2> QED BY <1>2, <1>3, <1>6, <2>1 DEF RevokeKey, Answer
<1>7. ASSUME NEW d \in Calls, CheckAccount(d) \/ TouchKey(d) PROVE Kept
  <2>1. d # c
    BY <1>7 DEF CheckAccount, TouchKey, Answers
  <2> QED BY <1>2, <1>3, <1>7, <2>1 DEF CheckAccount, TouchKey
<1>8. ASSUME NEW d \in Calls, Meter(d) PROVE Kept
  <2>1. d # c
    BY <1>8 DEF Meter, Answers
  <2>2. CASE open[local[d].account]
    BY <1>0, <1>8, <2>1, <2>2 DEF Meter
  <2> QED BY <1>3, <1>8, <2>1, <2>2 DEF Meter
<1>9. ASSUME NEW d \in Calls, Charge(d) PROVE Kept
  <2>1. d # c
    BY <1>9 DEF Charge, Answers
  <2> QED BY <1>2, <1>3, <1>9, <2>1 DEF Charge, Answer
<1>10. CASE UNCHANGED <<step, local>>
  BY <1>10
<1> QED
  BY <1>4, <1>5, <1>6, <1>7, <1>8, <1>9, <1>10
     DEF Next, NextMonth, AccountChanges, StartIssue, StartCharge, StartRevoke,
         StartRequest, vars

\* Of the calls with one token only the call that records it is told "consumed".
LEMMA ConsumedStep == IInv /\ [Next]_vars => ConsumedOnce'
<1> DEFINE Told(c) == step[c] \in {"consumed", "duplicate"}
           Apart(c, d) == \/ local[c].account # local[d].account
                          \/ local[c].month # local[d].month
                          \/ local[c].token # local[d].token
<1> SUFFICES ASSUME IInv, [Next]_vars
             PROVE  \A c \in Calls :
                      /\ Told(c)' => Recorded(c)' = local'[c].units
                      /\ \A d \in Calls \ {c} :
                           step'[c] = "consumed" /\ step'[d] = "consumed" => Apart(c, d)'
  BY DEF ConsumedOnce
<1>0. /\ TypeOK /\ \A c \in Calls : LocalOK(c)
      /\ \A c \in Calls : Told(c) => Recorded(c) = local[c].units
      /\ \A c \in Calls : \A d \in Calls \ {c} :
           step[c] = "consumed" /\ step[d] = "consumed" => Apart(c, d)
  BY DEF IInv, LocalInv, ConsumedOnce
<1>1. \A c \in Calls : Told(c) => step'[c] = step[c] /\ local'[c] = local[c]
  BY <1>0, AnswersStay DEF Answers
<1>2. \A c \in Calls : Told(c) =>
        /\ local[c].account \in Accounts /\ local[c].token \in Tokens
        /\ local[c].month \in Months /\ local[c].units > 0
  BY <1>0, LocalFields DEF LocalOK
<1>3. CASE /\ UNCHANGED usageVars
           /\ \A c \in Calls : /\ step'[c] = "consumed" => step[c] = "consumed"
                               /\ step'[c] = "duplicate" =>
                                    step[c] = "duplicate" \/ Recorded(c)' = local'[c].units
  BY <1>0, <1>1, <1>3 DEF Recorded, usageVars
<1>4. ASSUME NEW e \in Calls, Consumes(e)
      PROVE  \A c \in Calls :
               /\ Told(c)' => Recorded(c)' = local'[c].units
               /\ \A d \in Calls \ {c} :
                    step'[c] = "consumed" /\ step'[d] = "consumed" => Apart(c, d)'
  <2>1. \A c \in Calls \ {e} : step'[c] = step[c] /\ local'[c] = local[c]
    BY <1>0, <1>4 DEF Consumes, Answer, Goto, End, TypeOK
  <2>2. Told(e)' => local'[e] = local[e] /\ Recorded(e)' = local[e].units
    <3>1. CASE End(e)
      BY <1>0, <3>1 DEF End, TypeOK
    <3>2. CASE Goto(e, "consumed")
      BY <1>4, <3>2, ChargeEffect DEF Goto, Recorded
    <3> QED BY <1>4, <3>1, <3>2 DEF Consumes, Answer
  <2>3. \A c \in Calls \ {e} : Told(c) => Apart(c, e) /\ Recorded(c)' = Recorded(c)
    <3> SUFFICES ASSUME NEW c \in Calls \ {e}, Told(c)
                 PROVE  Apart(c, e) /\ Recorded(c)' = Recorded(c)
      OBVIOUS
    <3>1. Recorded(c) > 0 /\ Recorded(e) = 0
      BY <1>0, <1>2, <1>4 DEF Consumes
    <3>2. Apart(c, e)
      BY <3>1 DEF Recorded
    <3>3. local'[c] = local[c]
      BY <2>1
    <3> QED BY <1>2, <1>4, <3>2, <3>3, ChargeEffect DEF Recorded
  <2>4. ASSUME NEW c \in Calls, Told(c)' PROVE Recorded(c)' = local'[c].units
    BY <1>0, <2>1, <2>2, <2>3, <2>4
  <2>5. ASSUME NEW c \in Calls, NEW d \in Calls \ {c},
               step'[c] = "consumed", step'[d] = "consumed"
        PROVE  Apart(c, d)'
    <3>1. CASE c # e /\ d # e
      BY <1>0, <2>1, <2>5, <3>1
    <3>2. CASE c = e
      BY <2>1, <2>2, <2>3, <2>5, <3>2
    <3>3. CASE d = e
      BY <2>1, <2>2, <2>3, <2>5, <3>3
    <3> QED BY <3>1, <3>2, <3>3
  <2> QED BY <2>4, <2>5
<1> QED BY <1>3, <1>4, LedgerStep

\* The tables start empty.
LEMMA InitInv == Init => IInv
<1> SUFFICES ASSUME Init PROVE IInv
  OBVIOUS
<1>1. TypeOK
  BY BlankType, ApiAccessAssumption
     DEF Init, TypeOK, KeyStates, Months, Steps, ApiAccessAssumption
<1>2. LocalInv /\ OwnerInv /\ UsageInv /\ ConsumedOnce /\ OverQuotaOnlyAtFirst
  BY DEF Init, LocalInv, LocalOK, OwnerInv, OwnerOK, UsageInv, ConsumedOnce,
         OverQuotaOnlyAtFirst, Charged
<1>3. KeyCount
  <2>1. \A a \in Accounts : ActiveKeys(a) = {}
    BY DEF Init, ActiveKeys
  <2> QED BY <2>1, FS_EmptySet DEF Init, KeyCount
<1>4. KeysWithinPlans
  BY ApiAccessAssumption DEF Init, KeysWithinPlans, ApiAccessAssumption
<1> QED BY <1>1, <1>2, <1>3, <1>4 DEF IInv

\* The inductive invariant of keys and credits.
THEOREM Inductive == Spec => []IInv
<1>1. IInv /\ [Next]_vars => IInv'
  BY TypeStep, LocalStep, OwnerStep, UsageStep, CountStep, LimitStep, ConsumedStep, QuotaStep
     DEF IInv
<1> QED BY InitInv, <1>1, PTL DEF Spec

\* Type correctness, for every instance.
THEOREM TypeCorrect == Spec => []TypeOK
<1>1. IInv => TypeOK
  BY DEF IInv
<1> QED BY <1>1, Inductive, PTL

\* The counter that enforces the key limit is exact.
THEOREM CounterIsExact == Spec => []KeyCount
<1>1. IInv => KeyCount
  BY DEF IInv
<1> QED BY <1>1, Inductive, PTL

\* No race of issuers exceeds the key limit of the plans.
THEOREM KeyLimitHolds == Spec => []KeysWithinPlans
<1>1. IInv => KeysWithinPlans
  BY DEF IInv
<1> QED BY <1>1, Inductive, PTL

\* Charging with a token is idempotent within a month.
THEOREM ChargingIsIdempotent == Spec => []ConsumedOnce
<1>1. IInv => ConsumedOnce
  BY DEF IInv
<1> QED BY <1>1, Inductive, PTL

\* Only the first charge of a month can exceed every plan's quota.
THEOREM QuotaHoldsAfterFirst == Spec => []OverQuotaOnlyAtFirst
<1>1. IInv => OverQuotaOnlyAtFirst
  BY DEF IInv
<1> QED BY <1>1, Inductive, PTL

\* LedgerSum with the records of an account's month taken as one function of the token.
LedgerSums ==
  \A a \in Accounts, m \in Months : used[a][m] = SumOf(ledger[a][m], Tokens)

\* The two say the same.
LEMMA LedgerIsSum == LedgerSum <=> LedgerSums
  BY DEF LedgerSum, LedgerSums, SumOf

\* A charge adds to the usage of its month what it adds to the sum of its records.
LEMMA SumStep == IInv /\ LedgerSums /\ [Next]_vars => LedgerSums'
<1> SUFFICES ASSUME IInv, LedgerSums, [Next]_vars, NEW a \in Accounts, NEW m \in Months
             PROVE  used'[a][m] = SumOf(ledger'[a][m], Tokens)
  BY DEF LedgerSums
<1>0. /\ used[a][m] = SumOf(ledger[a][m], Tokens)
      /\ ledger[a][m] \in [Tokens -> Nat] /\ ledger'[a][m] \in [Tokens -> Nat]
  BY UsageType DEF LedgerSums, IInv, TypeOK
<1>1. CASE UNCHANGED usageVars
  BY <1>0, <1>1 DEF usageVars
<1>2. ASSUME NEW c \in Calls, Consumes(c)
      PROVE  used'[a][m] = SumOf(ledger'[a][m], Tokens)
  <2> DEFINE l == local[c]
  <2>1. CASE a # l.account \/ m # l.month
    <3>1. used'[a][m] = used[a][m]
          /\ \A t \in Tokens : ledger'[a][m][t] = ledger[a][m][t]
      BY <1>2, <2>1, ChargeEffect
    <3>2. ledger'[a][m] = ledger[a][m]
      BY <1>0, <3>1
    <3> QED BY <1>0, <3>1, <3>2
  <2>2. CASE a = l.account /\ m = l.month
    <3> DEFINE f == ledger[a][m]
               g == ledger'[a][m]
    <3>1. /\ l.token \in Tokens /\ f[l.token] = 0 /\ g[l.token] = l.units
          /\ l.units \in Nat /\ used'[a][m] = used[a][m] + l.units
          /\ \A t \in Tokens \ {l.token} : g[t] = f[t]
      BY <1>2, <2>2, ChargeEffect
    <3>2. f \in [Tokens -> Nat] /\ g \in [Tokens -> Nat] /\ used[a][m] = SumOf(f, Tokens)
      BY <1>0
    <3>3. IsFiniteSet(Tokens)
      BY ApiAccessAssumption DEF ApiAccessAssumption
    <3> HIDE DEF f, g, l
    <3>4. SumOf(g, Tokens) = SumOf(f, Tokens) + (g[l.token] - f[l.token])
      BY <3>1, <3>2, <3>3, SumOfChanged
    <3>5. used'[a][m] = SumOf(g, Tokens)
      BY <3>1, <3>2, <3>4
    <3> QED BY <3>5 DEF g
  <2> QED BY <2>1, <2>2
<1> QED BY <1>1, <1>2, LedgerStep

\* What is counted in a month is what its idempotency records say, whatever calls and
\* retries overlap and whenever the month ends: no charge is counted twice, none is lost.
THEOREM LedgerIsExact == Spec => []LedgerSum
<1>1. Init => LedgerSums
  <2> SUFFICES ASSUME Init, NEW a \in Accounts, NEW m \in Months
               PROVE  used[a][m] = SumOf(ledger[a][m], Tokens)
    BY DEF LedgerSums
  <2>1. used[a][m] = 0 /\ ledger[a][m] = [t \in Tokens |-> 0]
    BY DEF Init
  <2>2. SumOf([t \in Tokens |-> 0], Tokens) = 0
    <3> DEFINE z == [t \in Tokens |-> 0]
    <3>1. z \in [Tokens -> Nat] /\ (\A t \in Tokens : z[t] = 0) /\ IsFiniteSet(Tokens)
      BY ApiAccessAssumption DEF ApiAccessAssumption
    <3> HIDE DEF z
    <3>2. SumOf(z, Tokens) = 0
      BY <3>1, SumOfZeros
    <3> QED BY <3>2 DEF z
  <2> QED BY <2>1, <2>2
<1> QED BY <1>1, SumStep, LedgerIsSum, Inductive, PTL DEF Spec

\* A revoked key stays revoked and a key keeps its owner.
THEOREM KeysStayFinal == Spec => KeysAreFinal
<1>1. IInv /\ [Next]_vars =>
        [\A k \in Keys : /\ keyState[k] = "revoked" => keyState'[k] = "revoked"
                         /\ keyState[k] # "absent" => keyOwner'[k] = keyOwner[k]]_vars
  <2> SUFFICES ASSUME IInv, [Next]_vars, NEW j \in Keys
               PROVE  /\ keyState[j] = "revoked" => keyState'[j] = "revoked"
                      /\ keyState[j] # "absent" => keyOwner'[j] = keyOwner[j]
    OBVIOUS
  <2>1. TypeOK
    BY DEF IInv
  <2> QED BY <2>1, KeyStep DEF TypeOK, Adds, Revokes, keyVars
<1> QED BY <1>1, Inductive, PTL DEF Spec, KeysAreFinal
==============================================================================
