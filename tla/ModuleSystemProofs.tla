-------------------------- MODULE ModuleSystemProofs --------------------------
(* The invariants of ModuleSystem, for any files, imports and limits.  IInv   *)
(* is inductive.  Its part ResolverInv says what the depth-first walk keeps   *)
(* true of the stack and the order; once the stack is empty it gives          *)
(* ValidOrder.  RunInv says where the newest variables of each module are:    *)
(* in its topmost frame or, when it has none, in its stored scope.  That      *)
(* needs the frames to go down the order, which makes the frames of a module  *)
(* neighbours.                                                                *)
EXTENDS ModuleSystem, FiniteSums, SequenceTheorems, TLAPS

StackInv ==
  /\ phase = "resolving" => stack # <<>>
  /\ phase \notin {"resolving", "failed"} => stack = <<>>
  /\ phase # "rejected"

\* The stack is a path of imports from the entry, of files not yet in the order.
PathInv ==
  /\ \A i, j \in 1..Len(stack) : stack[i] = stack[j] => i = j
  /\ stack # <<>> => stack[1] = Entry
  /\ \A i \in 1..(Len(stack) - 1) : stack[i + 1] \in Imports(stack[i])
  /\ \A i \in 1..Len(stack), j \in 1..Len(order) : stack[i] # order[j]

\* Every file is in the order once, after the files it imports.
SortedInv ==
  /\ \A i, j \in 1..Len(order) : order[i] = order[j] => i = j
  /\ \A i \in 1..Len(order) : \A t \in Imports(order[i]) :
       \E j \in 1..(i - 1) : order[j] = t

\* The imports a file has left behind are in the order or next on the stack.
BehindInv ==
  \A i \in 1..Len(stack) : \A k \in 1..Len(imports[stack[i]]) :
    k < next[stack[i]] =>
      \/ imports[stack[i]][k] \in ToSet(order)
      \/ i < Len(stack) /\ imports[stack[i]][k] = stack[i + 1]

FreshInv ==
  \A m \in Modules : m \notin ToSet(stack) /\ m \notin ToSet(order) => next[m] = 1

EntryLast == stack = <<>> => order # <<>> /\ order[Len(order)] = Entry

\* Nothing is visited that the entry does not lead to.
NeededInv ==
  \A S \in SUBSET Modules :
    Entry \in S /\ (\A m \in S : Imports(m) \subseteq S) =>
      ToSet(stack) \subseteq S /\ ToSet(order) \subseteq S

ResolverInv ==
  PathInv /\ SortedInv /\ BehindInv /\ FreshInv /\ EntryLast /\ NeededInv

\* Before the entry starts nothing has run, and only dependencies are staged.
StageInv ==
  /\ phase \in {"resolving", "checking", "initializing"} => log = <<>>
  /\ phase \in {"resolving", "checking"} => staged = {}
  /\ phase = "initializing" => staged \subseteq Dependencies

Descending ==
  \A i, j \in 1..Len(frames) : \A p, q \in 1..Len(order) :
    i < j /\ order[p] = frames[i].module /\ order[q] = frames[j].module => q <= p

Topmost(k) == \A j \in (k + 1)..Len(frames) : frames[j].module # frames[k].module
IsOpen(t)  == \E k \in 1..Len(frames) : frames[k].module = t

FramesInv ==
  /\ frames # <<>> /\ frames[1].module = Entry
  /\ \A k \in 1..Len(frames) : frames[k].module \in ToSet(order)
  /\ Descending

LiveInv ==
  /\ DOMAIN scopes = Dependencies
  /\ \A k \in 1..Len(frames) :
       frames[k].module # Entry /\ Topmost(k) => frames[k].vars = WritesOf(frames[k].module)
  /\ \A t \in Dependencies : scopes[t] \subseteq WritesOf(t)
  /\ \A t \in Dependencies : ~IsOpen(t) => scopes[t] = WritesOf(t)

RunInv == /\ phase \in {"running", "unwinding"} => frames # <<>>
          /\ phase = "running" => FramesInv /\ LiveInv

IInv == TypeOK /\ StackInv /\ ResolverInv /\ StageInv /\ RunInv

-----------------------------------------------------------------------------
(* Sequences.                                                                *)

LEMMA AppendFacts ==
  ASSUME NEW S, NEW s \in Seq(S), NEW e \in S
  PROVE  /\ Append(s, e) \in Seq(S)
         /\ Len(Append(s, e)) = Len(s) + 1
         /\ \A i \in 1..Len(s) : Append(s, e)[i] = s[i]
         /\ Append(s, e)[Len(s) + 1] = e
  OBVIOUS

LEMMA FrontFacts ==
  ASSUME NEW S, NEW s \in Seq(S), s # <<>>
  PROVE  /\ Len(s) \in Nat /\ Len(s) > 0
         /\ Front(s) \in Seq(S)
         /\ Len(Front(s)) = Len(s) - 1
         /\ \A i \in 1..(Len(s) - 1) : Front(s)[i] = s[i]
         /\ Last(s) = s[Len(s)] /\ Last(s) \in S
<1>1. Len(s) \in Nat /\ Len(s) > 0
  OBVIOUS
<1>2. Last(s) = s[Len(s)] /\ s[Len(s)] \in S
  BY <1>1, ElementOfSeq DEF Last
<1>3. ASSUME NEW n \in Nat, n = Len(s) - 1
      PROVE  /\ SubSeq(s, 1, n) \in Seq(S)
             /\ Len(SubSeq(s, 1, n)) = n
             /\ \A i \in 1..n : SubSeq(s, 1, n)[i] = s[i]
  <2>1. \A i \in 1..n : s[i] \in S
    BY <1>3, ElementOfSeq
  <2>2. n \in Int /\ 1 \in Int /\ n - 1 + 1 = n /\ \A i \in 1..n : 1 + i - 1 = i
    OBVIOUS
  <2>3. /\ SubSeq(s, 1, n) \in Seq(S)
        /\ Len(SubSeq(s, 1, n)) = IF 1 <= n THEN n - 1 + 1 ELSE 0
        /\ \A i \in 1..(n - 1 + 1) : SubSeq(s, 1, n)[i] = s[1 + i - 1]
    BY ONLY <2>1, <2>2, SubSeqProperties
  <2>4. (IF 1 <= n THEN n ELSE 0) = n
    OBVIOUS
  <2> QED
    BY ONLY <2>2, <2>3, <2>4, Zenon
<1>4. Len(s) - 1 \in Nat
  BY <1>1
<1> QED
  BY <1>1, <1>2, <1>3, <1>4 DEF Front

LEMMA SuffixFacts ==
  ASSUME NEW S, NEW s \in Seq(S), NEW f \in 1..Len(s)
  PROVE  /\ SubSeq(s, f, Len(s)) \in Seq(S)
         /\ Len(SubSeq(s, f, Len(s))) = Len(s) - f + 1
         /\ \A i \in 1..(Len(s) - f + 1) : SubSeq(s, f, Len(s))[i] = s[f + i - 1]
<1>1. Len(s) \in Nat /\ f \in Int /\ Len(s) \in Int /\ f <= Len(s) /\ f >= 1
  OBVIOUS
<1>2. \A i \in f..Len(s) : i \in 1..Len(s)
  BY <1>1
<1>3. \A i \in f..Len(s) : s[i] \in S
  BY ONLY <1>2, ElementOfSeq, s \in Seq(S)
<1>4. /\ SubSeq(s, f, Len(s)) \in Seq(S)
      /\ Len(SubSeq(s, f, Len(s))) = IF f <= Len(s) THEN Len(s) - f + 1 ELSE 0
      /\ \A i \in 1..(Len(s) - f + 1) : SubSeq(s, f, Len(s))[i] = s[f + i - 1]
  BY ONLY <1>1, <1>3, SubSeqProperties
<1> QED
  BY <1>1, <1>4, Zenon

LEMMA ToSetFacts ==
  ASSUME NEW S, NEW s \in Seq(S)
  PROVE  /\ ToSet(s) \subseteq S
         /\ \A e : e \in ToSet(s) <=> \E i \in 1..Len(s) : s[i] = e
  BY DEF ToSet

LEMMA EmptyIff ==
  ASSUME NEW S, NEW s \in Seq(S)
  PROVE  Len(s) \in Nat /\ (s = <<>> <=> Len(s) = 0)
  OBVIOUS

\* Import statements name files.
LEMMA ImportsType ==
  ASSUME TypeOK, NEW m \in Modules
  PROVE  /\ imports[m] \in Seq(Modules)
         /\ Imports(m) \subseteq Modules
         /\ \A t : t \in Imports(m) <=> \E k \in 1..Len(imports[m]) : imports[m][k] = t
<1>1. imports[m] \in Seq(Modules)
  BY DEF TypeOK
<1> QED
  BY <1>1, ToSetFacts DEF Imports

\* The file at the top of the stack and the import statement it is at.
LEMMA TopFacts ==
  ASSUME TypeOK, StackInv, phase = "resolving"
  PROVE  /\ Len(stack) \in Nat /\ Len(stack) > 0
         /\ Top = stack[Len(stack)] /\ Top \in Modules
         /\ next[Top] \in Nat /\ next[Top] > 0
         /\ AtImport => /\ next[Top] \in 1..Len(imports[Top])
                        /\ Target = imports[Top][next[Top]]
                        /\ Target \in Imports(Top) /\ Target \in Modules
<1>1. stack \in Seq(Modules) /\ stack # <<>>
  BY DEF TypeOK, StackInv
<1>2. /\ Len(stack) \in Nat /\ Len(stack) > 0
      /\ Top = stack[Len(stack)] /\ Top \in Modules
  BY <1>1, FrontFacts DEF Top
<1>3. next[Top] \in Nat \ {0}
  BY <1>2 DEF TypeOK
<1>4. next[Top] \in Nat /\ next[Top] > 0
  BY <1>3
<1>5. ASSUME AtImport
      PROVE  next[Top] \in 1..Len(imports[Top])
  BY <1>2, <1>4, <1>5, ImportsType, EmptyIff DEF AtImport
<1>6. ASSUME AtImport
      PROVE  Target \in Imports(Top) /\ Target \in Modules
  BY <1>2, <1>5, <1>6, ImportsType DEF Target
<1> QED
  BY <1>2, <1>4, <1>5, <1>6 DEF Target

-----------------------------------------------------------------------------
(* The resolver.                                                             *)

\* The four steps that change the resolver's state.
LEMMA ResolverSteps ==
  [Next]_vars => /\ imports' = imports
                 /\ \/ ImportCycle \/ ImportKnown \/ ImportNew \/ FinishModule
                    \/ UNCHANGED resolverVars
  BY DEF Next, ImportCycle, ImportKnown, ImportNew, ResolveFails, FinishModule, CheckProgram,
         CheckFails, InitializeModule, InitializationFails, StartEntry, Write, Call, Return,
         OtherStatement, Fail, Unwind, Finish, vars

LEMMA NextBump ==
  ASSUME TypeOK, StackInv, phase = "resolving", next' = [next EXCEPT ![Top] = @ + 1]
  PROVE  /\ next' \in [Modules -> Nat \ {0}]
         /\ next'[Top] = next[Top] + 1
         /\ \A m \in Modules : m # Top => next'[m] = next[m]
<1>1. Top \in Modules /\ next[Top] \in Nat
  BY TopFacts
<1>2. next \in [Modules -> Nat \ {0}]
  BY DEF TypeOK
<1>3. next[Top] + 1 \in Nat \ {0}
  BY <1>1
<1> QED
  BY <1>1, <1>2, <1>3

LEMMA ResolverType ==
  ASSUME TypeOK, StackInv, [Next]_vars
  PROVE  /\ imports' \in [Modules -> Seq(Modules)]
         /\ stack' \in Seq(Modules)
         /\ next' \in [Modules -> Nat \ {0}]
         /\ order' \in Seq(Modules)
         /\ cycle' \in Seq(Modules)
<1> DEFINE Typed == /\ stack \in Seq(Modules)
                    /\ next \in [Modules -> Nat \ {0}]
                    /\ order \in Seq(Modules)
                    /\ cycle \in Seq(Modules)
<1>1. imports' = imports /\ imports \in [Modules -> Seq(Modules)] /\ Typed
  BY ResolverSteps DEF TypeOK
<1>2. CASE ImportCycle
  <2>1. phase = "resolving" /\ Target \in ToSet(stack) /\ Target \in Modules
    BY <1>2, TopFacts DEF ImportCycle, AtImport
  <2>2. PICK i \in 1..Len(stack) : stack[i] = Target
    BY <1>1, <2>1, ToSetFacts
  <2>3. DOMAIN stack = 1..Len(stack)
    BY <1>1
  <2> DEFINE f == CHOOSE j \in DOMAIN stack : stack[j] = Target
  <2>4. f \in 1..Len(stack)
    BY <2>2, <2>3
  <2>6. FromTarget \in Seq(Modules)
    <3> HIDE DEF f
    <3>1. SubSeq(stack, f, Len(stack)) \in Seq(Modules)
      BY <1>1, <2>4, SuffixFacts
    <3> QED
      BY <3>1 DEF FromTarget, f
  <2>7. cycle' \in Seq(Modules)
    BY <1>2, <2>1, <2>6, AppendFacts DEF ImportCycle
  <2> QED
    BY <1>1, <1>2, <2>7 DEF ImportCycle
<1>3. CASE ImportKnown
  <2>1. phase = "resolving"
    BY <1>3 DEF ImportKnown, AtImport
  <2>2. next' \in [Modules -> Nat \ {0}]
    BY <1>1, <1>3, <2>1, NextBump DEF ImportKnown
  <2> QED
    BY <1>1, <1>3, <2>2 DEF ImportKnown
<1>4. CASE ImportNew
  <2>1. phase = "resolving"
    BY <1>4 DEF ImportNew, AtImport
  <2>2. next' \in [Modules -> Nat \ {0}]
    BY <1>1, <1>4, <2>1, NextBump DEF ImportNew
  <2>3. stack' \in Seq(Modules)
    BY <1>1, <1>4, <2>1, TopFacts, AppendFacts DEF ImportNew
  <2> QED
    BY <1>1, <1>4, <2>2, <2>3 DEF ImportNew
<1>5. CASE FinishModule
  <2>1. phase = "resolving" /\ stack # <<>>
    BY <1>5 DEF FinishModule, StackInv
  <2>2. stack' \in Seq(Modules)
    BY <1>1, <1>5, <2>1, FrontFacts DEF FinishModule
  <2>3. order' \in Seq(Modules)
    BY <1>1, <1>5, <2>1, TopFacts, AppendFacts DEF FinishModule, WithFinished
  <2> QED
    BY <1>1, <1>5, <2>2, <2>3 DEF FinishModule
<1>6. CASE UNCHANGED resolverVars
  BY <1>1, <1>6 DEF resolverVars
<1> QED
  BY <1>1, <1>2, <1>3, <1>4, <1>5, <1>6, ResolverSteps

\* Where the stack is empty and where it is not; NeverRejected needs ValidOrder.
LEMMA OrderIsValid ==
  ASSUME TypeOK, ResolverInv, stack = <<>>
  PROVE  ValidOrder
<1>1. order \in Seq(Modules) /\ DOMAIN order = 1..Len(order)
  BY DEF TypeOK
<1>2. order # <<>> /\ Last(order) = Entry
  BY DEF ResolverInv, EntryLast, Last
<1> QED
  BY <1>1, <1>2 DEF ResolverInv, SortedInv, ValidOrder

LEMMA StackStep ==
  ASSUME TypeOK, StackInv, ResolverInv, StageInv, [Next]_vars
  PROVE  StackInv'
<1>1. CASE phase = "resolving"
  <2>1. stack # <<>> /\ stack \in Seq(Modules) /\ Len(stack) \in Nat
    BY <1>1 DEF StackInv, TypeOK
  <2>2. CASE ImportNew
    <3>1. stack' \in Seq(Modules) /\ Len(stack') = Len(stack) + 1
      BY <1>1, <2>1, <2>2, TopFacts, AppendFacts DEF ImportNew
    <3>2. stack' # <<>>
      BY <2>1, <3>1, EmptyIff
    <3> QED
      BY <1>1, <2>2, <3>2 DEF ImportNew, StackInv
  <2>3. CASE FinishModule
    <3>1. stack' \in Seq(Modules) /\ Len(stack') = Len(stack) - 1
      BY <2>1, <2>3, FrontFacts DEF FinishModule
    <3>2. Len(stack) = 1 <=> stack' = <<>>
      BY <2>1, <3>1, EmptyIff
    <3> QED
      BY <1>1, <2>3, <3>2 DEF FinishModule, StackInv
  <2>4. CASE stack' = stack /\ phase' \in {"resolving", "failed"}
    BY <2>1, <2>4 DEF StackInv
  <2> QED
    BY <1>1, <2>2, <2>3, <2>4
       DEF Next, ImportCycle, ImportKnown, ResolveFails, CheckProgram,
           CheckFails, InitializeModule, InitializationFails, StartEntry, Write, Call, Return,
           OtherStatement, Fail, Unwind, Finish, resolverVars, vars
<1>2. CASE phase # "resolving"
  <2>1. UNCHANGED stack
    BY <1>2, ResolverSteps
       DEF ImportCycle, ImportKnown, ImportNew, FinishModule, AtImport, resolverVars
  <2>2. phase' # "resolving"
    BY <1>2 DEF Next, ImportCycle, ImportKnown, ImportNew, ResolveFails, FinishModule,
         AtImport, CheckProgram,
         CheckFails, InitializeModule, InitializationFails, StartEntry, Write, Call, Return,
         OtherStatement, Fail, Unwind, Finish, vars
  <2>3. phase = "failed" => phase' = "failed"
    BY <1>2 DEF Next, ImportCycle, ImportKnown, ImportNew, ResolveFails, FinishModule,
         AtImport, CheckProgram,
         CheckFails, InitializeModule, InitializationFails, StartEntry, Write, Call, Return,
         OtherStatement, Fail, Unwind, Finish, vars
  <2>4. phase' # "rejected"
    <3>1. phase # "rejected" /\ (phase # "failed" => stack = <<>>)
      BY <1>2 DEF StackInv
    <3>2. CASE CheckProgram
      BY <3>1, <3>2, OrderIsValid DEF CheckProgram
    <3>3. ASSUME NEW i \in DOMAIN order, InitializeModule(i)
          PROVE  phase' # "rejected"
      <4>1. ValidOrder
        BY <3>1, <3>3, OrderIsValid DEF InitializeModule
      <4>2. Imports(order[i]) \subseteq staged
        BY <3>3, <4>1 DEF InitializeModule, ValidOrder
      <4> QED
        BY <3>1, <3>3, <4>2 DEF InitializeModule, ImportsInstalled
    <3>4. CASE StartEntry
      <4>1. ValidOrder
        BY <3>1, <3>4, OrderIsValid DEF StartEntry
      <4>2. order \in Seq(Modules) /\ Len(order) \in Nat /\ Len(order) > 0
        BY <4>1, EmptyIff DEF TypeOK, ValidOrder
      <4>3. DOMAIN order = 1..Len(order) /\ order[Len(order)] = Entry
        <5>1. Last(order) = Entry
          BY <4>1 DEF ValidOrder
        <5> QED
          BY <4>2, <5>1 DEF Last
      <4>4. Len(order) \in DOMAIN order
        BY <4>2, <4>3
      <4>5. ASSUME NEW t \in Imports(Entry)
            PROVE  t \in staged
        <5>1. PICK j \in 1..(Len(order) - 1) : order[j] = t
          BY <4>1, <4>3, <4>4 DEF ValidOrder
        <5>2. j \in DOMAIN order /\ j # Len(order)
          <6>1. \A n \in Nat : \A k \in 1..(n - 1) : k \in 1..n /\ k # n
            OBVIOUS
          <6> QED
            BY <4>2, <4>3, <6>1, Zenon
        <5>3. t # Entry
          BY <4>1, <4>3, <4>4, <5>1, <5>2 DEF ValidOrder
        <5>4. t \in Dependencies
          BY <5>1, <5>2, <5>3 DEF Dependencies, ToSet
        <5> QED
          BY <3>4, <5>4 DEF StartEntry
      <4> QED
        BY <3>4, <4>5 DEF StartEntry, ImportsInstalled
    <3> QED
      BY <1>2, <3>1, <3>2, <3>3, <3>4
         DEF Next, ImportCycle, ImportKnown, ImportNew, ResolveFails, FinishModule,
             AtImport, CheckFails, InitializationFails, Write, Call, Return,
             OtherStatement, Fail, Unwind, Finish, vars
  <2> QED
    BY <1>2, <2>1, <2>2, <2>3, <2>4 DEF StackInv
<1> QED
  BY <1>1, <1>2

\* A loaded file leaves the invariant as it is; so does a step that is not the resolver's.
LEMMA ResolverSame ==
  ASSUME ResolverInv, UNCHANGED <<imports, stack, next, order>>
  PROVE  ResolverInv'
<1>1. PathInv' /\ SortedInv'
  BY DEF ResolverInv, PathInv, SortedInv, Imports
<1>2. BehindInv' /\ FreshInv' /\ EntryLast'
  BY DEF ResolverInv, BehindInv, FreshInv, EntryLast
<1>3. NeededInv'
  BY DEF ResolverInv, NeededInv, Imports
<1> QED
  BY <1>1, <1>2, <1>3 DEF ResolverInv

LEMMA KnownKeepsResolver ==
  ASSUME TypeOK, StackInv, ResolverInv, ImportKnown
  PROVE  ResolverInv'
<1>1. /\ phase = "resolving" /\ imports' = imports /\ stack' = stack /\ order' = order
      /\ next' = [next EXCEPT ![Top] = @ + 1]
      /\ AtImport /\ Target \in ToSet(order)
  BY DEF ImportKnown, AtImport
<1>2. PathInv' /\ SortedInv'
  BY <1>1 DEF ResolverInv, PathInv, SortedInv, Imports
<1>3. EntryLast' /\ NeededInv'
  BY <1>1 DEF ResolverInv, EntryLast, NeededInv, Imports
<1>4. stack \in Seq(Modules) /\ Len(stack) \in Nat /\ Top = stack[Len(stack)]
  BY <1>1, TopFacts DEF TypeOK
<1>5. FreshInv'
  <2>1. Top \in ToSet(stack)
    BY <1>1, <1>4, TopFacts, ToSetFacts
  <2>2. \A m \in Modules : m # Top => next'[m] = next[m]
    BY <1>1, NextBump
  <2> QED
    BY <1>1, <2>1, <2>2 DEF ResolverInv, FreshInv
<1>6. BehindInv'
  <2> SUFFICES ASSUME NEW i \in 1..Len(stack), NEW k \in 1..Len(imports[stack[i]]),
                      k < next'[stack[i]]
               PROVE  \/ imports[stack[i]][k] \in ToSet(order)
                      \/ i < Len(stack) /\ imports[stack[i]][k] = stack[i + 1]
    BY <1>1 DEF BehindInv
  <2>1. stack[i] \in Modules
    BY <1>4, ElementOfSeq
  <2>2. CASE k < next[stack[i]]
    BY <2>2 DEF ResolverInv, BehindInv
  <2>3. CASE ~(k < next[stack[i]])
    <3>1. stack[i] = Top
      BY <1>1, <2>1, <2>3, NextBump
    <3>2. k \in Nat /\ next[Top] \in Nat /\ k < next[Top] + 1 /\ ~(k < next[Top])
      <4>1. Len(imports[Top]) \in Nat
        BY <2>1, <3>1, ImportsType, EmptyIff
      <4> QED
        BY <1>1, <2>3, <3>1, <4>1, NextBump, TopFacts
    <3>3. k = next[Top]
      BY <3>2
    <3> QED
      BY <1>1, <3>1, <3>3 DEF Target
  <2> QED
    BY <2>2, <2>3
<1> QED
  BY <1>2, <1>3, <1>5, <1>6 DEF ResolverInv

\* A new file goes on the stack above the file that imports it.
LEMMA NewKeepsResolver ==
  ASSUME TypeOK, StackInv, ResolverInv, ImportNew
  PROVE  ResolverInv'
<1> DEFINE n == Len(stack)
           T == Target
<1>1. /\ phase = "resolving" /\ imports' = imports /\ order' = order
      /\ stack' = Append(stack, T)
      /\ next' = [next EXCEPT ![Top] = @ + 1]
      /\ AtImport /\ T \notin ToSet(stack) /\ T \notin ToSet(order)
  BY DEF ImportNew, AtImport
<1>2. /\ stack \in Seq(Modules) /\ n \in Nat /\ n > 0 /\ Top = stack[n] /\ Top \in Modules
      /\ T \in Imports(Top) /\ T \in Modules /\ order \in Seq(Modules)
  BY <1>1, TopFacts DEF TypeOK
<1>3. /\ stack' \in Seq(Modules) /\ Len(stack') = n + 1
      /\ \A i \in 1..n : stack'[i] = stack[i] /\ stack[i] \in Modules
      /\ stack'[n + 1] = T
  BY <1>1, <1>2, AppendFacts, ElementOfSeq
<1>4. /\ \A i \in 1..n : stack[i] # T
      /\ \A j \in 1..Len(order) : order[j] # T
  BY <1>1, <1>2, ToSetFacts
<1>5. \A i \in 1..Len(stack') : i \in 1..n \/ i = n + 1
  BY <1>2, <1>3
<1> HIDE DEF n, T
<1>6. PathInv'
  <2>1. ASSUME NEW i \in 1..Len(stack'), NEW j \in 1..Len(stack'), stack'[i] = stack'[j]
        PROVE  i = j
    <3>1. \A a, b \in 1..n : stack[a] = stack[b] => a = b
      BY DEF ResolverInv, PathInv, n
    <3> QED
      BY <1>3, <1>4, <1>5, <2>1, <3>1
  <2>2. stack'[1] = Entry
    <3>1. stack[1] = Entry
      BY <1>2, EmptyIff DEF ResolverInv, PathInv, n
    <3> QED
      BY <1>2, <1>3, <3>1
  <2>3. ASSUME NEW i \in 1..(Len(stack') - 1)
        PROVE  stack'[i + 1] \in Imports(stack'[i])
    <3>1. i \in 1..n /\ (i = n \/ (i \in 1..(n - 1) /\ i + 1 \in 1..n))
      BY <1>2, <1>3
    <3>2. CASE i = n
      BY <1>2, <1>3, <3>1, <3>2
    <3>3. CASE i \in 1..(n - 1) /\ i + 1 \in 1..n
      BY <1>3, <3>1, <3>3 DEF ResolverInv, PathInv, n
    <3> QED
      BY <3>1, <3>2, <3>3
  <2>4. ASSUME NEW i \in 1..Len(stack'), NEW j \in 1..Len(order)
        PROVE  stack'[i] # order[j]
    <3>1. \A a \in 1..n : stack[a] # order[j]
      BY DEF ResolverInv, PathInv, n
    <3> QED
      BY <1>3, <1>4, <1>5, <3>1
  <2>5. \A m : ToSet(imports'[m]) = ToSet(imports[m])
    BY <1>1
  <2> QED
    BY <1>1, <2>1, <2>2, <2>3, <2>4 DEF PathInv, Imports
<1>7. SortedInv'
  <2>1. SortedInv
    BY DEF ResolverInv
  <2>2. order' = order /\ \A m : ToSet(imports'[m]) = ToSet(imports[m])
    BY <1>1
  <2> QED
    BY <2>1, <2>2 DEF SortedInv, Imports
<1>8. BehindInv'
  <2> SUFFICES ASSUME NEW i \in 1..Len(stack'), NEW k \in 1..Len(imports[stack'[i]]),
                      k < next'[stack'[i]]
               PROVE  \/ imports[stack'[i]][k] \in ToSet(order)
                      \/ i < Len(stack') /\ imports[stack'[i]][k] = stack'[i + 1]
    BY <1>1 DEF BehindInv
  <2>1. CASE i = n + 1
    <3>1. T \notin ToSet(stack) /\ T \notin ToSet(order) /\ T # Top
      BY <1>1, <1>2, <1>4
    <3>2. next[T] = 1 /\ next'[T] = next[T]
      BY <1>1, <1>2, <3>1, NextBump DEF ResolverInv, FreshInv
    <3>3. imports[T] \in Seq(Modules) /\ Len(imports[T]) \in Nat
      BY <1>2, ImportsType, EmptyIff
    <3>4. k \in 1..Len(imports[T]) /\ k < 1
      BY <1>3, <2>1, <3>2
    <3> QED
      BY <3>3, <3>4
  <2>2. CASE i \in 1..n /\ stack[i] = Top
    <3>1. i = n
      BY <1>2, <2>2 DEF ResolverInv, PathInv, n
    <3>2. k \in 1..Len(imports[Top]) /\ k < next[Top] + 1
      BY <1>1, <1>3, <2>2, NextBump
    <3>3. next[Top] \in Nat /\ Len(imports[Top]) \in Nat
      BY <1>1, <1>2, TopFacts, ImportsType, EmptyIff
    <3>4. k = next[Top] \/ k < next[Top]
      BY <3>2, <3>3
    <3>5. CASE k = next[Top]
      BY <1>2, <1>3, <2>2, <3>1, <3>5 DEF Target, T
    <3>6. CASE k < next[Top]
      <4>1. imports[Top][k] \in ToSet(order) \/ i < n
        BY <2>2, <3>2, <3>6 DEF ResolverInv, BehindInv, n
      <4> QED
        BY <1>2, <1>3, <2>2, <3>1, <4>1
    <3> QED
      BY <3>4, <3>5, <3>6
  <2>3. CASE i \in 1..n /\ stack[i] # Top
    <3>1. i < n /\ i + 1 \in 1..n
      BY <1>2, <2>3
    <3>2. next'[stack[i]] = next[stack[i]]
      BY <1>1, <1>3, <2>3, NextBump
    <3>3. k \in 1..Len(imports[stack[i]]) /\ k < next[stack[i]]
      BY <1>3, <2>3, <3>2
    <3>4. imports[stack[i]][k] \in ToSet(order) \/ imports[stack[i]][k] = stack[i + 1]
      BY <2>3, <3>3 DEF ResolverInv, BehindInv, n
    <3> QED
      BY <1>2, <1>3, <2>3, <3>1, <3>4
  <2> QED
    BY <1>5, <2>1, <2>2, <2>3
<1>9. FreshInv'
  <2>1. ASSUME NEW m \in Modules, m \notin ToSet(stack'), m \notin ToSet(order)
        PROVE  m \notin ToSet(stack) /\ m # Top
    <3>1. \A i \in 1..(n + 1) : stack'[i] # m
      BY <1>3, <2>1, ToSetFacts
    <3>2. \A i \in 1..n : i \in 1..(n + 1)
      BY <1>2
    <3>3. \A i \in 1..n : stack[i] # m
      BY <1>3, <3>1, <3>2
    <3>4. n \in 1..n
      BY <1>2
    <3> QED
      BY <1>2, <3>3, <3>4, ToSetFacts DEF n
  <2> QED
    BY <1>1, <2>1, NextBump DEF ResolverInv, FreshInv
<1>10. EntryLast'
  <2>1. stack' # <<>>
    BY <1>2, <1>3, EmptyIff
  <2> QED
    BY <2>1 DEF EntryLast
<1>11. NeededInv'
  <2> SUFFICES ASSUME NEW S \in SUBSET Modules, Entry \in S,
                      \A m \in S : Imports(m) \subseteq S
               PROVE  ToSet(stack') \subseteq S /\ ToSet(order) \subseteq S
    BY <1>1 DEF NeededInv, Imports
  <2>1. ToSet(stack) \subseteq S /\ ToSet(order) \subseteq S
    BY DEF ResolverInv, NeededInv
  <2>2. \A i \in 1..n : stack[i] \in S
    BY <1>2, <2>1, ToSetFacts DEF n
  <2>3. T \in S
    <3>1. Top \in S
      BY <1>2, <2>2
    <3> QED
      BY <1>2, <3>1
  <2>4. \A e \in ToSet(stack') : \E i \in 1..Len(stack') : stack'[i] = e
    BY <1>3, ToSetFacts
  <2> QED
    BY <1>3, <1>5, <2>1, <2>2, <2>3, <2>4
<1> QED
  BY <1>6, <1>7, <1>8, <1>9, <1>10, <1>11 DEF ResolverInv

\* The file at the top goes from the stack to the end of the order.
LEMMA FinishKeepsResolver ==
  ASSUME TypeOK, StackInv, ResolverInv, FinishModule
  PROVE  ResolverInv'
<1> DEFINE n == Len(stack)
           T == Top
           o == Len(order)
<1>1. /\ phase = "resolving" /\ imports' = imports /\ next' = next
      /\ stack' = Front(stack) /\ order' = Append(order, T) /\ ImportsDone
  BY DEF FinishModule, WithFinished
<1>2. /\ stack \in Seq(Modules) /\ n \in Nat /\ n > 0 /\ T = stack[n] /\ T \in Modules
      /\ order \in Seq(Modules) /\ o \in Nat
      /\ next[T] \in Nat /\ imports[T] \in Seq(Modules) /\ Len(imports[T]) \in Nat
      /\ next[T] > Len(imports[T])
  BY <1>1, TopFacts, ImportsType, EmptyIff DEF TypeOK, ImportsDone
<1>3. /\ stack' \in Seq(Modules) /\ Len(stack') = n - 1
      /\ \A i \in 1..(n - 1) : stack'[i] = stack[i] /\ stack[i] \in Modules
  <2>1. stack # <<>>
    BY <1>2, EmptyIff
  <2>2. \A i \in 1..(n - 1) : i \in 1..n
    BY <1>2
  <2> QED
    BY <1>1, <1>2, <2>1, <2>2, FrontFacts, ElementOfSeq
<1>4. /\ order' \in Seq(Modules) /\ Len(order') = o + 1
      /\ \A j \in 1..o : order'[j] = order[j]
      /\ order'[o + 1] = T
  BY <1>1, <1>2, AppendFacts
<1>5. /\ \A i \in 1..(n - 1) : i \in 1..n /\ i # n /\ i < n
      /\ \A j \in 1..(o + 1) : j \in 1..o \/ j = o + 1
      /\ n \in 1..n
  BY <1>2
<1>6. /\ \A i, j \in 1..n : stack[i] = stack[j] => i = j
      /\ stack[1] = Entry
      /\ \A i \in 1..(n - 1) : stack[i + 1] \in Imports(stack[i])
      /\ \A i \in 1..n : \A j \in 1..o : stack[i] # order[j]
  BY <1>2, EmptyIff DEF ResolverInv, PathInv
<1>7. \A e : e \in ToSet(order') <=> e \in ToSet(order) \/ e = T
  <2>1. \A e : e \in ToSet(order') <=> \E j \in 1..(o + 1) : order'[j] = e
    BY <1>4, ToSetFacts
  <2>2. \A e : e \in ToSet(order) <=> \E j \in 1..o : order[j] = e
    BY <1>2, ToSetFacts
  <2>3. \A j \in 1..o : j \in 1..(o + 1)
    BY <1>2
  <2>4. o + 1 \in 1..(o + 1)
    BY <1>2
  <2> QED
    BY <1>4, <1>5, <2>1, <2>2, <2>3, <2>4
<1>8. \A k \in 1..Len(imports[T]) : imports[T][k] \in ToSet(order)
  <2> SUFFICES ASSUME NEW k \in 1..Len(imports[T])
               PROVE  imports[T][k] \in ToSet(order)
    OBVIOUS
  <2>1. k < next[T]
    BY <1>2
  <2>2. imports[stack[n]][k] \in ToSet(order) \/ n < Len(stack)
    BY <1>2, <1>5, <2>1 DEF ResolverInv, BehindInv
  <2> QED
    BY <1>2, <2>2
<1> HIDE DEF n, T, o
<1>9. PathInv'
  <2>1. \A i, j \in 1..Len(stack') : stack'[i] = stack'[j] => i = j
    BY <1>3, <1>5, <1>6
  <2>2. stack' # <<>> => stack'[1] = Entry
    <3>1. stack' # <<>> => 1 \in 1..(n - 1)
      BY <1>2, <1>3, EmptyIff
    <3> QED
      BY <1>3, <1>6, <3>1
  <2>3. ASSUME NEW i \in 1..(Len(stack') - 1)
        PROVE  stack'[i + 1] \in Imports(stack'[i])
    <3>1. i \in 1..(n - 1) /\ i + 1 \in 1..(n - 1)
      BY <1>2, <1>3
    <3> QED
      BY <1>3, <1>6, <3>1
  <2>4. ASSUME NEW i \in 1..Len(stack'), NEW j \in 1..Len(order')
        PROVE  stack'[i] # order'[j]
    <3>1. i \in 1..(n - 1) /\ stack'[i] = stack[i] /\ i \in 1..n /\ i # n
      BY <1>3, <1>5
    <3>2. CASE j \in 1..o
      BY <1>4, <1>6, <3>1, <3>2
    <3>3. CASE j = o + 1
      BY <1>2, <1>4, <1>5, <1>6, <3>1, <3>3
    <3> QED
      BY <1>4, <1>5, <3>2, <3>3
  <2> QED
    BY <1>1, <2>1, <2>2, <2>3, <2>4 DEF PathInv, Imports
<1>10. SortedInv'
  <2>1. ASSUME NEW i \in 1..Len(order'), NEW j \in 1..Len(order'), order'[i] = order'[j]
        PROVE  i = j
    <3>1. \A a, b \in 1..o : order[a] = order[b] => a = b
      BY DEF ResolverInv, SortedInv, o
    <3>2. \A a \in 1..o : order[a] # T
      BY <1>2, <1>5, <1>6
    <3> QED
      BY <1>4, <1>5, <2>1, <3>1, <3>2
  <2>2. ASSUME NEW i \in 1..Len(order'), NEW t \in Imports(order'[i])
        PROVE  \E j \in 1..(i - 1) : order'[j] = t
    <3>1. CASE i \in 1..o
      <4>1. PICK j \in 1..(i - 1) : order[j] = t
        BY <1>4, <2>2, <3>1 DEF ResolverInv, SortedInv, o
      <4>2. j \in 1..o
        BY <1>2, <3>1, <4>1
      <4> QED
        BY <1>4, <4>1, <4>2
    <3>2. CASE i = o + 1
      <4>1. t \in Imports(T)
        BY <1>4, <2>2, <3>2
      <4>2. t \in ToSet(order)
        BY <1>2, <1>8, <4>1, ImportsType
      <4>3. PICK j \in 1..o : order[j] = t
        BY <1>2, <4>2, ToSetFacts DEF o
      <4>4. j \in 1..(i - 1)
        BY <1>2, <3>2
      <4> QED
        BY <1>4, <4>3, <4>4
    <3> QED
      BY <1>4, <1>5, <3>1, <3>2
  <2> QED
    BY <1>1, <2>1, <2>2 DEF SortedInv, Imports
<1>11. BehindInv'
  <2> SUFFICES ASSUME NEW i \in 1..Len(stack'), NEW k \in 1..Len(imports[stack'[i]]),
                      k < next[stack'[i]]
               PROVE  \/ imports[stack'[i]][k] \in ToSet(order')
                      \/ i < Len(stack') /\ imports[stack'[i]][k] = stack'[i + 1]
    BY <1>1 DEF BehindInv
  <2>1. i \in 1..(n - 1) /\ i \in 1..n /\ stack'[i] = stack[i]
    BY <1>3, <1>5
  <2>2. \/ imports[stack[i]][k] \in ToSet(order)
        \/ imports[stack[i]][k] = stack[i + 1]
    BY <2>1 DEF ResolverInv, BehindInv, n
  <2>3. CASE imports[stack[i]][k] \in ToSet(order)
    BY <1>7, <2>1, <2>3
  <2>4. CASE imports[stack[i]][k] = stack[i + 1] /\ i = n - 1
    <3>1. stack[i + 1] = T
      BY <1>2, <2>4
    <3> QED
      BY <1>7, <2>1, <2>4, <3>1
  <2>5. CASE imports[stack[i]][k] = stack[i + 1] /\ i # n - 1
    <3>1. i < n - 1 /\ i + 1 \in 1..(n - 1)
      BY <1>2, <2>1, <2>5
    <3> QED
      BY <1>3, <2>1, <2>5, <3>1
  <2> QED
    BY <2>2, <2>3, <2>4, <2>5
<1>12. FreshInv'
  <2>1. ASSUME NEW m \in Modules, m \notin ToSet(stack'), m \notin ToSet(order')
        PROVE  m \notin ToSet(stack) /\ m \notin ToSet(order)
    <3>1. m # T /\ m \notin ToSet(order)
      BY <1>7, <2>1
    <3>2. \A i \in 1..(n - 1) : stack[i] # m
      BY <1>3, <2>1, ToSetFacts
    <3>3. \A i \in 1..n : i \in 1..(n - 1) \/ i = n
      BY <1>2
    <3>4. \A i \in 1..n : stack[i] # m
      BY <1>2, <3>1, <3>2, <3>3
    <3> QED
      BY <1>2, <3>1, <3>4, ToSetFacts DEF n
  <2> QED
    BY <1>1, <2>1 DEF ResolverInv, FreshInv
<1>13. EntryLast'
  <2>1. ASSUME stack' = <<>>
        PROVE  order' # <<>> /\ order'[Len(order')] = Entry
    <3>1. n = 1
      BY <1>2, <1>3, <2>1, EmptyIff
    <3>2. T = Entry /\ order' # <<>>
      BY <1>2, <1>4, <1>6, <3>1, EmptyIff
    <3> QED
      BY <1>4, <3>2
  <2> QED
    BY <2>1 DEF EntryLast
<1>14. NeededInv'
  <2> SUFFICES ASSUME NEW S \in SUBSET Modules, Entry \in S,
                      \A m \in S : Imports(m) \subseteq S
               PROVE  ToSet(stack') \subseteq S /\ ToSet(order') \subseteq S
    BY <1>1 DEF NeededInv, Imports
  <2>1. ToSet(stack) \subseteq S /\ ToSet(order) \subseteq S
    BY DEF ResolverInv, NeededInv
  <2>2. \A i \in 1..n : stack[i] \in S
    BY <1>2, <2>1, ToSetFacts DEF n
  <2>3. \A e \in ToSet(stack') : \E i \in 1..(n - 1) : stack'[i] = e
    BY <1>3, ToSetFacts
  <2>4. ToSet(stack') \subseteq S
    BY <1>2, <1>3, <2>2, <2>3
  <2>5. ToSet(order') \subseteq S
    BY <1>2, <1>3, <1>5, <1>7, <2>1, <2>2
  <2> QED
    BY <2>4, <2>5
<1> QED
  BY <1>9, <1>10, <1>11, <1>12, <1>13, <1>14 DEF ResolverInv

LEMMA ResolverStepKeeps ==
  ASSUME TypeOK, StackInv, ResolverInv, [Next]_vars
  PROVE  ResolverInv'
<1>1. CASE ImportCycle
  BY <1>1, ResolverSame DEF ImportCycle
<1>2. CASE UNCHANGED resolverVars
  BY <1>2, ResolverSteps, ResolverSame DEF resolverVars
<1> QED
  BY <1>1, <1>2, ResolverSteps, KnownKeepsResolver, NewKeepsResolver, FinishKeepsResolver

-----------------------------------------------------------------------------
(* The run: what each step does to the frames.                               *)

LEMMA FrameVars ==
  \A g \in Frame, v \in SUBSET Writes :
    /\ [g EXCEPT !.vars = v] \in Frame
    /\ [g EXCEPT !.vars = v].module = g.module
    /\ [g EXCEPT !.vars = v].vars = v
  BY DEF Frame

LEMMA ActiveFacts ==
  ASSUME TypeOK, RunInv, phase \in {"running", "unwinding"}
  PROVE  /\ frames \in Seq(Frame) /\ Depth \in Nat /\ Depth > 0 /\ Depth = Len(frames)
         /\ Active = frames[Depth] /\ Active \in Frame
         /\ Active.module \in Modules /\ Active.vars \in SUBSET Writes
         /\ \A k \in 1..Depth : /\ frames[k] \in Frame /\ frames[k].module \in Modules
                                /\ frames[k].vars \in SUBSET Writes
<1>1. frames \in Seq(Frame) /\ frames # <<>> /\ Depth = Len(frames)
  BY DEF TypeOK, RunInv, Depth
<1>2. Depth \in Nat /\ Depth > 0 /\ Active = frames[Depth] /\ Active \in Frame
  BY <1>1, FrontFacts DEF Active
<1>3. \A k \in 1..Depth : frames[k] \in Frame
  BY <1>1, ElementOfSeq
<1>4. \A f \in Frame : f.module \in Modules /\ f.vars \in SUBSET Writes
  BY DEF Frame
<1> QED
  BY <1>1, <1>2, <1>3, <1>4

LEMMA WriteShape ==
  ASSUME TypeOK, RunInv, Write
  PROVE  /\ phase = "running" /\ phase' = phase /\ order' = order /\ scopes' = scopes
         /\ imports' = imports /\ staged' = staged
         /\ Active.module # Entry
         /\ steps < MaxSteps /\ steps' = steps + 1
         /\ log' = Append(log, Active.module) /\ log' \in Seq(Modules)
         /\ Len(log') = Len(log) + 1 /\ Len(log') \in Writes /\ Len(log) \in Nat
         /\ \A i \in 1..Len(log) : log'[i] = log[i]
         /\ log'[Len(log')] = Active.module
         /\ frames' \in Seq(Frame) /\ Len(frames') = Depth
         /\ \A k \in 1..Depth : frames'[k].module = frames[k].module
         /\ \A k \in 1..Depth : k # Depth => frames'[k].vars = frames[k].vars
         /\ frames'[Depth].vars = Active.vars \cup {Len(log')}
<1>1. /\ phase = "running" /\ phase' = phase /\ order' = order /\ scopes' = scopes
      /\ imports' = imports /\ staged' = staged
      /\ Active.module # Entry
      /\ steps < MaxSteps /\ steps' = steps + 1
      /\ log' = Append(log, Active.module)
      /\ frames' = [frames EXCEPT ![Depth].vars = frames[Depth].vars \cup {Len(log')}]
  BY DEF Write, resolverVars, ChargeStatement, Charge
<1>2. log \in Seq(Modules) /\ Len(log) \in Nat /\ Len(log) <= steps /\ steps \in Nat
  BY ModuleSystemAssumption DEF TypeOK, ModuleSystemAssumption
<1>3. /\ log' \in Seq(Modules) /\ Len(log') = Len(log) + 1
      /\ \A i \in 1..Len(log) : log'[i] = log[i]
      /\ log'[Len(log')] = Active.module
  BY <1>1, <1>2, ActiveFacts, AppendFacts
<1>4. Len(log') \in Writes
  BY <1>1, <1>2, <1>3, ModuleSystemAssumption DEF Writes, ModuleSystemAssumption
<1>5. Depth \in 1..Len(frames) /\ frames[Depth].vars \cup {Len(log')} \in SUBSET Writes
  BY <1>1, <1>4, ActiveFacts
<1>6. /\ frames' \in Seq(Frame) /\ Len(frames') = Len(frames)
      /\ \A k \in 1..Len(frames) : k # Depth => frames'[k] = frames[k]
      /\ frames'[Depth].module = frames[Depth].module
      /\ frames'[Depth].vars = frames[Depth].vars \cup {Len(log')}
  <2> DEFINE v == frames[Depth].vars \cup {Len(log')}
  <2>1. frames \in Seq(Frame)
    BY <1>1, ActiveFacts
  <2> DEFINE f == [frames[Depth] EXCEPT !.vars = v]
  <2>2. frames' = [frames EXCEPT ![Depth] = f] /\ v \in SUBSET Writes
    BY <1>1, <1>5
  <2>4. f \in Frame /\ f.module = frames[Depth].module /\ f.vars = v
    BY <1>1, <2>2, FrameVars, ActiveFacts
  <2> HIDE DEF v, f
  <2>3. /\ frames' \in Seq(Frame) /\ Len(frames') = Len(frames)
        /\ \A k \in 1..Len(frames) : k # Depth => frames'[k] = frames[k]
        /\ frames'[Depth].module = frames[Depth].module
        /\ frames'[Depth].vars = v
    BY ONLY <1>5, <2>1, <2>2, <2>4, ExceptSeq
  <2> QED
    BY <2>3 DEF v
<1> QED
  BY <1>1, <1>2, <1>3, <1>4, <1>6, ActiveFacts

\* A module comes before its importers in the order, so no importer of it runs while
\* one of its own functions does.
LEMMA ImportIsClosed ==
  ASSUME TypeOK, ResolverInv, RunInv, phase = "running", NEW t \in Imports(Active.module)
  PROVE  t \in Dependencies /\ t \in DOMAIN scopes /\ ~IsOpen(t) /\ t # Active.module
<1>1. /\ FramesInv /\ LiveInv /\ SortedInv
      /\ order \in Seq(Modules) /\ Len(order) \in Nat
  BY EmptyIff DEF RunInv, ResolverInv, TypeOK
<1>2. /\ Depth \in Nat /\ Depth > 0 /\ Depth = Len(frames) /\ Active = frames[Depth]
      /\ Depth \in 1..Depth /\ 1 \in 1..Depth
  BY ActiveFacts
<1>3. PICK p \in 1..Len(order) : order[p] = Active.module
  BY <1>1, <1>2, ToSetFacts DEF FramesInv
<1>4. PICK q \in 1..(p - 1) : order[q] = t
  BY <1>1, <1>3 DEF SortedInv
<1>5. q \in 1..Len(order) /\ q < p /\ ~(p <= q)
  BY <1>1, <1>3, <1>4
<1>6. t # Active.module
  BY <1>1, <1>3, <1>4, <1>5 DEF SortedInv
<1>7. ASSUME NEW k \in 1..Len(frames)
      PROVE  frames[k].module # t
  <2>1. CASE k = Depth
    BY <1>2, <1>6, <2>1
  <2>2. CASE k # Depth
    <3>1. k < Depth
      BY <1>2, <2>2
    <3> QED
      BY <1>1, <1>2, <1>3, <1>4, <1>5, <3>1 DEF FramesInv, Descending
  <2> QED
    BY <2>1, <2>2
<1>8. t # Entry
  BY <1>1, <1>2, <1>7 DEF FramesInv
<1>9. t \in ToSet(order)
  BY <1>1, <1>4, <1>5, ToSetFacts
<1> QED
  BY <1>1, <1>6, <1>7, <1>8, <1>9 DEF IsOpen, Dependencies, LiveInv

LEMMA CallShape ==
  ASSUME TypeOK, ResolverInv, RunInv, NEW t \in Modules, Call(t)
  PROVE  /\ phase = "running" /\ phase' = phase /\ order' = order /\ scopes' = scopes
         /\ imports' = imports /\ staged' = staged /\ log' = log
         /\ steps < MaxSteps /\ steps' = steps + 1
         /\ t = Active.module \/ t \in Imports(Active.module)
         /\ Depth - 1 < MaxDepth
         /\ frames' \in Seq(Frame) /\ Len(frames') = Depth + 1
         /\ \A k \in 1..Depth : frames'[k] = frames[k]
         /\ frames'[Depth + 1].module = t
         /\ t = Active.module => frames'[Depth + 1].vars = Active.vars
         /\ t # Active.module => frames'[Depth + 1].vars = scopes[t]
<1> DEFINE v == IF SameModule(t) THEN Active.vars ELSE scopes[t]
           f == [module |-> t, vars |-> v]
<1>1. /\ phase = "running" /\ phase' = phase /\ order' = order /\ scopes' = scopes
      /\ imports' = imports /\ staged' = staged /\ log' = log
      /\ steps < MaxSteps /\ steps' = steps + 1
      /\ t = Active.module \/ t \in Imports(Active.module)
      /\ Depth - 1 < MaxDepth
      /\ frames' = Append(frames, f)
  BY DEF Call, Callable, resolverVars, ChargeExpression, Charge, BelowDepthLimit
<1>2. /\ t = Active.module => v = Active.vars
      /\ t # Active.module => v = scopes[t]
  BY DEF SameModule
<1>3. t = Active.module \/ t \in DOMAIN scopes
  BY <1>1, ImportIsClosed
<1>4. v \in SUBSET Writes
  BY <1>1, <1>2, <1>3, ActiveFacts DEF TypeOK
<1>5. f \in Frame /\ f.module = t /\ f.vars = v
  BY <1>4 DEF Frame
<1> HIDE DEF v, f
<1>6. /\ frames' \in Seq(Frame) /\ Len(frames') = Depth + 1
      /\ \A k \in 1..Depth : frames'[k] = frames[k]
      /\ frames'[Depth + 1] = f
  BY <1>1, <1>5, ActiveFacts, AppendFacts
<1> QED
  BY <1>1, <1>2, <1>5, <1>6

LEMMA ReturnShape ==
  ASSUME TypeOK, RunInv, Return
  PROVE  /\ phase = "running" /\ phase' = phase /\ order' = order /\ imports' = imports
         /\ staged' = staged /\ log' = log /\ steps' = steps
         /\ Depth > 1 /\ Caller = frames[Depth - 1] /\ Depth - 1 \in 1..Depth
         /\ frames' \in Seq(Frame) /\ Len(frames') = Depth - 1
         /\ \A k \in 1..(Depth - 1) : frames'[k].module = frames[k].module
         /\ \A k \in 1..(Depth - 1) : k # Depth - 1 => frames'[k].vars = frames[k].vars
         /\ Caller.module = Active.module =>
              /\ Active.module # Entry => frames'[Depth - 1].vars = Active.vars
              /\ scopes' = scopes
         /\ Caller.module # Active.module =>
              /\ frames'[Depth - 1].vars = frames[Depth - 1].vars
              /\ scopes' = [scopes EXCEPT ![Active.module] = Active.vars]
<1>1. /\ phase = "running" /\ phase' = phase /\ order' = order /\ imports' = imports
      /\ staged' = staged /\ log' = log /\ steps' = steps
      /\ Depth > 1 /\ Caller = frames[Depth - 1]
  BY DEF Return, resolverVars, Caller
<1>2. /\ frames \in Seq(Frame) /\ frames # <<>> /\ Depth \in Nat /\ Depth = Len(frames)
      /\ Depth - 1 \in 1..Depth /\ Depth - 1 \in 1..(Depth - 1)
  BY <1>1, ActiveFacts, EmptyIff
<1>3. /\ Front(frames) \in Seq(Frame) /\ Len(Front(frames)) = Depth - 1
      /\ \A k \in 1..(Depth - 1) : Front(frames)[k] = frames[k]
  BY <1>2, FrontFacts
<1>4. CASE Caller.module = Active.module
  <2> DEFINE v == IF Active.module = Entry THEN Front(frames)[Depth - 1].vars ELSE Active.vars
  <2>1. v \in SUBSET Writes
    BY <1>1, <1>2, <1>3, ActiveFacts
  <2> DEFINE f == [Front(frames)[Depth - 1] EXCEPT !.vars = v]
  <2>2. frames' = [Front(frames) EXCEPT ![Depth - 1] = f] /\ scopes' = scopes
    BY <1>4 DEF Return
  <2>6. f \in Frame /\ f.module = Front(frames)[Depth - 1].module /\ f.vars = v
    <3>1. Front(frames)[Depth - 1] \in Frame
      BY <1>2, <1>3
    <3> QED
      BY <2>1, <3>1, FrameVars
  <2> HIDE DEF v, f
  <2>3. /\ frames' \in Seq(Frame) /\ Len(frames') = Depth - 1
        /\ \A k \in 1..(Depth - 1) : k # Depth - 1 => frames'[k] = Front(frames)[k]
        /\ frames'[Depth - 1].module = Front(frames)[Depth - 1].module
        /\ frames'[Depth - 1].vars = v
    <3>1. Depth - 1 \in 1..Len(Front(frames))
      BY <1>2, <1>3
    <3>2. /\ frames' \in Seq(Frame) /\ Len(frames') = Len(Front(frames))
          /\ \A k \in 1..Len(Front(frames)) : k # Depth - 1 => frames'[k] = Front(frames)[k]
          /\ frames'[Depth - 1].module = Front(frames)[Depth - 1].module
          /\ frames'[Depth - 1].vars = v
      BY ONLY <1>3, <2>2, <2>6, <3>1, ExceptSeq
    <3> QED
      BY <1>3, <3>2
  <2>4. \A k \in 1..(Depth - 1) : frames'[k].module = frames[k].module
    BY <1>2, <1>3, <2>3
  <2>5. Active.module # Entry => v = Active.vars
    BY DEF v
  <2> QED
    BY <1>1, <1>2, <1>3, <1>4, <2>2, <2>3, <2>4, <2>5
<1>5. CASE Caller.module # Active.module
  <2>1. frames' = Front(frames) /\ scopes' = [scopes EXCEPT ![Active.module] = Active.vars]
    BY <1>5 DEF Return
  <2> QED
    BY <1>1, <1>2, <1>3, <1>5, <2>1
<1> QED
  BY <1>4, <1>5

LEMMA UnwindShape ==
  ASSUME TypeOK, RunInv, Unwind
  PROVE  /\ phase = "unwinding" /\ phase' \in {"unwinding", "failed"}
         /\ UNCHANGED <<imports, order, staged, scopes, log, steps>>
         /\ frames' \in Seq(Frame) /\ frames' # <<>> /\ Len(frames') <= Len(frames)
<1>1. /\ phase = "unwinding" /\ phase' \in {"unwinding", "failed"}
      /\ UNCHANGED <<imports, order, staged, scopes, log, steps>>
  BY DEF Unwind, resolverVars
<1>2. frames \in Seq(Frame) /\ frames # <<>> /\ Depth \in Nat /\ Depth = Len(frames)
  BY <1>1, ActiveFacts, EmptyIff
<1>3. CASE Depth = 1
  <2>1. frames' = frames
    BY <1>3 DEF Unwind
  <2> QED
    BY <1>1, <1>2, <2>1
<1>4. CASE Depth # 1
  <2>1. frames' = Front(frames)
    BY <1>4 DEF Unwind
  <2>2. frames' \in Seq(Frame) /\ Len(frames') = Depth - 1 /\ Depth - 1 # 0 /\ Depth - 1 <= Depth
    BY <1>2, <1>4, <2>1, FrontFacts
  <2> QED
    BY <1>1, <1>2, <2>2, EmptyIff
<1> QED
  BY <1>3, <1>4

\* The steps that change the stored scopes, the frames or the log.
LEMMA RunSteps ==
  [Next]_vars =>
    \/ StartEntry \/ Write \/ (\E t \in Modules : Call(t)) \/ Return \/ Unwind
    \/ UNCHANGED <<scopes, frames, log>>
  BY DEF Next, ImportCycle, ImportKnown, ImportNew, ResolveFails, FinishModule, CheckProgram,
         CheckFails, InitializeModule, InitializationFails, OtherStatement, Fail, Finish,
         runVars, vars

-----------------------------------------------------------------------------
(* The run: types and invariants.                                            *)

LEMMA PhaseType ==
  ASSUME TypeOK, StackInv, RunInv, [Next]_vars
  PROVE  phase' \in Phases
<1>1. phase \in Phases
  BY DEF TypeOK
<1>2. \A x \in {"resolving", "checking", "initializing", "running", "unwinding", "finished",
                "failed", "rejected"} : x \in Phases
  BY DEF Phases
<1> QED
  BY <1>1, <1>2
     DEF Next, ImportCycle, ImportKnown, ImportNew, ResolveFails, FinishModule, CheckProgram,
         CheckFails, InitializeModule, InitializationFails, StartEntry, Write, Call, Return,
         OtherStatement, Fail, Unwind, Finish, vars

LEMMA StageType ==
  ASSUME TypeOK, [Next]_vars
  PROVE  staged' \subseteq Modules
<1>1. staged \subseteq Modules /\ order \in Seq(Modules)
  BY DEF TypeOK
<1>2. ASSUME NEW i \in DOMAIN order, InitializeModule(i)
      PROVE  staged' \subseteq Modules
  <2>1. order[i] \in Modules
    BY <1>1
  <2> QED
    BY <1>1, <1>2, <2>1 DEF InitializeModule
<1> QED
  BY <1>1, <1>2
     DEF Next, ImportCycle, ImportKnown, ImportNew, ResolveFails, FinishModule, CheckProgram,
         CheckFails, InitializationFails, StartEntry, Write, Call, Return,
         OtherStatement, Fail, Unwind, Finish, vars

LEMMA StepsType ==
  ASSUME TypeOK, [Next]_vars
  PROVE  steps' \in 0..MaxSteps /\ steps <= steps'
<1>1. steps \in 0..MaxSteps /\ MaxSteps \in Nat /\ steps \in Nat /\ steps <= MaxSteps
  BY ModuleSystemAssumption DEF TypeOK, ModuleSystemAssumption
<1>2. CASE steps' = steps
  BY <1>1, <1>2
<1>3. CASE steps' \in steps..MaxSteps
  BY <1>1, <1>3
<1>4. steps < MaxSteps => steps + 1 \in steps..MaxSteps
  BY <1>1
<1> QED
  BY <1>2, <1>3, <1>4
     DEF Next, ImportCycle, ImportKnown, ImportNew, ResolveFails, FinishModule, CheckProgram,
         CheckFails, InitializeModule, InitializationFails, StartEntry, Write, Call, Return,
         OtherStatement, Fail, Unwind, Finish, ChargeStatement, ChargeExpression, Charge, vars

LEMMA RunType ==
  ASSUME TypeOK, ResolverInv, RunInv, [Next]_vars
  PROVE  /\ DOMAIN scopes' \subseteq Modules
         /\ scopes' \in [DOMAIN scopes' -> SUBSET Writes]
         /\ frames' \in Seq(Frame) /\ Len(frames') <= MaxDepth + 1
         /\ log' \in Seq(Modules) /\ Len(log') <= steps'
<1>1. /\ DOMAIN scopes \subseteq Modules /\ scopes \in [DOMAIN scopes -> SUBSET Writes]
      /\ frames \in Seq(Frame) /\ Len(frames) \in Nat /\ Len(frames) <= MaxDepth + 1
      /\ log \in Seq(Modules) /\ Len(log) \in Nat /\ Len(log) <= steps
      /\ steps \in Nat /\ MaxDepth \in Nat /\ steps' \in Nat /\ steps <= steps'
  BY StepsType, EmptyIff, ModuleSystemAssumption DEF TypeOK, ModuleSystemAssumption
<1>2. CASE UNCHANGED <<scopes, frames, log>>
  BY <1>1, <1>2
<1>3. CASE StartEntry
  <2>1. log' = log
    BY <1>3 DEF StartEntry
  <2>2. CASE UNCHANGED <<scopes, frames>>
    BY <1>1, <2>1, <2>2
  <2>3. CASE /\ scopes' = [m \in staged |-> {}]
             /\ frames' = <<[module |-> Entry, vars |-> {}]>>
    <3>1. [module |-> Entry, vars |-> {}] \in Frame
      BY ModuleSystemAssumption DEF Frame, ModuleSystemAssumption
    <3>2. frames' \in Seq(Frame) /\ Len(frames') = 1
      BY <2>3, <3>1
    <3>3. DOMAIN scopes' = staged /\ staged \subseteq Modules
      BY <2>3 DEF TypeOK
    <3>4. scopes' \in [DOMAIN scopes' -> SUBSET Writes]
      BY <2>3, <3>3
    <3> QED
      BY <1>1, <2>1, <3>2, <3>3, <3>4
  <2> QED
    BY <1>3, <2>2, <2>3 DEF StartEntry
<1>4. CASE Write
  BY <1>1, <1>4, WriteShape, ActiveFacts
<1>5. ASSUME NEW t \in Modules, Call(t)
      PROVE  /\ UNCHANGED <<scopes, log>>
             /\ frames' \in Seq(Frame) /\ Len(frames') <= MaxDepth + 1
  <2>1. /\ UNCHANGED <<scopes, log>> /\ frames' \in Seq(Frame) /\ Len(frames') = Depth + 1
        /\ Depth - 1 < MaxDepth /\ phase = "running"
    BY <1>5, CallShape
  <2>2. Depth \in Nat
    BY <2>1, ActiveFacts
  <2> QED
    BY <1>1, <2>1, <2>2
<1>6. CASE Return
  <2>1. /\ phase = "running" /\ log' = log
        /\ frames' \in Seq(Frame) /\ Len(frames') = Depth - 1
        /\ scopes' = scopes \/ scopes' = [scopes EXCEPT ![Active.module] = Active.vars]
    BY <1>6, ReturnShape
  <2>2. /\ Depth = Len(frames) /\ Active.vars \in SUBSET Writes
    BY <2>1, ActiveFacts
  <2>3. DOMAIN scopes' = DOMAIN scopes /\ scopes' \in [DOMAIN scopes -> SUBSET Writes]
    BY <1>1, <2>1, <2>2
  <2> QED
    BY <1>1, <2>1, <2>2, <2>3
<1>7. CASE Unwind
  <2>1. /\ frames' \in Seq(Frame) /\ Len(frames') <= Len(frames) /\ UNCHANGED <<scopes, log>>
    BY <1>7, UnwindShape
  <2>2. Len(frames') \in Nat
    BY <2>1, EmptyIff
  <2> QED
    BY <1>1, <2>1, <2>2
<1> QED
  BY <1>1, <1>2, <1>3, <1>4, <1>5, <1>6, <1>7, RunSteps

LEMMA TypeStep ==
  ASSUME TypeOK, StackInv, ResolverInv, RunInv, [Next]_vars
  PROVE  TypeOK'
<1>1. steps' \in 0..MaxSteps
  BY StepsType
<1> QED
  BY <1>1, ResolverType, PhaseType, StageType, RunType DEF TypeOK

LEMMA StageStep ==
  ASSUME TypeOK, StackInv, StageInv, [Next]_vars
  PROVE  StageInv'
<1>1. ASSUME NEW i \in DOMAIN order, InitializeModule(i)
      PROVE  StageInv'
  <2>1. /\ phase = "initializing" /\ log' = log /\ order' = order
        /\ staged' \subseteq staged \cup Dependencies
        /\ phase' \in {"initializing", "rejected"}
    BY <1>1 DEF InitializeModule, runVars, resolverVars
  <2> QED
    BY <2>1 DEF StageInv, Dependencies
<1>2. CASE phase' \in {"resolving", "checking"} /\ phase = "resolving"
           /\ UNCHANGED <<staged, log>>
  BY <1>2 DEF StageInv
<1>3. CASE UNCHANGED <<phase, staged, log, order>>
  BY <1>3 DEF StageInv, Dependencies
<1>4. CASE phase = "checking" /\ phase' \in {"initializing", "rejected"}
           /\ UNCHANGED <<staged, log>>
  BY <1>4 DEF StageInv
<1>5. CASE phase' \notin {"resolving", "checking", "initializing"}
  BY <1>5 DEF StageInv
<1> USE DEF runVars, resolverVars
<1>6. CASE ImportKnown \/ ImportNew \/ FinishModule
  BY <1>2, <1>6 DEF ImportKnown, ImportNew, FinishModule, AtImport
<1>7. CASE CheckProgram
  BY <1>4, <1>7 DEF CheckProgram
<1>8. CASE \/ ImportCycle \/ ResolveFails \/ CheckFails \/ InitializationFails
           \/ StartEntry \/ OtherStatement \/ Fail \/ Finish
  BY <1>5, <1>8
     DEF ImportCycle, ResolveFails, CheckFails, InitializationFails, StartEntry,
         OtherStatement, Fail, Finish
<1>9. CASE Write \/ (\E t \in Modules : Call(t)) \/ Return \/ Unwind
  BY <1>5, <1>9 DEF Write, Call, Return, Unwind
<1>10. CASE UNCHANGED vars
  BY <1>3, <1>10 DEF vars
<1> QED
  BY <1>1, <1>6, <1>7, <1>8, <1>9, <1>10 DEF Next

\* The frames of a module are neighbours.
LEMMA Neighbours ==
  ASSUME TypeOK, ResolverInv, RunInv, phase = "running", Depth > 1,
         NEW k \in 1..(Depth - 1), frames[k].module = Active.module
  PROVE  frames[Depth - 1].module = Active.module
<1>1. /\ FramesInv /\ SortedInv /\ order \in Seq(Modules) /\ Len(order) \in Nat
  BY EmptyIff DEF RunInv, ResolverInv, TypeOK
<1>2. /\ Depth \in Nat /\ Depth = Len(frames) /\ Active = frames[Depth]
  BY ActiveFacts
<1>3. /\ Depth \in 1..Depth /\ Depth - 1 \in 1..Depth /\ Depth - 1 < Depth
      /\ k \in 1..Depth /\ (k = Depth - 1 \/ k < Depth - 1)
  BY <1>2
<1>4. \A j \in 1..Depth : \E p \in 1..Len(order) : order[p] = frames[j].module
  <2> SUFFICES ASSUME NEW j \in 1..Depth
               PROVE  \E p \in 1..Len(order) : order[p] = frames[j].module
    OBVIOUS
  <2>1. frames[j].module \in ToSet(order)
    BY <1>1, <1>2 DEF FramesInv
  <2> QED
    BY <1>1, <2>1, ToSetFacts
<1>5. PICK p \in 1..Len(order), q \in 1..Len(order) :
        order[p] = Active.module /\ order[q] = frames[Depth - 1].module
  BY <1>2, <1>3, <1>4
<1>6. p <= q
  BY <1>1, <1>2, <1>3, <1>5 DEF FramesInv, Descending
<1>7. k < Depth - 1 => q <= p
  BY <1>1, <1>2, <1>3, <1>5 DEF FramesInv, Descending
<1>8. CASE k < Depth - 1
  <2>1. p = q
    BY <1>6, <1>7, <1>8
  <2> QED
    BY <1>5, <2>1
<1> QED
  BY <1>3, <1>8

LEMMA WriteKeeps ==
  ASSUME TypeOK, ResolverInv, RunInv, Write
  PROVE  FramesInv' /\ LiveInv'
<1> DEFINE n == Depth
           a == Active.module
           W(m) == {i \in DOMAIN log : log[i] = m}
           W2(m) == {i \in DOMAIN log' : log'[i] = m}
<1>1. /\ phase = "running" /\ FramesInv /\ LiveInv
      /\ n \in Nat /\ n > 0 /\ n = Len(frames) /\ Len(frames') = n /\ Active = frames[n]
      /\ \A k \in 1..n : frames'[k].module = frames[k].module
      /\ \A k \in 1..n : k # n => frames'[k].vars = frames[k].vars
      /\ frames'[n].vars = Active.vars \cup {Len(log')}
      /\ order' = order /\ scopes' = scopes
  <2>1. phase = "running"
    BY WriteShape
  <2> QED
    BY <2>1, WriteShape, ActiveFacts DEF RunInv
<1>2. /\ \A m : m # a => W2(m) = W(m)
      /\ W2(a) = W(a) \cup {Len(log')}
      /\ \A m : W(m) \subseteq W2(m)
  <2>1. /\ log \in Seq(Modules) /\ log' \in Seq(Modules) /\ Len(log) \in Nat
        /\ Len(log') = Len(log) + 1
        /\ \A i \in 1..Len(log) : log'[i] = log[i]
        /\ log'[Len(log) + 1] = Active.module
    BY WriteShape DEF TypeOK
  <2>2. DOMAIN log = 1..Len(log) /\ DOMAIN log' = 1..(Len(log) + 1)
    BY <2>1
  <2>3. /\ \A i \in 1..(Len(log) + 1) : i \in 1..Len(log) \/ i = Len(log) + 1
        /\ \A i \in 1..Len(log) : i \in 1..(Len(log) + 1)
        /\ Len(log) + 1 \in 1..(Len(log) + 1)
    BY <2>1
  <2> QED
    BY <2>1, <2>2, <2>3
<1> HIDE DEF n, W2
<1>7. \A k \in 1..n : frames[k].module # Entry /\ Topmost(k) => frames[k].vars = W(frames[k].module)
  BY <1>1 DEF LiveInv, WritesOf
<1>8. \A t \in Dependencies :
        /\ scopes[t] \subseteq W(t)
        /\ ~IsOpen(t) => scopes[t] = W(t)
  BY <1>1 DEF LiveInv, WritesOf
<1> HIDE DEF W
<1>3. FramesInv'
  <2>1. frames' # <<>> /\ frames'[1].module = Entry
    <3>1. frames' \in Seq(Frame) /\ 1 \in 1..n
      BY <1>1, WriteShape
    <3> QED
      BY <1>1, <3>1, EmptyIff DEF FramesInv
  <2>2. \A k \in 1..Len(frames') : frames'[k].module \in ToSet(order')
    BY <1>1 DEF FramesInv
  <2>3. Descending'
    BY <1>1 DEF FramesInv, Descending
  <2> QED
    BY <2>1, <2>2, <2>3 DEF FramesInv
<1>4. \A k \in 1..n : Topmost(k)' => Topmost(k)
  <2>1. \A k \in 1..n : \A j \in (k + 1)..n : j \in 1..n
    BY <1>1
  <2> QED
    BY <1>1, <2>1 DEF Topmost
<1>5. ASSUME NEW k \in 1..n, frames'[k].module # Entry, Topmost(k)'
      PROVE  frames'[k].vars = W2(frames'[k].module)
  <2>1. frames[k].vars = W(frames[k].module)
    BY <1>1, <1>4, <1>5, <1>7
  <2>2. CASE k = n
    BY <1>1, <1>2, <2>1, <2>2
  <2>3. CASE k # n
    <3>1. n \in (k + 1)..n
      BY <1>1, <2>3
    <3>2. frames[k].module # Active.module
      BY <1>1, <1>4, <1>5, <3>1 DEF Topmost
    <3> QED
      BY <1>1, <1>2, <2>1, <2>3, <3>2
  <2> QED
    BY <2>2, <2>3
<1>6. ASSUME NEW t \in Dependencies
      PROVE  /\ scopes[t] \subseteq W2(t)
             /\ ~IsOpen(t)' => scopes[t] = W2(t)
  <2>2. ~IsOpen(t)' => ~IsOpen(t) /\ t # Active.module
    <3>1. n \in 1..n
      BY <1>1
    <3> QED
      BY <1>1, <3>1 DEF IsOpen
  <2>3. W(t) \subseteq W2(t) /\ (t # Active.module => W2(t) = W(t))
    BY <1>2
  <2>4. scopes[t] \subseteq W(t) /\ (~IsOpen(t) => scopes[t] = W(t))
    BY <1>8
  <2>5. scopes[t] \subseteq W2(t)
    BY <2>3, <2>4
  <2>6. ASSUME ~IsOpen(t)'
        PROVE  scopes[t] = W2(t)
    BY <2>2, <2>3, <2>4, <2>6
  <2> QED
    BY <2>5, <2>6
<1>9. LiveInv'
  BY <1>1, <1>5, <1>6 DEF LiveInv, Dependencies, WritesOf, W2
<1> QED
  BY <1>3, <1>9

LEMMA CallKeeps ==
  ASSUME TypeOK, ResolverInv, RunInv, NEW t \in Modules, Call(t)
  PROVE  FramesInv' /\ LiveInv'
<1> DEFINE n == Depth
<1>1. /\ phase = "running" /\ FramesInv /\ LiveInv
      /\ n \in Nat /\ n > 0 /\ n = Len(frames) /\ Len(frames') = n + 1 /\ Active = frames[n]
      /\ \A k \in 1..n : frames'[k] = frames[k]
      /\ frames'[n + 1].module = t
      /\ t = Active.module => frames'[n + 1].vars = Active.vars
      /\ t # Active.module => frames'[n + 1].vars = scopes[t]
      /\ t = Active.module \/ t \in Imports(Active.module)
      /\ order' = order /\ scopes' = scopes /\ log' = log
  <2>1. phase = "running"
    BY CallShape
  <2> QED
    BY <2>1, CallShape, ActiveFacts DEF RunInv
<1>2. /\ SortedInv /\ order \in Seq(Modules) /\ Len(order) \in Nat
      /\ n \in 1..n /\ 1 \in 1..n /\ n + 1 \in 1..(n + 1)
      /\ \A k \in 1..(n + 1) : k \in 1..n \/ k = n + 1
      /\ \A k \in 1..n : k \in 1..(n + 1) /\ (k = n \/ k < n)
      /\ \A m : WritesOf(m)' = WritesOf(m)
  BY <1>1, EmptyIff DEF ResolverInv, TypeOK, WritesOf
<1> HIDE DEF n
\* t is not later in the order than the active module.
<1>3. PICK p \in 1..Len(order) : order[p] = Active.module
  BY <1>1, <1>2, ToSetFacts DEF FramesInv
<1>4. PICK q \in 1..Len(order) : order[q] = t /\ q <= p
  <2>1. CASE t = Active.module
    BY <1>2, <1>3, <2>1
  <2>2. CASE t \in Imports(Active.module)
    <3>1. PICK j \in 1..(p - 1) : order[j] = t
      BY <1>2, <1>3, <2>2 DEF SortedInv
    <3>2. j \in 1..Len(order) /\ j <= p
      BY <1>2, <3>1
    <3> QED
      BY <3>1, <3>2
  <2> QED
    BY <1>1, <2>1, <2>2
<1>5. FramesInv'
  <2>1. frames' # <<>> /\ frames'[1].module = Entry
    <3>1. frames' \in Seq(Frame) /\ frames[1].module = Entry
      BY <1>1, CallShape DEF FramesInv
    <3> QED
      BY <1>1, <1>2, <3>1, EmptyIff
  <2>2. \A k \in 1..(n + 1) : frames'[k].module \in ToSet(order)
    <3>1. t \in ToSet(order)
      BY <1>2, <1>4, ToSetFacts
    <3> QED
      BY <1>1, <1>2, <3>1 DEF FramesInv
  <2>3. ASSUME NEW i \in 1..(n + 1), NEW j \in 1..(n + 1), i < j,
               NEW b \in 1..Len(order), NEW c \in 1..Len(order),
               order[b] = frames'[i].module, order[c] = frames'[j].module
        PROVE  c <= b
    <3>1. i \in 1..n
      BY <1>1, <2>3
    <3>2. CASE j \in 1..n
      BY <1>1, <2>3, <3>1, <3>2 DEF FramesInv, Descending
    <3>3. CASE j = n + 1
      <4>1. c = q
        BY <1>1, <1>2, <1>4, <2>3, <3>3 DEF SortedInv
      <4>2. p <= b
        <5>1. CASE i = n
          BY <1>1, <1>2, <1>3, <2>3, <5>1 DEF SortedInv
        <5>2. CASE i < n
          <6>1. frames'[i].module = frames[i].module /\ i < n /\ n \in 1..n
            BY <1>1, <3>1, <5>2
          <6>2. \A d, e \in 1..Len(order) :
                  order[d] = frames[i].module /\ order[e] = frames[n].module => e <= d
            BY <1>1, <3>1, <6>1 DEF FramesInv, Descending
          <6> QED
            BY <1>1, <1>2, <1>3, <2>3, <6>1, <6>2
        <5> QED
          BY <1>2, <3>1, <5>1, <5>2
      <4> QED
        BY <1>4, <4>1, <4>2
    <3> QED
      BY <1>2, <3>2, <3>3
  <2>4. Descending'
    BY <1>1, <2>3 DEF Descending
  <2> QED
    BY <1>1, <2>1, <2>2, <2>4 DEF FramesInv
<1>6. ASSUME NEW k \in 1..(n + 1), frames'[k].module # Entry, Topmost(k)'
      PROVE  frames'[k].vars = WritesOf(frames'[k].module)
  <2>1. CASE k \in 1..n
    <3>1. Topmost(k)
      <4>1. \A j \in (k + 1)..n : j \in (k + 1)..(n + 1) /\ j \in 1..n
        BY <1>1, <2>1
      <4> QED
        BY <1>1, <1>6, <2>1, <4>1 DEF Topmost
    <3> QED
      BY <1>1, <1>6, <2>1, <3>1 DEF LiveInv
  <2>2. CASE k = n + 1 /\ t = Active.module
    <3>1. Topmost(n)
      BY <1>1 DEF Topmost
    <3>2. Active.vars = WritesOf(Active.module)
      BY <1>1, <1>2, <1>6, <2>2, <3>1 DEF LiveInv
    <3> QED
      BY <1>1, <2>2, <3>2
  <2>3. CASE k = n + 1 /\ t # Active.module
    <3>1. t \in Dependencies /\ ~IsOpen(t)
      BY <1>1, <2>3, ImportIsClosed
    <3> QED
      BY <1>1, <2>3, <3>1 DEF LiveInv
  <2> QED
    BY <1>2, <2>1, <2>2, <2>3
<1>7. ASSUME NEW d \in Dependencies
      PROVE  /\ scopes[d] \subseteq WritesOf(d)
             /\ ~IsOpen(d)' => scopes[d] = WritesOf(d)
  <2>1. ~IsOpen(d)' => ~IsOpen(d)
    BY <1>1, <1>2 DEF IsOpen
  <2> QED
    BY <1>1, <2>1 DEF LiveInv
<1>8. LiveInv'
  BY <1>1, <1>6, <1>7 DEF LiveInv, Dependencies, WritesOf
<1> QED
  BY <1>5, <1>8

LEMMA ReturnKeeps ==
  ASSUME TypeOK, ResolverInv, RunInv, Return
  PROVE  /\ FramesInv' /\ LiveInv'
         /\ \A t \in DOMAIN scopes : /\ scopes[t] \subseteq scopes'[t]
                                     /\ scopes'[t] # scopes[t] => ~IsOpen(t)'
<1> DEFINE n == Depth - 1
<1>1. /\ phase = "running" /\ FramesInv /\ LiveInv /\ Depth > 1
      /\ n \in Nat /\ n > 0 /\ n + 1 = Len(frames) /\ Len(frames') = n
      /\ Active = frames[n + 1] /\ Caller = frames[n]
      /\ frames' \in Seq(Frame)
      /\ \A k \in 1..n : frames'[k].module = frames[k].module
      /\ \A k \in 1..n : k # n => frames'[k].vars = frames[k].vars
      /\ order' = order /\ log' = log
  <2>1. phase = "running"
    BY ReturnShape
  <2> QED
    BY <2>1, ReturnShape, ActiveFacts DEF RunInv
<1>2. /\ n \in 1..n /\ 1 \in 1..n /\ n + 1 \in 1..(n + 1)
      /\ \A k \in 1..(n + 1) : k \in 1..n \/ k = n + 1
      /\ \A k \in 1..n : k \in 1..(n + 1)
      /\ \A m : WritesOf(m)' = WritesOf(m)
  BY <1>1 DEF WritesOf
<1>3. /\ Caller.module = Active.module =>
           (Active.module # Entry => frames'[n].vars = Active.vars) /\ scopes' = scopes
      /\ Caller.module # Active.module =>
           /\ frames'[n].vars = frames[n].vars
           /\ scopes' = [scopes EXCEPT ![Active.module] = Active.vars]
  BY ReturnShape
<1>4. \A k \in 1..n : frames[k].module = Active.module => frames[n].module = Active.module
  BY <1>1, Neighbours
<1> HIDE DEF n
<1>5. FramesInv'
  <2>1. frames' # <<>> /\ frames'[1].module = Entry
    BY <1>1, <1>2, EmptyIff DEF FramesInv
  <2>2. \A k \in 1..n : frames'[k].module \in ToSet(order)
    BY <1>1, <1>2 DEF FramesInv
  <2>3. Descending'
    BY <1>1, <1>2 DEF FramesInv, Descending
  <2> QED
    BY <1>1, <2>1, <2>2, <2>3 DEF FramesInv
<1>6. Active.module # Entry => Active.vars = WritesOf(Active.module)
  <2>1. Topmost(n + 1)
    BY <1>1 DEF Topmost
  <2> QED
    BY <1>1, <1>2, <2>1 DEF LiveInv
<1>7. ASSUME NEW k \in 1..n, k # n \/ Caller.module # Active.module,
             Topmost(k)'
      PROVE  Topmost(k)
  <2>1. \A j \in (k + 1)..(n + 1) : j \in (k + 1)..n \/ j = n + 1
    BY <1>1
  <2>2. \A j \in (k + 1)..n : j \in 1..n
    BY <1>1
  <2>3. \A j \in (k + 1)..n : frames[j].module # frames[k].module
    BY <1>1, <1>7, <2>2 DEF Topmost
  <2>4. frames[n + 1].module # frames[k].module
    <3>1. CASE Caller.module = Active.module
      <4>1. n \in (k + 1)..n
        BY <1>1, <1>7, <3>1
      <4> QED
        BY <1>1, <2>3, <3>1, <4>1
    <3>2. CASE Caller.module # Active.module
      BY <1>1, <1>4, <3>2
    <3> QED
      BY <3>1, <3>2
  <2> QED
    BY <1>1, <2>1, <2>3, <2>4 DEF Topmost
<1>8. ASSUME NEW k \in 1..n, frames'[k].module # Entry, Topmost(k)'
      PROVE  frames'[k].vars = WritesOf(frames'[k].module)
  <2>1. CASE k = n /\ Caller.module = Active.module
    BY <1>1, <1>3, <1>6, <1>8, <2>1
  <2>2. CASE k # n \/ Caller.module # Active.module
    <3>1. Topmost(k) /\ frames[k].module # Entry
      BY <1>1, <1>7, <1>8, <2>2
    <3>2. frames[k].vars = WritesOf(frames[k].module)
      BY <1>1, <1>2, <3>1 DEF LiveInv
    <3>3. frames'[k].vars = frames[k].vars
      BY <1>1, <1>3, <2>2
    <3> QED
      BY <1>1, <3>2, <3>3
  <2> QED
    BY <2>1, <2>2
<1>9. CASE Caller.module = Active.module
  <2>1. scopes' = scopes
    BY <1>3, <1>9
  <2>2. ASSUME NEW d \in Dependencies
        PROVE  /\ scopes[d] \subseteq WritesOf(d)
               /\ ~IsOpen(d)' => scopes[d] = WritesOf(d)
    <3>1. ~IsOpen(d)' => ~IsOpen(d)
      BY <1>1, <1>2, <1>9 DEF IsOpen
    <3> QED
      BY <1>1, <3>1 DEF LiveInv
  <2>3. LiveInv'
    BY <1>1, <1>8, <2>1, <2>2 DEF LiveInv, Dependencies, WritesOf
  <2> QED
    BY <1>5, <2>1, <2>3
<1>10. CASE Caller.module # Active.module
  <2>0. PICK a : a = Active.module
    OBVIOUS
  <2>1. a \in Dependencies /\ a # Entry /\ a = frames[n + 1].module
    <3>1. a # Entry
      BY <1>1, <1>2, <1>4, <1>10, <2>0 DEF FramesInv
    <3>2. a \in ToSet(order)
      BY <1>1, <1>2, <2>0 DEF FramesInv
    <3> QED
      BY <1>1, <2>0, <3>1, <3>2 DEF Dependencies
  <2>2. \A k \in 1..n : frames[k].module # a
    BY <1>1, <1>4, <1>10, <2>0
  <2>3. /\ DOMAIN scopes' = Dependencies /\ scopes'[a] = WritesOf(a)
        /\ \A d \in Dependencies : d # a => scopes'[d] = scopes[d]
    <3>1. scopes' = [scopes EXCEPT ![a] = WritesOf(a)] /\ DOMAIN scopes = Dependencies
      BY <1>1, <1>3, <1>6, <1>10, <2>0, <2>1 DEF LiveInv
    <3> QED
      BY <2>1, <3>1 DEF TypeOK
  <2>4. ASSUME NEW d \in Dependencies
        PROVE  /\ scopes'[d] \subseteq WritesOf(d)
               /\ ~IsOpen(d)' => scopes'[d] = WritesOf(d)
    <3>1. CASE d = a
      BY <2>3, <3>1
    <3>2. CASE d # a
      <4>1. ~IsOpen(d)' => ~IsOpen(d)
        BY <1>1, <1>2, <2>1, <3>2 DEF IsOpen
      <4> QED
        BY <1>1, <2>3, <3>2, <4>1 DEF LiveInv
    <3> QED
      BY <3>1, <3>2
  <2>5. LiveInv'
    BY <1>1, <1>8, <2>3, <2>4 DEF LiveInv, Dependencies, WritesOf
  <2>6. ASSUME NEW d \in Dependencies
        PROVE  /\ scopes[d] \subseteq scopes'[d]
               /\ scopes'[d] # scopes[d] => ~IsOpen(d)'
    <3>1. scopes[d] \subseteq WritesOf(d)
      BY <1>1 DEF LiveInv
    <3>2. ~IsOpen(a)'
      BY <1>1, <2>2 DEF IsOpen
    <3>3. CASE d = a
      BY <2>3, <3>1, <3>2, <3>3
    <3>4. CASE d # a
      BY <2>3, <3>4
    <3> QED
      BY <3>3, <3>4
  <2> QED
    BY <1>1, <1>5, <2>5, <2>6 DEF LiveInv
<1> QED
  BY <1>9, <1>10

LEMMA StartKeeps ==
  ASSUME TypeOK, StackInv, ResolverInv, StageInv, StartEntry
  PROVE  /\ phase' = "running" /\ frames' # <<>> /\ FramesInv' /\ LiveInv'
         /\ DOMAIN scopes' = Dependencies /\ \A m \in DOMAIN scopes' : scopes'[m] = {}
<1>1. /\ phase = "initializing" /\ order' = order /\ log' = log /\ imports' = imports
      /\ Dependencies \subseteq staged
  BY DEF StartEntry, resolverVars
<1>2. phase' = "running"
  <2>1. phase' # "rejected"
    <3>1. [Next]_vars
      BY DEF Next
    <3> QED
      BY <3>1, StackStep DEF StackInv, RunInv
  <2> QED
    BY <2>1 DEF StartEntry
<1>3. /\ scopes' = [m \in staged |-> {}]
      /\ frames' = <<[module |-> Entry, vars |-> {}]>>
  BY <1>2 DEF StartEntry
<1>4. staged = Dependencies /\ log = <<>>
  BY <1>1 DEF StageInv
<1>5. /\ Len(frames') = 1 /\ frames'[1].module = Entry /\ frames' # <<>>
      /\ \A k \in 1..1 : k = 1
  BY <1>3
<1>6. Entry \in ToSet(order)
  <2>1. order \in Seq(Modules) /\ order # <<>> /\ order[Len(order)] = Entry
    BY <1>1 DEF StackInv, ResolverInv, EntryLast, TypeOK
  <2>2. Len(order) \in 1..Len(order)
    BY <2>1
  <2> QED
    BY <2>1, <2>2, ToSetFacts
<1>7. FramesInv'
  <2>1. Descending'
    BY <1>5 DEF Descending
  <2>2. \A k \in 1..Len(frames') : frames'[k].module \in ToSet(order')
    BY <1>1, <1>5, <1>6
  <2> QED
    BY <1>5, <2>1, <2>2 DEF FramesInv
<1>8. \A m : WritesOf(m)' = {}
  BY <1>1, <1>4 DEF WritesOf
<1>9. LiveInv'
  <2>1. DOMAIN scopes' = Dependencies' /\ \A t \in Dependencies' : scopes'[t] = {}
    BY <1>1, <1>3, <1>4 DEF Dependencies
  <2>2. \A k \in 1..Len(frames') : ~(frames'[k].module # Entry)
    BY <1>5
  <2> QED
    BY <1>8, <2>1, <2>2 DEF LiveInv
<1> QED
  BY <1>2, <1>3, <1>4, <1>5, <1>7, <1>9

LEMMA RunStep ==
  ASSUME TypeOK, StackInv, ResolverInv, StageInv, RunInv, [Next]_vars
  PROVE  RunInv'
<1>1. CASE StartEntry
  BY <1>1, StartKeeps DEF RunInv
<1>2. CASE Write
  BY <1>2, WriteKeeps DEF RunInv, FramesInv
<1>3. ASSUME NEW t \in Modules, Call(t)
      PROVE  RunInv'
  BY <1>3, CallKeeps DEF RunInv, FramesInv
<1>4. CASE Return
  BY <1>4, ReturnKeeps DEF RunInv, FramesInv
<1>5. CASE Unwind
  BY <1>5, UnwindShape DEF RunInv
<1>6. CASE Fail
  BY <1>6 DEF RunInv, Fail, runVars
<1>7. CASE phase' \notin {"running", "unwinding"}
  BY <1>7 DEF RunInv
<1>8. CASE UNCHANGED <<phase, order, scopes, frames, log>>
  <2>1. phase' = phase /\ frames' = frames
    BY <1>8
  <2>2. phase = "running" => FramesInv' /\ LiveInv'
    BY <1>8 DEF RunInv, FramesInv, Descending, LiveInv, Topmost, IsOpen, Dependencies, WritesOf
  <2> QED
    BY <2>1, <2>2 DEF RunInv
<1>9. ASSUME NEW i \in DOMAIN order, InitializeModule(i)
      PROVE  RunInv'
  BY <1>7, <1>9 DEF InitializeModule
<1>10. CASE \/ ImportCycle \/ ImportKnown \/ ImportNew \/ ResolveFails \/ FinishModule
            \/ CheckProgram \/ CheckFails \/ InitializationFails \/ Finish
  BY <1>7, <1>10
     DEF ImportCycle, ImportKnown, ImportNew, AtImport, ResolveFails, FinishModule,
         CheckProgram, CheckFails, InitializationFails, Finish
<1>12. CASE OtherStatement
  BY <1>8, <1>12 DEF OtherStatement, resolverVars, runVars
<1>11. CASE UNCHANGED vars
  BY <1>8, <1>11 DEF vars, resolverVars, runVars
<1> QED
  BY <1>1, <1>2, <1>3, <1>4, <1>5, <1>6, <1>9, <1>10, <1>11, <1>12 DEF Next

LEMMA InitInv == Init => IInv
<1> SUFFICES ASSUME Init PROVE IInv
  OBVIOUS
<1>1. Entry \in Modules /\ MaxImports \in Nat /\ MaxSteps \in Nat /\ MaxDepth \in Nat
  BY ModuleSystemAssumption DEF ModuleSystemAssumption
<1>2. imports \in [Modules -> Seq(Modules)]
  <2>1. \A m \in Modules : imports[m] \in BoundedSeq(Modules, MaxImports)
    BY DEF Init
  <2>2. BoundedSeq(Modules, MaxImports) \subseteq Seq(Modules)
    BY <1>1, IsASeq DEF BoundedSeq, SeqOf
  <2>3. imports = [m \in Modules |-> imports[m]]
    BY DEF Init
  <2> QED
    BY <2>1, <2>2, <2>3
<1>3. TypeOK
  <2>1. /\ DOMAIN scopes \subseteq Modules
        /\ scopes \in [DOMAIN scopes -> SUBSET Writes]
    <3>1. 0 \in Writes
      BY <1>1 DEF Writes
    <3>2. CASE scopes = [m \in {} |-> {}]
      BY <3>2
    <3>3. CASE scopes = [m \in Modules \ {Entry} |-> {0}]
      BY <3>1, <3>3
    <3> QED
      BY <3>2, <3>3 DEF Init
  <2>2. /\ stack \in Seq(Modules) /\ order \in Seq(Modules) /\ cycle \in Seq(Modules)
        /\ frames \in Seq(Frame) /\ Len(frames) <= MaxDepth + 1
        /\ log \in Seq(Modules) /\ Len(log) <= steps /\ steps \in 0..MaxSteps
    BY <1>1 DEF Init
  <2>3. next \in [Modules -> Nat \ {0}]
    BY DEF Init
  <2> QED
    BY <1>2, <2>1, <2>2, <2>3 DEF Init, TypeOK, Phases
<1>4. StackInv /\ StageInv /\ RunInv
  BY DEF Init, StackInv, StageInv, RunInv
<1>5. /\ stack = <<Entry>> /\ Len(stack) = 1 /\ stack[1] = Entry /\ stack # <<>>
      /\ order = <<>> /\ Len(order) = 0 /\ ToSet(order) = {} /\ ToSet(stack) = {Entry}
  BY DEF Init, ToSet
<1>6. \A m \in Modules : next[m] = 1
  BY DEF Init
<1>7. PathInv /\ SortedInv
  BY <1>5 DEF PathInv, SortedInv
<1>8. BehindInv
  <2>1. ASSUME NEW k \in 1..Len(imports[Entry])
        PROVE  ~(k < 1)
    BY <1>1, <1>2, EmptyIff
  <2> QED
    BY <1>1, <1>5, <1>6, <2>1 DEF BehindInv
<1>9. FreshInv /\ EntryLast /\ NeededInv
  BY <1>5, <1>6 DEF FreshInv, EntryLast, NeededInv
<1> QED
  BY <1>3, <1>4, <1>7, <1>8, <1>9 DEF IInv, ResolverInv

LEMMA StepInv == IInv /\ [Next]_vars => IInv'
  BY TypeStep, StackStep, ResolverStepKeeps, StageStep, RunStep DEF IInv

\* The strengthening holds in every reachable state of every run.
THEOREM Inductive == Spec => []IInv
  BY InitInv, StepInv, PTL DEF Spec

-----------------------------------------------------------------------------
(* The properties.                                                           *)

\* Type correctness: at most MaxSteps steps and MaxDepth nested calls, for any limits.
THEOREM TypeCorrect == Spec => []TypeOK
  BY Inductive, PTL DEF IInv

\* The evaluator's checks of the order and of the initialised imports never refuse what
\* the resolver built.
THEOREM ResolverAndEvaluatorAgree == Spec => []NeverRejected
<1>1. IInv => NeverRejected
  BY DEF IInv, StackInv, NeverRejected
<1> QED
  BY <1>1, Inductive, PTL

\* A resolved program is the set of files that the entry leads to.
THEOREM ResolutionIsComplete == Spec => []LoadsWhatIsImported
<1>1. IInv => LoadsWhatIsImported
  <2> SUFFICES ASSUME IInv, stack = <<>>
               PROVE  /\ Entry \in ToSet(order)
                      /\ \A m \in ToSet(order) : Imports(m) \subseteq ToSet(order)
                      /\ \A S \in SUBSET Modules :
                           Entry \in S /\ (\A m \in S : Imports(m) \subseteq S) =>
                             ToSet(order) \subseteq S
    BY DEF LoadsWhatIsImported
  <2>1. /\ order \in Seq(Modules) /\ Len(order) \in Nat /\ Len(order) > 0
        /\ order[Len(order)] = Entry /\ SortedInv /\ NeededInv
    BY EmptyIff DEF IInv, TypeOK, ResolverInv, EntryLast
  <2>2. Entry \in ToSet(order)
    <3>1. Len(order) \in 1..Len(order)
      BY <2>1
    <3> QED
      BY <2>1, <3>1, ToSetFacts
  <2>3. ASSUME NEW m \in ToSet(order), NEW t \in Imports(m)
        PROVE  t \in ToSet(order)
    <3>1. PICK i \in 1..Len(order) : order[i] = m
      BY <2>1, ToSetFacts
    <3>2. PICK j \in 1..(i - 1) : order[j] = t
      BY <2>1, <2>3, <3>1 DEF SortedInv
    <3>3. j \in 1..Len(order)
      BY <2>1, <3>1, <3>2
    <3> QED
      BY <2>1, <3>2, <3>3, ToSetFacts
  <2> QED
    BY <2>1, <2>2, <2>3 DEF NeededInv
<1> QED
  BY <1>1, Inductive, PTL

\* The positions of the suffix that starts at position f of n.
LEMMA SuffixIndices ==
  ASSUME NEW n \in Nat, NEW f \in 1..n
  PROVE  LET l == n - f + 1 IN
         /\ l \in Nat /\ l > 0 /\ f + l - 1 = n /\ 1 \in 1..l /\ l \in 1..l /\ f + 1 - 1 = f
         /\ \A i \in 1..l : i # l => /\ i + 1 \in 1..l /\ f + (i + 1) - 1 = (f + i - 1) + 1
                                     /\ f + i - 1 \in 1..(n - 1)
  OBVIOUS

\* The part of the stack from the target on, closed by the target, is a cycle.
LEMMA CycleStep ==
  ASSUME IInv, CycleIsReal, [Next]_vars
  PROVE  CycleIsReal'
<1>1. imports' = imports
  BY ResolverSteps
<1>2. CASE cycle' = cycle
  BY <1>1, <1>2 DEF CycleIsReal, Imports
<1>3. CASE ImportCycle
  <2> DEFINE n == Len(stack)
             F == FromTarget
  <2>0. PICK T : T = Target
    OBVIOUS
  <2>1. /\ phase = "resolving" /\ T \in ToSet(stack) /\ cycle' = Append(F, T)
        /\ AtImport
    BY <1>3, <2>0 DEF ImportCycle, AtImport
  <2>2. /\ stack \in Seq(Modules) /\ n \in Nat /\ n > 0
        /\ stack[n] \in Modules /\ T \in Imports(stack[n]) /\ T \in Modules
    BY <2>0, <2>1, TopFacts DEF IInv, TypeOK
  <2>3. PICK f \in 1..n : f = (CHOOSE i \in DOMAIN stack : stack[i] = T) /\ stack[f] = T
    <3>1. DOMAIN stack = 1..n /\ \E i \in 1..n : stack[i] = T
      BY <2>1, <2>2, ToSetFacts
    <3> QED
      BY <3>1
  <2>4. F = SubSeq(stack, f, n)
    BY <2>0, <2>3 DEF FromTarget
  <2> HIDE DEF F
  <2>5. /\ F \in Seq(Modules) /\ Len(F) = n - f + 1
        /\ \A i \in 1..(n - f + 1) : F[i] = stack[f + i - 1]
    BY <2>2, <2>4, SuffixFacts
  <2> DEFINE c == Append(F, T)
             l == n - f + 1
  <2>6. /\ c \in Seq(Modules) /\ Len(c) = l + 1 /\ c[l + 1] = T
        /\ \A i \in 1..l : c[i] = stack[f + i - 1]
    BY <2>2, <2>5, AppendFacts
  <2>7. /\ l \in Nat /\ l > 0 /\ f + l - 1 = n /\ 1 \in 1..l /\ l \in 1..l /\ f + 1 - 1 = f
        /\ \A i \in 1..l : i # l => /\ i + 1 \in 1..l /\ f + (i + 1) - 1 = (f + i - 1) + 1
                                    /\ f + i - 1 \in 1..(n - 1)
    <3>1. n \in Nat /\ f \in 1..n
      BY <2>2, <2>3
    <3> HIDE DEF n
    <3> QED
      BY <3>1, SuffixIndices
  <2>8. \A i \in 1..(n - 1) : stack[i + 1] \in Imports(stack[i])
    BY DEF IInv, ResolverInv, PathInv
  <2> HIDE DEF c, l, n
  <2>9. c[1] = T /\ Len(c) > 1
    <3>1. c[1] = stack[f + 1 - 1]
      BY <2>6, <2>7
    <3>2. f + 1 - 1 = f
      BY <2>7
    <3>3. c[1] = stack[f]
      BY <3>1, <3>2
    <3>4. stack[f] = T
      BY <2>3
    <3>5. Len(c) = l + 1 /\ l \in Nat /\ l > 0
      BY <2>6, <2>7
    <3> QED
      BY <3>3, <3>4, <3>5
  <2>10. ASSUME NEW i \in 1..l
         PROVE  c[i + 1] \in Imports(c[i])
    <3>1. CASE i = l
      BY <2>2, <2>6, <2>7, <3>1
    <3>2. CASE i # l
      <4>1. /\ i + 1 \in 1..l /\ f + (i + 1) - 1 = (f + i - 1) + 1
            /\ f + i - 1 \in 1..(n - 1)
        BY <2>7, <3>2
      <4>2. c[i] = stack[f + i - 1]
        BY <2>6
      <4>3. c[i + 1] = stack[f + (i + 1) - 1]
        BY <2>6, <4>1
      <4>4. c[i + 1] = stack[(f + i - 1) + 1]
        BY <4>1, <4>3
      <4>5. stack[(f + i - 1) + 1] \in Imports(stack[f + i - 1])
        BY <2>8, <4>1
      <4> QED
        BY <4>2, <4>4, <4>5
    <3> QED
      BY <3>1, <3>2
  <2>11. cycle' = c /\ Len(c) - 1 = l /\ Last(c) = T
    BY <2>1, <2>6, <2>7 DEF c, Last
  <2> QED
    BY <1>1, <2>9, <2>10, <2>11 DEF CycleIsReal, Imports
<1> QED
  BY <1>2, <1>3, ResolverSteps DEF ImportKnown, ImportNew, FinishModule, resolverVars

\* Every cycle the resolver reports is a closed path of import statements.
THEOREM CyclesAreReal == Spec => []CycleIsReal
<1>1. Init => CycleIsReal
  BY DEF Init, CycleIsReal
<1>2. IInv /\ CycleIsReal /\ [Next]_vars => CycleIsReal'
  BY CycleStep
<1> QED
  BY <1>1, <1>2, Inductive, PTL DEF Spec

\* Code reads the newest variables of the modules it imports, however calls were nested.
THEOREM BindingsAreLive == Spec => []ImportsAreLive
<1>1. IInv => ImportsAreLive
  <2> SUFFICES ASSUME IInv, phase = "running"
               PROVE  /\ Active.module # Entry => Active.vars = WritesOf(Active.module)
                      /\ \A t \in Imports(Active.module) :
                           t \in DOMAIN scopes /\ scopes[t] = WritesOf(t)
    BY DEF ImportsAreLive
  <2>1. TypeOK /\ ResolverInv /\ RunInv /\ LiveInv
    BY DEF IInv, RunInv
  <2>2. /\ Depth \in Nat /\ Depth > 0 /\ Depth = Len(frames) /\ Active = frames[Depth]
        /\ Depth \in 1..Depth
    BY <2>1, ActiveFacts
  <2>3. Topmost(Depth)
    BY <2>2 DEF Topmost
  <2>4. Active.module # Entry => Active.vars = WritesOf(Active.module)
    BY <2>1, <2>2, <2>3 DEF LiveInv
  <2>5. \A t \in Imports(Active.module) :
          t \in Dependencies /\ t \in DOMAIN scopes /\ ~IsOpen(t)
    BY <2>1, ImportIsClosed
  <2> QED
    BY <2>1, <2>4, <2>5 DEF LiveInv
<1> QED
  BY <1>1, Inductive, PTL

\* The earlier run stays whole until the entry starts and is gone when it does.
THEOREM EpochsAreAtomic == Spec => EpochIsAtomic
<1> DEFINE Atomic ==
      /\ phase # "running" /\ phase' = "running" =>
           DOMAIN scopes' = Dependencies /\ \A m \in DOMAIN scopes' : scopes'[m] = {}
      /\ phase \in {"resolving", "checking", "initializing"} /\ phase' # "running" =>
           UNCHANGED scopes
<1>1. IInv /\ [Next]_vars => [Atomic]_vars
  <2> SUFFICES ASSUME IInv, Next PROVE Atomic
    OBVIOUS
  <2>1. CASE StartEntry
    BY <2>1, StartKeeps DEF IInv
  <2>2. ASSUME ~StartEntry
        PROVE  phase' = "running" => phase = "running"
    BY <2>2
       DEF Next, ImportCycle, ImportKnown, ImportNew, AtImport, ResolveFails, FinishModule,
           CheckProgram, CheckFails, InitializeModule, InitializationFails, Write, Call,
           Return, OtherStatement, Fail, Unwind, Finish
  <2>3. ASSUME ~StartEntry, phase \in {"resolving", "checking", "initializing"}
        PROVE  UNCHANGED scopes
    BY <2>3
       DEF Next, ImportCycle, ImportKnown, ImportNew, AtImport, ResolveFails, FinishModule,
           CheckProgram, CheckFails, InitializeModule, InitializationFails, Write, Call,
           Return, OtherStatement, Fail, Unwind, Finish, runVars
  <2> QED
    BY <2>1, <2>2, <2>3
<1> QED
  BY <1>1, Inductive, PTL DEF Spec, EpochIsAtomic

\* A call into a module stores its variables once, when it returns, and for good.
THEOREM CallsStoreOnReturn == Spec => CallsAreTransactions
<1> DEFINE Stores ==
      (phase \in {"running", "unwinding"}) =>
        \A t \in DOMAIN scopes :
          /\ scopes[t] \subseteq scopes'[t]
          /\ scopes'[t] # scopes[t] =>
               phase = "running" /\ \A i \in DOMAIN frames' : frames'[i].module # t
<1>1. IInv /\ [Next]_vars => [Stores]_vars
  <2> SUFFICES ASSUME IInv, Next, phase \in {"running", "unwinding"},
                      NEW t \in DOMAIN scopes
               PROVE  /\ scopes[t] \subseteq scopes'[t]
                      /\ scopes'[t] # scopes[t] =>
                           phase = "running" /\ \A i \in DOMAIN frames' : frames'[i].module # t
    BY DEF Stores
  <2>1. TypeOK /\ ResolverInv /\ RunInv
    BY DEF IInv
  <2>2. CASE Return
    <3>1. phase = "running" /\ frames' \in Seq(Frame)
      BY <2>1, <2>2, ReturnShape
    <3>2. scopes[t] \subseteq scopes'[t] /\ (scopes'[t] # scopes[t] => ~IsOpen(t)')
      BY <2>1, <2>2, ReturnKeeps
    <3>3. DOMAIN frames' = 1..Len(frames')
      BY <3>1
    <3> QED
      BY <3>1, <3>2, <3>3 DEF IsOpen
  <2>3. CASE ~Return
    <3>1. UNCHANGED scopes
      BY <2>3
         DEF Next, ImportCycle, ImportKnown, ImportNew, AtImport, ResolveFails, FinishModule,
             CheckProgram, CheckFails, InitializeModule, InitializationFails, StartEntry,
             Write, Call, OtherStatement, Fail, Unwind, Finish, runVars
    <3> QED
      BY <3>1
  <2> QED
    BY <2>2, <2>3
<1> QED
  BY <1>1, Inductive, PTL DEF Spec, CallsAreTransactions

-----------------------------------------------------------------------------
(* Termination.  Every step of a run uses up some of StepsLeft, a natural    *)
(* number: a run has at most as many steps as there are import statements,   *)
(* twice the number of files, twice the step limit and four more.            *)

\* The import statements a file has not got past, and one for the end of the file.
ImportsLeft == [m \in Modules |-> Len(imports[m]) + 1 - next[m]]
NextInv == \A m \in Modules : next[m] <= Len(imports[m]) + 1

Unloaded   == Modules \ ToSet(order)
Unstaged   == Dependencies \ staged
AfterCheck == 2 * MaxSteps + 3

StepsLeft ==
  CASE phase = "resolving" ->
         SumOf(ImportsLeft, Modules) + Cardinality(Unloaded) + Cardinality(Modules) + AfterCheck + 1
    [] phase = "checking"     -> Cardinality(Modules) + AfterCheck + 1
    [] phase = "initializing" -> Cardinality(Unstaged) + AfterCheck
    [] phase = "running"      -> 2 * (MaxSteps - steps) + Depth + 1
    [] phase = "unwinding"    -> Depth
    [] OTHER                  -> 0

EveryStepShrinks == [][StepsLeft' \in Nat /\ StepsLeft' < StepsLeft]_vars

\* A run looks at each import statement once.
LEMMA NextStep ==
  ASSUME TypeOK, StackInv, NextInv, [Next]_vars
  PROVE  NextInv'
<1> SUFFICES ASSUME NEW m \in Modules PROVE next'[m] <= Len(imports[m]) + 1
  BY ResolverSteps DEF NextInv
<1>1. next[m] <= Len(imports[m]) + 1
  BY DEF NextInv
<1>2. CASE next' = next
  BY <1>1, <1>2
<1>3. CASE AtImport /\ next' = [next EXCEPT ![Top] = @ + 1]
  <2>1. /\ next'[Top] = next[Top] + 1 /\ next[Top] \in 1..Len(imports[Top])
        /\ m # Top => next'[m] = next[m]
    BY <1>3, NextBump, TopFacts DEF AtImport
  <2>2. Len(imports[m]) \in Nat
    BY ImportsType, EmptyIff
  <2> QED BY <1>1, <2>1, <2>2
<1> QED
  BY <1>2, <1>3, ResolverSteps
     DEF ImportCycle, ImportKnown, ImportNew, FinishModule, resolverVars

\* The parts of StepsLeft are natural numbers.
LEMMA LeftFacts ==
  ASSUME IsFiniteSet(Modules), TypeOK, NextInv
  PROVE  /\ ImportsLeft \in [Modules -> Nat]
         /\ SumOf(ImportsLeft, Modules) \in Nat
         /\ IsFiniteSet(Unloaded) /\ Cardinality(Unloaded) \in Nat
         /\ Unstaged \subseteq Modules
         /\ IsFiniteSet(Unstaged) /\ Cardinality(Unstaged) \in Nat
         /\ Cardinality(Unstaged) <= Cardinality(Modules) /\ Cardinality(Modules) \in Nat
         /\ MaxSteps \in Nat /\ steps \in Nat /\ steps <= MaxSteps
<1>1. ASSUME NEW m \in Modules PROVE Len(imports[m]) + 1 - next[m] \in Nat
  <2>1. Len(imports[m]) \in Nat /\ next[m] \in Nat /\ next[m] <= Len(imports[m]) + 1
    BY ImportsType, EmptyIff DEF NextInv, TypeOK
  <2> QED BY <2>1
<1>2. ImportsLeft \in [Modules -> Nat]
  BY <1>1 DEF ImportsLeft
<1>3. SumOf(ImportsLeft, Modules) \in Nat
  BY <1>2, SumOfNaturals
<1>4. Unloaded \subseteq Modules /\ Unstaged \subseteq Modules
  <2>1. order \in Seq(Modules)
    BY DEF TypeOK
  <2> QED BY <2>1, ToSetFacts DEF Unloaded, Unstaged, Dependencies
<1>5. /\ IsFiniteSet(Unloaded) /\ IsFiniteSet(Unstaged)
      /\ Cardinality(Unstaged) <= Cardinality(Modules)
  BY <1>4, FS_Subset
<1>6. /\ Cardinality(Unloaded) \in Nat /\ Cardinality(Unstaged) \in Nat
      /\ Cardinality(Modules) \in Nat
  BY <1>5, FS_CardinalityType
<1>7. MaxSteps \in Nat /\ steps \in Nat /\ steps <= MaxSteps
  BY ModuleSystemAssumption DEF ModuleSystemAssumption, TypeOK
<1> QED BY <1>2, <1>3, <1>4, <1>5, <1>6, <1>7

\* A set that loses one of its elements and gains none gets smaller.
LEMMA FewerLeft ==
  ASSUME NEW S, IsFiniteSet(S), NEW e \in S
  PROVE  /\ Cardinality(S) \in Nat /\ Cardinality(S \ {e}) \in Nat
         /\ Cardinality(S \ {e}) = Cardinality(S) - 1
BY FS_RemoveElement, FS_CardinalityType

\* Passing an import statement takes one from the sum, and nothing else counts.
LEMMA ImportsShrink ==
  ASSUME IsFiniteSet(Modules), TypeOK, StackInv, NextInv, NextInv', TypeOK', AtImport,
         imports' = imports, next' = [next EXCEPT ![Top] = @ + 1]
  PROVE  SumOf(ImportsLeft', Modules) = SumOf(ImportsLeft, Modules) - 1
<1>1. /\ next'[Top] = next[Top] + 1 /\ Top \in Modules
      /\ \A m \in Modules : m # Top => next'[m] = next[m]
  BY NextBump, TopFacts DEF AtImport
<1>2. next[Top] \in Nat /\ Len(imports[Top]) \in Nat
  BY <1>1, ImportsType, EmptyIff DEF TypeOK
<1>3. ImportsLeft' = [m \in Modules |-> Len(imports[m]) + 1 - next'[m]]
  BY DEF ImportsLeft
<1>4. ImportsLeft \in [Modules -> Nat]
  BY LeftFacts
<1>5. ASSUME NEW m \in Modules PROVE Len(imports[m]) + 1 - next'[m] \in Nat
  <2>1. Len(imports'[m]) \in Nat /\ next'[m] \in Nat /\ next'[m] <= Len(imports'[m]) + 1
    <3>1. imports' \in [Modules -> Seq(Modules)] /\ next' \in [Modules -> Nat \ {0}]
      BY DEF TypeOK
    <3>2. imports'[m] \in Seq(Modules)
      BY <3>1
    <3> QED BY <3>1, <3>2, EmptyIff DEF NextInv
  <2> QED BY <2>1
<1> DEFINE f == ImportsLeft
           g == [m \in Modules |-> Len(imports[m]) + 1 - next'[m]]
<1>6. g \in [Modules -> Nat]
  BY <1>5
<1>7. /\ \A m \in Modules \ {Top} : g[m] = f[m]
      /\ g[Top] - f[Top] = 0 - 1
  BY <1>1, <1>2 DEF ImportsLeft
<1> HIDE DEF f, g
<1>8. f \in [Modules -> Nat]
  BY <1>4 DEF f
<1>9. SumOf(g, Modules) = SumOf(f, Modules) + (g[Top] - f[Top])
  BY <1>1, <1>6, <1>7, <1>8, SumOfChanged
<1>10. SumOf(f, Modules) \in Nat
  BY <1>8, SumOfNaturals
<1> QED BY <1>3, <1>7, <1>9, <1>10 DEF f, g

\* The file on top of the stack is not in the order yet.
LEMMA TopUnloaded ==
  ASSUME TypeOK, StackInv, ResolverInv, phase = "resolving"
  PROVE  Top \in Unloaded
<1>1. /\ Len(stack) \in 1..Len(stack) /\ Top = stack[Len(stack)] /\ Top \in Modules
      /\ order \in Seq(Modules)
  BY TopFacts DEF TypeOK
<1>2. \A j \in 1..Len(order) : stack[Len(stack)] # order[j]
  BY <1>1 DEF ResolverInv, PathInv
<1>3. \A e : e \in ToSet(order) <=> \E j \in 1..Len(order) : order[j] = e
  BY <1>1, ToSetFacts
<1> QED BY <1>1, <1>2, <1>3 DEF Unloaded

\* While imports are resolved a step passes an import statement or loads a file.
LEMMA ResolvingShrinks ==
  ASSUME IsFiniteSet(Modules), IInv, NextInv, IInv', NextInv', Next, phase = "resolving"
  PROVE  StepsLeft' < StepsLeft
<1> DEFINE a == SumOf(ImportsLeft, Modules)
           b == Cardinality(Unloaded)
           c == Cardinality(Modules)
<1>1. TypeOK /\ StackInv /\ ResolverInv /\ TypeOK'
  BY DEF IInv
<1>2. a \in Nat /\ b \in Nat /\ c \in Nat /\ AfterCheck \in Nat
  BY <1>1, LeftFacts DEF AfterCheck
<1>3. StepsLeft = a + b + c + AfterCheck + 1
  BY DEF StepsLeft
<1> HIDE DEF a, b, c
<1>4. CASE phase' = "failed"
  <2>1. StepsLeft' = 0
    BY <1>4 DEF StepsLeft
  <2> QED BY <1>2, <1>3, <2>1
<1>5. CASE ImportKnown \/ ImportNew
  <2>1. /\ AtImport /\ imports' = imports /\ order' = order /\ phase' = "resolving"
        /\ next' = [next EXCEPT ![Top] = @ + 1]
    BY <1>5 DEF ImportKnown, ImportNew, AtImport
  <2>2. SumOf(ImportsLeft', Modules) = a - 1
    BY <1>1, <2>1, ImportsShrink DEF a
  <2>3. Cardinality(Unloaded)' = b
    BY <2>1 DEF b, Unloaded
  <2>4. StepsLeft' = (a - 1) + b + c + AfterCheck + 1
    BY <2>1, <2>2, <2>3 DEF StepsLeft, AfterCheck, c
  <2> QED BY <1>2, <1>3, <2>4
<1>6. CASE FinishModule
  <2>1. /\ imports' = imports /\ next' = next /\ order' = Append(order, Top)
        /\ phase' \in {"resolving", "checking"}
    BY <1>6 DEF FinishModule, WithFinished
  <2>2. CASE phase' = "checking"
    <3>1. StepsLeft' = c + AfterCheck + 1
      BY <2>2 DEF StepsLeft, AfterCheck, c
    <3>2. Top \in Unloaded
      BY <1>1, TopUnloaded
    <3>3. b > 0
      <4>1. IsFiniteSet(Unloaded)
        BY <1>1, LeftFacts
      <4>2. b - 1 \in Nat
        BY <3>2, <4>1, FewerLeft DEF b
      <4> QED BY <1>2, <4>2
    <3> QED BY <1>2, <1>3, <3>1, <3>3
  <2>3. CASE phase' = "resolving"
    <3>1. Top \in Unloaded /\ Unloaded' = Unloaded \ {Top}
      <4>1. Top \in Modules /\ order \in Seq(Modules) /\ order' \in Seq(Modules)
        BY <1>1, TopFacts DEF TypeOK
      <4>2. Top \in Unloaded
        BY <1>1, TopUnloaded
      <4>3. ToSet(order') = ToSet(order) \cup {Top}
        <5>1. /\ Len(order') = Len(order) + 1 /\ order'[Len(order) + 1] = Top
              /\ \A i \in 1..Len(order) : order'[i] = order[i]
              /\ Len(order) \in Nat
          BY <2>1, <4>1, AppendFacts, EmptyIff
        <5>2. /\ \A i \in 1..Len(order') : i \in 1..Len(order) \/ i = Len(order) + 1
              /\ \A i \in 1..Len(order) : i \in 1..Len(order')
              /\ Len(order) + 1 \in 1..Len(order')
          BY <5>1
        <5>3. /\ \A e : e \in ToSet(order) <=> \E i \in 1..Len(order) : order[i] = e
              /\ \A e : e \in ToSet(order') <=> \E i \in 1..Len(order') : order'[i] = e
          BY <4>1, ToSetFacts
        <5> QED BY <5>1, <5>2, <5>3
      <4> QED BY <4>2, <4>3 DEF Unloaded
    <3>2. Cardinality(Unloaded') = b - 1
      BY <1>1, <3>1, FewerLeft, LeftFacts DEF b
    <3>3. SumOf(ImportsLeft, Modules)' = a
      BY <2>1 DEF a, ImportsLeft
    <3>4. StepsLeft' = a + (b - 1) + c + AfterCheck + 1
      BY <2>3, <3>2, <3>3 DEF StepsLeft, AfterCheck, c
    <3> QED BY <1>2, <1>3, <3>4
  <2> QED BY <2>1, <2>2, <2>3
<1>7. phase' = "failed" \/ ImportKnown \/ ImportNew \/ FinishModule
  BY DEF Next, ImportCycle, ResolveFails, CheckProgram, CheckFails, InitializeModule,
         InitializationFails, StartEntry, Write, OtherStatement, Call, Return, Fail, Unwind,
         Finish
<1> QED BY <1>4, <1>5, <1>6, <1>7

\* Between the resolver and the entry a step initialises a module or moves on.
LEMMA InitializingShrinks ==
  ASSUME IsFiniteSet(Modules), IInv, NextInv, IInv', Next, phase \in {"checking", "initializing"}
  PROVE  StepsLeft' < StepsLeft
<1> DEFINE b == Cardinality(Unstaged)
           c == Cardinality(Modules)
<1>1. TypeOK /\ StackInv' /\ RunInv' /\ StageInv
  BY DEF IInv
<1>2. /\ b \in Nat /\ c \in Nat /\ b <= c /\ IsFiniteSet(Unstaged)
      /\ AfterCheck = 2 * MaxSteps + 3 /\ MaxSteps \in Nat /\ steps \in Nat /\ steps <= MaxSteps
  BY <1>1, LeftFacts DEF AfterCheck
<1>3. CASE phase' \in {"failed", "rejected"}
  <2>1. StepsLeft' = 0
    BY <1>3 DEF StepsLeft
  <2>2. StepsLeft = c + AfterCheck + 1 \/ StepsLeft = b + AfterCheck
    BY DEF StepsLeft
  <2> HIDE DEF b, c
  <2> QED BY <1>2, <2>1, <2>2
<1>4. CASE CheckProgram /\ phase' = "initializing"
  <2>1. phase = "checking" /\ order' = order /\ staged' = staged
    BY <1>4 DEF CheckProgram, resolverVars
  <2>2. StepsLeft' = b + AfterCheck
    BY <1>4, <2>1 DEF StepsLeft, AfterCheck, Unstaged, Dependencies
  <2>3. StepsLeft = c + AfterCheck + 1
    BY <2>1 DEF StepsLeft
  <2> HIDE DEF b, c
  <2> QED BY <1>2, <2>2, <2>3
<1>5. ASSUME NEW i \in DOMAIN order, InitializeModule(i), phase' = "initializing"
      PROVE  StepsLeft' < StepsLeft
  <2>1. /\ phase = "initializing" /\ order' = order /\ order[i] \in Unstaged
        /\ staged' = staged \cup {order[i]}
    BY <1>5 DEF InitializeModule, resolverVars, Unstaged
  <2>2. Unstaged' = Unstaged \ {order[i]}
    BY <2>1 DEF Unstaged, Dependencies
  <2>3. Cardinality(Unstaged') = b - 1
    BY <1>2, <2>1, <2>2, FewerLeft
  <2>4. StepsLeft' = (b - 1) + AfterCheck
    BY <1>5, <2>3 DEF StepsLeft, AfterCheck
  <2>5. StepsLeft = b + AfterCheck
    BY <2>1 DEF StepsLeft
  <2> HIDE DEF b, c
  <2> QED BY <1>2, <2>4, <2>5
<1>6. CASE StartEntry /\ phase' = "running"
  <2>1. /\ phase = "initializing" /\ steps' = steps
        /\ frames' = <<[module |-> Entry, vars |-> {}]>>
    BY <1>6 DEF StartEntry
  <2>2. Len(frames') = 1
    BY <2>1
  <2>3. StepsLeft' = 2 * (MaxSteps - steps) + 1 + 1
    BY <1>6, <2>1, <2>2 DEF StepsLeft, Depth
  <2>4. StepsLeft = b + AfterCheck
    BY <2>1 DEF StepsLeft
  <2> HIDE DEF b, c
  <2> QED BY <1>2, <2>3, <2>4
<1>7. \/ phase' \in {"failed", "rejected"}
      \/ CheckProgram /\ phase' = "initializing"
      \/ \E i \in DOMAIN order : InitializeModule(i) /\ phase' = "initializing"
      \/ StartEntry /\ phase' = "running"
  BY DEF Next, ImportCycle, ImportKnown, ImportNew, AtImport, ResolveFails, FinishModule,
         CheckProgram, CheckFails, InitializeModule, InitializationFails, StartEntry, Write,
         OtherStatement, Call, Return, Fail, Unwind, Finish
<1> QED BY <1>3, <1>4, <1>5, <1>6, <1>7

\* A step of the entry's run charges the step limit or leaves a call, and an error
\* leaves the calls one by one.
LEMMA RunningShrinks ==
  ASSUME IsFiniteSet(Modules), IInv, NextInv, Next, phase \in {"running", "unwinding"}
  PROVE  StepsLeft' < StepsLeft
<1>1. TypeOK /\ ResolverInv /\ RunInv
  BY DEF IInv
<1>2. /\ Depth \in Nat /\ Depth > 0 /\ Depth = Len(frames)
      /\ MaxSteps \in Nat /\ steps \in Nat /\ steps <= MaxSteps
  BY <1>1, ActiveFacts, LeftFacts
<1>3. /\ phase = "running" => StepsLeft = 2 * (MaxSteps - steps) + Depth + 1
      /\ phase = "unwinding" => StepsLeft = Depth
  BY DEF StepsLeft
<1>4. /\ phase' = "running" => StepsLeft' = 2 * (MaxSteps - steps') + Len(frames') + 1
      /\ phase' = "unwinding" => StepsLeft' = Len(frames')
      /\ phase' \in {"failed", "finished"} => StepsLeft' = 0
  BY DEF StepsLeft, Depth
<1>5. CASE Write \/ OtherStatement
  <2>1. /\ phase = "running" /\ phase' = phase /\ steps' = steps + 1 /\ steps < MaxSteps
        /\ Len(frames') = Depth
    BY <1>1, <1>2, <1>5, WriteShape DEF OtherStatement, ChargeStatement, Charge, runVars
  <2> QED BY <1>2, <1>3, <1>4, <2>1
<1>6. ASSUME NEW t \in Modules, Call(t) PROVE StepsLeft' < StepsLeft
  <2>1. /\ phase = "running" /\ phase' = phase /\ steps' = steps + 1 /\ steps < MaxSteps
        /\ Len(frames') = Depth + 1
    BY <1>1, <1>6, CallShape
  <2> QED BY <1>2, <1>3, <1>4, <2>1
<1>7. CASE Return
  <2>1. phase = "running" /\ phase' = phase /\ steps' = steps /\ Len(frames') = Depth - 1
    BY <1>1, <1>7, ReturnShape
  <2> QED BY <1>2, <1>3, <1>4, <2>1
<1>8. CASE Fail
  <2>1. phase = "running" /\ phase' = "unwinding" /\ Len(frames') = Depth
    BY <1>2, <1>8 DEF Fail, runVars
  <2> QED BY <1>2, <1>3, <1>4, <2>1
<1>9. CASE Unwind
  <2>1. phase = "unwinding"
    BY <1>9 DEF Unwind
  <2>2. CASE Depth = 1
    <3>1. phase' = "failed"
      BY <1>9, <2>2 DEF Unwind
    <3> QED BY <1>2, <1>3, <1>4, <2>1, <3>1
  <2>3. CASE Depth # 1
    <3>1. phase' = "unwinding" /\ frames' = Front(frames)
      BY <1>9, <2>1, <2>3 DEF Unwind
    <3>2. frames \in Seq(Frame) /\ frames # <<>>
      BY <1>1, <2>1 DEF TypeOK, RunInv
    <3>3. Len(frames') = Depth - 1
      BY <1>2, <3>1, <3>2, FrontFacts
    <3> QED BY <1>2, <1>3, <1>4, <2>1, <3>1, <3>3
  <2> QED BY <2>2, <2>3
<1>10. CASE Finish
  <2>1. phase = "running" /\ phase' = "finished"
    BY <1>10 DEF Finish
  <2> QED BY <1>2, <1>3, <1>4, <2>1
<1>11. \/ Write \/ OtherStatement \/ (\E t \in Modules : Call(t)) \/ Return \/ Fail \/ Unwind
       \/ Finish
  BY DEF Next, ImportCycle, ImportKnown, ImportNew, AtImport, ResolveFails, FinishModule,
         CheckProgram, CheckFails, InitializeModule, InitializationFails, StartEntry
<1> QED BY <1>5, <1>6, <1>7, <1>8, <1>9, <1>10, <1>11

\* What is left of a run is a natural number.
LEMMA LeftType ==
  ASSUME IsFiniteSet(Modules), IInv, NextInv
  PROVE  StepsLeft \in Nat
<1> DEFINE a == SumOf(ImportsLeft, Modules)
           b == Cardinality(Unloaded)
           c == Cardinality(Modules)
           d == Cardinality(Unstaged)
<1>1. /\ a \in Nat /\ b \in Nat /\ c \in Nat /\ d \in Nat
      /\ MaxSteps \in Nat /\ steps \in Nat /\ steps <= MaxSteps
      /\ AfterCheck = 2 * MaxSteps + 3
  BY LeftFacts DEF IInv, AfterCheck
<1>2. Depth \in Nat
  BY EmptyIff DEF IInv, TypeOK, Depth
<1>3. StepsLeft \in {a + b + c + AfterCheck + 1, c + AfterCheck + 1, d + AfterCheck,
                     2 * (MaxSteps - steps) + Depth + 1, Depth, 0}
  <2>1. phase \in Phases
    BY DEF IInv, TypeOK
  <2> QED BY <2>1 DEF StepsLeft, Phases
<1> HIDE DEF a, b, c, d
<1> QED BY <1>1, <1>2, <1>3

\* Every run is over after a number of steps that its files and the step limit bound:
\* import cycles, recursive programs and endless loops included.  (A program has
\* finitely many files.)
THEOREM RunsAreBounded == IsFiniteSet(Modules) => (Spec => EveryStepShrinks)
<1> SUFFICES ASSUME IsFiniteSet(Modules) PROVE Spec => EveryStepShrinks
  OBVIOUS
<1>1. Init => NextInv
  <2> SUFFICES ASSUME Init, NEW m \in Modules PROVE next[m] <= Len(imports[m]) + 1
    BY DEF NextInv
  <2>1. next[m] = 1
    BY DEF Init
  <2>2. Len(imports[m]) \in Nat
    BY InitInv, ImportsType, EmptyIff DEF IInv
  <2> QED BY <2>1, <2>2
<1>2. IInv /\ NextInv /\ [Next]_vars => NextInv'
  BY NextStep DEF IInv
<1>3. IInv /\ NextInv => StepsLeft \in Nat
  BY LeftType
<1>4. (IInv /\ NextInv)' => (StepsLeft \in Nat)'
  BY <1>3, PTL
<1>5. IInv /\ NextInv /\ IInv' /\ NextInv' /\ [Next]_vars
        => [StepsLeft' \in Nat /\ StepsLeft' < StepsLeft]_vars
  <2> SUFFICES ASSUME IInv, NextInv, IInv', NextInv', Next
               PROVE  StepsLeft' \in Nat /\ StepsLeft' < StepsLeft
    OBVIOUS
  <2>1. StepsLeft' \in Nat
    BY <1>4
  <2>2. phase \in Phases /\ phase \notin Final
    BY DEF IInv, TypeOK, Final, Next, ImportCycle, ImportKnown, ImportNew, AtImport,
           ResolveFails, FinishModule, CheckProgram, CheckFails, InitializeModule,
           InitializationFails, StartEntry, Write, OtherStatement, Call, Return, Fail, Unwind,
           Finish
  <2> QED
    BY <2>1, <2>2, ResolvingShrinks, InitializingShrinks, RunningShrinks DEF Phases, Final
<1> QED BY <1>1, <1>2, <1>5, Inductive, PTL DEF Spec, EveryStepShrinks
==============================================================================
