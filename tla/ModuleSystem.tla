----------------------------- MODULE ModuleSystem -----------------------------
(***************************************************************************)
(* Explicit modules of the SolveLang language, from the entry file to the  *)
(* end of its run.  The resolver (solvec/src/module_resolver.rs) walks the *)
(* imports depth first and hands the graph and an order to the evaluator   *)
(* (run_modules in solvec-core/src/evaluator.rs).  The evaluator checks    *)
(* the order, initialises the imported modules in an evaluator of their    *)
(* own, replaces the state of the previous run by theirs and runs the      *)
(* entry.  A module function runs on a copy of its module's variables;     *)
(* the outermost call into the module stores the copy back when it         *)
(* returns, and an error, which no program can catch, drops it.            *)
(*                                                                         *)
(* A module's variables are represented by the set of writes they show;    *)
(* writes are numbered in the order they are made, and 0 stands for what   *)
(* an earlier run of the same evaluator left.                              *)
(*                                                                         *)
(* Definitions marked Fault are mistaken variants of the definition after  *)
(* them; no specification uses them.                                       *)
(***************************************************************************)
EXTENDS Integers, SequencesExt

CONSTANTS
  Modules,     \* canonical identities of the source files
  Entry,
  MaxImports,  \* bound: import statements of one file
  MaxSteps,    \* limits.max_steps
  MaxDepth     \* limits.max_call_depth

ASSUME ModuleSystemAssumption ==
  /\ Entry \in Modules
  /\ MaxImports \in Nat /\ MaxSteps \in Nat /\ MaxDepth \in Nat

VARIABLES
  imports,  \* [Modules -> Seq(Modules)], the import statements of each file
  phase,    \* what the host is doing, one of Phases
  stack,    \* Seq(Modules), files whose imports are being resolved
  next,     \* [Modules -> Nat \ {0}], the import statement each file is at
  order,    \* Seq(Modules), initialization order
  cycle,    \* Seq(Modules), the import cycle reported; <<>> if there is none
  staged,   \* SUBSET Modules, module scopes of the separate evaluator
  scopes,   \* [SUBSET Modules -> sets of writes], module_scopes of the evaluator
  frames,   \* Seq(Frame), active scope last, below it the scopes saved by calls
  log,      \* Seq(Modules), the module that made each write of this run
  steps     \* steps charged

resolverVars == <<stack, next, order, cycle>>
runVars      == <<scopes, frames, log>>
vars         == <<imports, phase, resolverVars, staged, runVars, steps>>

Phases == {"resolving", "checking", "initializing", "running", "unwinding",
           "finished", "failed", "rejected"}
Final  == {"finished", "failed", "rejected"}
Writes == 0..MaxSteps
Frame  == [module : Modules, vars : SUBSET Writes]

Imports(m) == ToSet(imports[m])

Init ==
  /\ imports \in [Modules -> BoundedSeq(Modules, MaxImports)]
  /\ phase = "resolving"
  /\ stack = <<Entry>>
  /\ next = [m \in Modules |-> 1]
  /\ order = <<>>
  /\ cycle = <<>>
  /\ staged = {}
  /\ scopes \in {[m \in {} |-> {}], [m \in Modules \ {Entry} |-> {0}]}
  /\ frames = <<>>
  /\ log = <<>>
  /\ steps = 0

-----------------------------------------------------------------------------
(* The resolver.                                                             *)

Top      == Last(stack)
AtImport == phase = "resolving" /\ next[Top] <= Len(imports[Top])
Target   == imports[Top][next[Top]]

(* Fault: the whole chain from the entry is reported.                        *)
FromEntry == stack
FromTarget == SubSeq(stack, CHOOSE i \in DOMAIN stack : stack[i] = Target, Len(stack))

ImportCycle ==
  /\ AtImport
  /\ Target \in ToSet(stack)
  /\ cycle' = Append(FromTarget, Target)
  /\ phase' = "failed"
  /\ UNCHANGED <<imports, stack, next, order, staged, runVars, steps>>

\* The file has been loaded for an earlier import.
ImportKnown ==
  /\ AtImport
  /\ Target \in ToSet(order)
  /\ next' = [next EXCEPT ![Top] = @ + 1]
  /\ UNCHANGED <<imports, phase, stack, order, cycle, staged, runVars, steps>>

ImportNew ==
  /\ AtImport
  /\ Target \notin ToSet(stack) \cup ToSet(order)
  /\ stack' = Append(stack, Target)
  /\ next' = [next EXCEPT ![Top] = @ + 1]
  /\ UNCHANGED <<imports, phase, order, cycle, staged, runVars, steps>>

\* The path is refused, the file unreadable, its text malformed or a named export missing.
ResolveFails ==
  /\ phase = "resolving"
  /\ phase' = "failed"
  /\ UNCHANGED <<imports, resolverVars, staged, runVars, steps>>

(* Fault: the last import statement is not visited.                          *)
ImportsDoneEarly == next[Top] >= Len(imports[Top])
ImportsDone == next[Top] > Len(imports[Top])

(* Fault: a finished module goes before the modules it imports.              *)
WithFinishedFirst(m) == <<m>> \o order
WithFinished(m) == Append(order, m)

FinishModule ==
  /\ phase = "resolving"
  /\ ImportsDone
  /\ stack' = Front(stack)
  /\ order' = WithFinished(Top)
  /\ phase' = IF Len(stack) = 1 THEN "checking" ELSE "resolving"
  /\ UNCHANGED <<imports, next, cycle, staged, runVars, steps>>

-----------------------------------------------------------------------------
(* Before the entry runs.                                                    *)

ValidOrder ==
  /\ order # <<>> /\ Last(order) = Entry
  /\ \A i, j \in DOMAIN order : order[i] = order[j] => i = j
  /\ \A i \in DOMAIN order : \A t \in Imports(order[i]) :
       \E j \in 1..(i - 1) : order[j] = t

CheckProgram ==
  /\ phase = "checking"
  /\ phase' = IF ValidOrder THEN "initializing" ELSE "rejected"
  /\ UNCHANGED <<imports, resolverVars, staged, runVars, steps>>

\* The static checks or a size limit refuse the program.
CheckFails ==
  /\ phase = "checking"
  /\ phase' = "failed"
  /\ UNCHANGED <<imports, resolverVars, staged, runVars, steps>>

Dependencies == ToSet(order) \ {Entry}

\* Every import of the module finds the scope it names.
ImportsInstalled(m) == Imports(m) \subseteq staged

(* Fault: the module is initialised in the evaluator that holds the earlier run. *)
InitializeInPlace(i) ==
  /\ phase = "initializing"
  /\ order[i] \in Dependencies \ staged
  /\ \A j \in 1..(i - 1) : order[j] \in staged
  /\ staged' = staged \cup {order[i]}
  /\ scopes' = [m \in DOMAIN scopes \cup {order[i]} |-> IF m = order[i] THEN {} ELSE scopes[m]]
  /\ UNCHANGED <<imports, phase, resolverVars, frames, log, steps>>

\* Module i of the order is the first without a scope; its declarations charge any
\* number of steps.
InitializeModule(i) ==
  /\ phase = "initializing"
  /\ order[i] \in Dependencies \ staged
  /\ \A j \in 1..(i - 1) : order[j] \in staged
  /\ IF ImportsInstalled(order[i])
       THEN staged' = staged \cup {order[i]} /\ UNCHANGED phase
       ELSE phase' = "rejected" /\ UNCHANGED staged
  /\ steps' \in steps..MaxSteps
  /\ UNCHANGED <<imports, resolverVars, runVars>>

InitializationFails ==
  /\ phase = "initializing"
  /\ phase' = "failed"
  /\ staged' = {}
  /\ UNCHANGED <<imports, resolverVars, runVars, steps>>

\* The earlier run is forgotten and the new scopes are taken over in one piece.
StartEntry ==
  /\ phase = "initializing"
  /\ Dependencies \subseteq staged
  /\ IF ImportsInstalled(Entry)
       THEN /\ phase' = "running"
            /\ scopes' = [m \in staged |-> {}]
            /\ frames' = <<[module |-> Entry, vars |-> {}]>>
            /\ staged' = {}
       ELSE phase' = "rejected" /\ UNCHANGED <<scopes, frames, staged>>
  /\ UNCHANGED <<imports, resolverVars, log, steps>>

-----------------------------------------------------------------------------
(* The run of the entry.                                                     *)

Depth  == Len(frames)
Active == Last(frames)

Charge == steps < MaxSteps /\ steps' = steps + 1
ChargeStatement == Charge
(* Fault: an expression is free.                                             *)
FreeExpression == UNCHANGED steps
ChargeExpression == Charge

\* An assignment to a variable of the module; imported names are read-only.
Write ==
  /\ phase = "running"
  /\ ChargeStatement
  /\ Active.module # Entry
  /\ log' = Append(log, Active.module)
  /\ frames' = [frames EXCEPT ![Depth].vars = @ \cup {Len(log')}]
  /\ UNCHANGED <<imports, phase, resolverVars, staged, scopes>>

\* Any other statement or loop turn, in the entry or in a module.
OtherStatement ==
  /\ phase = "running"
  /\ ChargeStatement
  /\ UNCHANGED <<imports, phase, resolverVars, staged, runVars>>

(* Fault: one call too many is let through.                                  *)
AtDepthLimit == Depth - 1 <= MaxDepth
BelowDepthLimit == Depth - 1 < MaxDepth

(* Fault: every call starts from the stored scope.                           *)
NeverSameModule(t) == t = Entry
SameModule(t) == Active.module = t

\* A name resolves to a function of the running module or of one that it imports.
Callable(t) == t = Active.module \/ t \in Imports(Active.module)

\* A call of a function of t.
Call(t) ==
  /\ phase = "running"
  /\ ChargeExpression
  /\ BelowDepthLimit
  /\ Callable(t)
  /\ frames' = Append(frames, [module |-> t,
                               vars |-> IF SameModule(t) THEN Active.vars ELSE scopes[t]])
  /\ UNCHANGED <<imports, phase, resolverVars, staged, scopes, log>>

Caller == frames[Depth - 1]

\* Entry functions leave no trace in the entry's variables.  A call within a module
\* hands its variables on; the outermost call into the module stores them.
Return ==
  /\ phase = "running"
  /\ Depth > 1
  /\ IF Caller.module = Active.module
       THEN /\ frames' = [Front(frames) EXCEPT ![Depth - 1].vars =
                            IF Active.module = Entry THEN @ ELSE Active.vars]
            /\ UNCHANGED scopes
       ELSE /\ frames' = Front(frames)
            /\ scopes' = [scopes EXCEPT ![Active.module] = Active.vars]
  /\ UNCHANGED <<imports, phase, resolverVars, staged, log, steps>>

\* Any runtime error, one of the limits included.
Fail ==
  /\ phase = "running"
  /\ phase' = "unwinding"
  /\ UNCHANGED <<imports, resolverVars, staged, runVars, steps>>

(* Fault: a failed call stores its module's variables as a finished one does.  *)
UnwindAndStore ==
  /\ phase = "unwinding"
  /\ IF Depth = 1
       THEN phase' = "failed" /\ UNCHANGED <<frames, scopes>>
       ELSE /\ frames' = Front(frames)
            /\ scopes' = [m \in DOMAIN scopes |->
                            IF m = Active.module THEN Active.vars ELSE scopes[m]]
            /\ UNCHANGED phase
  /\ UNCHANGED <<imports, resolverVars, staged, log, steps>>

\* Each failed call puts its caller's scope back and stores nothing.
Unwind ==
  /\ phase = "unwinding"
  /\ IF Depth = 1
       THEN phase' = "failed" /\ UNCHANGED frames
       ELSE frames' = Front(frames) /\ UNCHANGED phase
  /\ UNCHANGED <<imports, resolverVars, staged, scopes, log, steps>>

Finish ==
  /\ phase = "running"
  /\ Depth = 1
  /\ phase' = "finished"
  /\ UNCHANGED <<imports, resolverVars, staged, runVars, steps>>

-----------------------------------------------------------------------------
Next ==
  \/ ImportCycle \/ ImportKnown \/ ImportNew \/ ResolveFails \/ FinishModule
  \/ CheckProgram \/ CheckFails
  \/ \E i \in DOMAIN order : InitializeModule(i)
  \/ InitializationFails \/ StartEntry
  \/ Write \/ OtherStatement \/ (\E t \in Modules : Call(t)) \/ Return \/ Fail \/ Unwind \/ Finish

\* A run is one synchronous call of the host: it goes on until it ends.
Spec == Init /\ [][Next]_vars /\ WF_vars(Next)

-----------------------------------------------------------------------------
(* Types, and the two limits: steps and nested calls.                        *)
TypeOK ==
  /\ imports \in [Modules -> Seq(Modules)]
  /\ phase \in Phases
  /\ stack \in Seq(Modules)
  /\ next \in [Modules -> Nat \ {0}]
  /\ order \in Seq(Modules)
  /\ cycle \in Seq(Modules)
  /\ staged \subseteq Modules
  /\ DOMAIN scopes \subseteq Modules
  /\ scopes \in [DOMAIN scopes -> SUBSET Writes]
  /\ frames \in Seq(Frame) /\ Len(frames) <= MaxDepth + 1
  /\ log \in Seq(Modules) /\ Len(log) <= steps
  /\ steps \in 0..MaxSteps

(* What the resolver hands over always passes the evaluator's own checks:    *)
(* the entry last, no module twice, imports first, and no module is          *)
(* initialised before the modules it imports.                                *)
NeverRejected == phase # "rejected"

(* A resolved program holds the entry and every file it imports, directly or *)
(* not, and no other file.                                                   *)
LoadsWhatIsImported ==
  stack = <<>> =>
    /\ Entry \in ToSet(order)
    /\ \A m \in ToSet(order) : Imports(m) \subseteq ToSet(order)
    /\ \A S \in SUBSET Modules :
         Entry \in S /\ (\A m \in S : Imports(m) \subseteq S) => ToSet(order) \subseteq S

(* A reported cycle is a path of import statements that ends where it began. *)
CycleIsReal ==
  cycle # <<>> =>
    /\ Len(cycle) > 1 /\ cycle[1] = Last(cycle)
    /\ \A i \in 1..(Len(cycle) - 1) : cycle[i + 1] \in Imports(cycle[i])

WritesOf(m) == {i \in DOMAIN log : log[i] = m}

(* Imported names are live (ADR 0003): whenever code of a module runs, the   *)
(* stored variables of every module it imports show all the writes made to   *)
(* them in this run, and its own variables show all of its own.              *)
ImportsAreLive ==
  phase = "running" =>
    /\ Active.module # Entry => Active.vars = WritesOf(Active.module)
    /\ \A t \in Imports(Active.module) : t \in DOMAIN scopes /\ scopes[t] = WritesOf(t)

(* Until the entry starts, the state of the earlier run stays as it was, so  *)
(* a program that fails before then changes nothing; and when the entry      *)
(* starts nothing of the earlier run is left.                                *)
EpochIsAtomic ==
  [][/\ phase # "running" /\ phase' = "running" =>
          DOMAIN scopes' = Dependencies /\ \A m \in DOMAIN scopes' : scopes'[m] = {}
     /\ phase \in {"resolving", "checking", "initializing"} /\ phase' # "running" =>
          UNCHANGED scopes]_vars

(* A call into a module is a transaction: stored variables change only when  *)
(* the last open call into the module returns, never while an error unwinds, *)
(* and what was stored once is kept when a caller fails later.               *)
CallsAreTransactions ==
  [][(phase \in {"running", "unwinding"}) =>
       \A t \in DOMAIN scopes :
         /\ scopes[t] \subseteq scopes'[t]
         /\ scopes'[t] # scopes[t] =>
              phase = "running" /\ \A i \in DOMAIN frames' : frames'[i].module # t]_vars

(* Every run ends, recursive programs and endless loops included.            *)
Terminates == <>(phase \in Final)
=============================================================================
